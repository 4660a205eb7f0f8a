--------------------------- MODULE ExecutionProofs ---------------------------
(***************************************************************************)
(* Proofs about Execution, for every set of symbols and dates, every cap   *)
(* and every quantity, and for all seven faults and the archiving of the   *)
(* journal but for the hypotheses (NoStraggler and the like) that a        *)
(* theorem names.                                                          *)
(*                                                                         *)
(* The argument rests on one invariant, ExecInv, and on OrderMoves and     *)
(* JournalMoves, which say what any step may do to one order of the broker *)
(* and to the journal.  JournalImplemented shows that every step of the    *)
(* operator is a step of the journal's own specification, so that what     *)
(* the first part proves of OrderJournal carries over.  The pause, the     *)
(* halt, the cap at the broker, the chain of exits and the custody of the  *)
(* shares then need one more invariant each: PauseInv, HaltInv, SentInv,   *)
(* LeftInv and CustodyInv.  The sums over orders are over sets of one and  *)
(* of three, whose recursive definition is unfolded.                       *)
(***************************************************************************)
EXTENDS Execution, FiniteSetTheorems, WellFoundedInduction, TLAPS

(***************************************************************************)
(* The journal alone, for any symbols, dates, cap and quantities, and any  *)
(* reports of the broker.                                                  *)
(***************************************************************************)

\* The shape of order ids: parts, and the attempts of a key.
LEMMA IdParts ==
    /\ \A id \in OrderIds : /\ SymbolOf(id) \in Symbols
                            /\ \A d \in Days : DatedKey(d, id) \in Keys
    /\ \A id \in ClientIds : /\ id \in OrderIds
                             /\ id[1] \in Keys
                             /\ AttemptOf(id) \in 1..MaxExitAttempts
                             /\ id = Attempt(id[1], AttemptOf(id))
                             /\ SideOf(id) = id[1][3]
                             /\ DayOf(id) = id[1][1]
    /\ \A key \in Keys, n \in 1..MaxExitAttempts :
           /\ Attempt(key, n) \in ClientIds
           /\ Attempt(key, n)[1] = key
           /\ AttemptOf(Attempt(key, n)) = n
<1> USE DEF Keys, Sides, ClientIds, StopIds, OrderIds, SymbolOf, SideOf, DayOf,
            AttemptOf, Attempt, DatedKey
<1>1. \A id \in OrderIds : /\ SymbolOf(id) \in Symbols
                           /\ \A d \in Days : DatedKey(d, id) \in Keys
  OBVIOUS
<1>2. \A id \in ClientIds : /\ id \in OrderIds
                            /\ id[1] \in Keys
                            /\ AttemptOf(id) \in 1..MaxExitAttempts
                            /\ id = Attempt(id[1], AttemptOf(id))
                            /\ SideOf(id) = id[1][3]
                            /\ DayOf(id) = id[1][1]
  OBVIOUS
<1>3. \A key \in Keys, n \in 1..MaxExitAttempts :
          /\ Attempt(key, n) \in ClientIds
          /\ Attempt(key, n)[1] = key
          /\ AttemptOf(Attempt(key, n)) = n
  OBVIOUS
<1> QED BY <1>1, <1>2, <1>3

\* A retry's predecessor is the attempt just before it of the same key.
LEMMA Predecessor ==
    ASSUME NEW id \in ClientIds, AttemptOf(id) > 1
    PROVE  /\ PreviousAttempt(id) \in ClientIds
           /\ PreviousAttempt(id) # id
           /\ PreviousAttempt(id) = Attempt(id[1], AttemptOf(id) - 1)
  BY DEF ClientIds, PreviousAttempt, AttemptOf, Attempt, MaxExitAttempts

\* The cases of a step of the journal.
LEMMA StepCases ==
    ASSUME [JournalNext]_journalVars
    PROVE  \/ \E o \in Orders : ReserveOrder(o)
           \/ \E r \in Reports : RecordBrokerOrder(r)
           \/ \E r \in Reports : UpdateOrderStatus(r.id, r.status)
           \/ \E o \in Orders, n \in 1..MaxExitAttempts, r \in Reports :
                  PrepareRiskExitRetry(o.id[1], n, o.quantity, r)
           \/ \E r \in Reports, active \in BOOLEAN : SyncBrokerOrder(r, active)
           \/ \E r \in Reports, active \in BOOLEAN : FinishSync(r, active)
           \/ \E s \in Symbols, id \in StopIds : MarkProtectiveOrder(s, id)
           \/ \E s \in Symbols : ClearProtectiveOrder(s)
           \/ LatchHalt
           \/ ResetForAccount
           \/ \E r \in Reports : InterruptedSync(r)
           \/ InterruptedReset
           \/ UNCHANGED journalVars
  BY DEF JournalNext, JournalStep

-----------------------------------------------------------------------------
\* Writing a status keeps every intent's quantity and existence.
LEMMA StatusKeepsIntents ==
    ASSUME JournalTypeOK, NEW id \in OrderIds, NEW status \in RemoteStatuses
    PROVE  /\ WithStatus(id, status) \in
                  [ClientIds -> [status : IntentStatuses, quantity : Quantities]]
           /\ \A c \in ClientIds :
                  /\ WithStatus(id, status)[c].quantity = intents[c].quantity
                  /\ WithStatus(id, status)[c].status # "absent" <=> Reserved(c)
<1>1. "absent" \notin RemoteStatuses /\ RemoteStatuses \subseteq IntentStatuses
  BY DEF RemoteStatuses, IntentStatuses, TerminalStatuses, ActiveStatuses,
         RetryableStatuses
<1>2. CASE id \in ClientIds /\ Reserved(id)
  BY <1>1, <1>2 DEF WithStatus, JournalTypeOK, Reserved
<1>3. CASE ~(id \in ClientIds /\ Reserved(id))
  BY <1>3 DEF WithStatus, JournalTypeOK, Reserved
<1> QED BY <1>2, <1>3

LEMMA RecordedKeysType ==
    ASSUME JournalTypeOK, NEW r \in Reports
    PROVE  /\ RecordedKeys(r) \subseteq Keys
           /\ submittedKeys \subseteq RecordedKeys(r)
  BY IdParts DEF RecordedKeys, Reports, JournalTypeOK

LEMMA ZeroQuantity == MaxQuantity \in Nat /\ 0 \in Quantities
  BY JournalAssumption DEF JournalAssumption, Quantities

LEMMA InitialType == JournalInit => JournalTypeOK
<1> SUFFICES ASSUME JournalInit PROVE JournalTypeOK
  OBVIOUS
<1>1. NoIntent \in [status : IntentStatuses, quantity : Quantities]
  BY ZeroQuantity DEF NoIntent, IntentStatuses
<1>2. submittedKeys \subseteq Keys /\ halted \in BOOLEAN
  BY DEF JournalInit
<1>3. /\ intents \in [ClientIds -> [status : IntentStatuses, quantity : Quantities]]
      /\ authorized \in [ClientIds -> Quantities]
      /\ cursor \in [OrderIds -> Quantities]
  BY <1>1, ZeroQuantity DEF JournalInit
<1>4. protective \in [Symbols -> SUBSET StopIds]
  BY DEF JournalInit
<1> QED
  BY <1>2, <1>3, <1>4 DEF JournalTypeOK

LEMMA TypeInductive ==
    ASSUME JournalTypeOK, [JournalNext]_journalVars
    PROVE  JournalTypeOK'
<1>1. CASE \E o \in Orders : ReserveOrder(o)
  <2>1. PICK o \in Orders : ReserveOrder(o)
    BY <1>1
  <2>2. o.id \in ClientIds /\ o.id[1] \in Keys /\ o.quantity \in Quantities
    BY IdParts DEF Orders, Quantities
  <2> QED
    BY <2>1, <2>2, ZeroQuantity DEF ReserveOrder, JournalTypeOK, IntentStatuses
<1>2. CASE \E r \in Reports : RecordBrokerOrder(r)
  <2>1. PICK r \in Reports : RecordBrokerOrder(r)
    BY <1>2
  <2> QED
    BY <2>1, RecordedKeysType DEF RecordBrokerOrder, JournalTypeOK, Reports
<1>3. CASE \E r \in Reports : UpdateOrderStatus(r.id, r.status)
  BY <1>3, StatusKeepsIntents DEF UpdateOrderStatus, JournalTypeOK, Reports
<1>4. CASE \E o \in Orders, n \in 1..MaxExitAttempts, r \in Reports :
               PrepareRiskExitRetry(o.id[1], n, o.quantity, r)
  <2>1. PICK o \in Orders, n \in 1..MaxExitAttempts, r \in Reports :
               PrepareRiskExitRetry(o.id[1], n, o.quantity, r)
    BY <1>4
  <2>2. cursor' \in [OrderIds -> Quantities] /\ submittedKeys' \subseteq Keys
    BY <2>1, RecordedKeysType DEF PrepareRiskExitRetry, JournalTypeOK, Reports
  <2>3. intents' \in [ClientIds -> [status : IntentStatuses, quantity : Quantities]]
    BY <2>1 DEF PrepareRiskExitRetry, JournalTypeOK, RetryableStatuses,
                IntentStatuses, RemoteStatuses, TerminalStatuses
  <2>4. authorized' \in [ClientIds -> Quantities]
    <3>1. Remaining(r) \in Quantities
      BY <2>1, ZeroQuantity DEF PrepareRiskExitRetry, Remaining, Reports, Quantities
    <3>2. o.quantity \in Quantities
      BY DEF Orders, Quantities
    <3> QED BY <2>1, <3>1, <3>2 DEF PrepareRiskExitRetry, Authorized, JournalTypeOK
  <2> QED
    BY <2>1, <2>2, <2>3, <2>4 DEF PrepareRiskExitRetry, JournalTypeOK
<1>5. CASE \E r \in Reports, active \in BOOLEAN : SyncBrokerOrder(r, active)
  <2>1. PICK r \in Reports, active \in BOOLEAN : SyncBrokerOrder(r, active)
    BY <1>5
  <2>2. r.id \in OrderIds /\ r.status \in RemoteStatuses /\ r.submitted \in Days
        /\ r.filled \in Quantities
    BY DEF Reports
  <2>3. intents' \in [ClientIds -> [status : IntentStatuses, quantity : Quantities]]
    BY <2>1, <2>2, StatusKeepsIntents DEF SyncBrokerOrder
  <2>4. submittedKeys' \subseteq Keys
    BY <2>1, <2>2, IdParts, RecordedKeysType DEF SyncBrokerOrder, SyncedKeys
  <2>5. protective' \in [Symbols -> SUBSET StopIds]
    BY <2>1 DEF SyncBrokerOrder, TrackedStops, JournalTypeOK
  <2> QED
    BY <2>1, <2>2, <2>3, <2>4, <2>5 DEF SyncBrokerOrder, JournalTypeOK
<1>6. CASE \E s \in Symbols, id \in StopIds : MarkProtectiveOrder(s, id)
  BY <1>6 DEF MarkProtectiveOrder, JournalTypeOK
<1>7. CASE \E s \in Symbols : ClearProtectiveOrder(s)
  BY <1>7 DEF ClearProtectiveOrder, JournalTypeOK
<1>8. CASE LatchHalt
  BY <1>8 DEF LatchHalt, JournalTypeOK
<1>9. CASE ResetForAccount
  BY <1>9, ZeroQuantity DEF ResetForAccount, JournalTypeOK, NoIntent, IntentStatuses
<1>10. CASE \E r \in Reports : InterruptedSync(r)
  <2>1. PICK r \in Reports : InterruptedSync(r)
    BY <1>10
  <2>2. r.id \in OrderIds /\ r.submitted \in Days /\ r.filled \in Quantities
    BY DEF Reports
  <2>3. submittedKeys' \subseteq Keys
    BY <2>1, <2>2, IdParts, RecordedKeysType
       DEF InterruptedSync, SyncedKeys, JournalTypeOK
  <2> QED
    BY <2>1, <2>2, <2>3 DEF InterruptedSync, JournalTypeOK
<1>11. CASE InterruptedReset
  BY <1>11, ZeroQuantity DEF InterruptedReset, JournalTypeOK
<1>12. CASE \E r \in Reports, active \in BOOLEAN : FinishSync(r, active)
  <2>1. PICK r \in Reports, active \in BOOLEAN : FinishSync(r, active)
    BY <1>12
  <2>2. r.id \in OrderIds /\ r.status \in RemoteStatuses /\ r.submitted \in Days
    BY DEF Reports
  <2>3. intents' \in [ClientIds -> [status : IntentStatuses, quantity : Quantities]]
    BY <2>1, <2>2, StatusKeepsIntents DEF FinishSync
  <2>4. submittedKeys' \subseteq Keys
    BY <2>1, <2>2, IdParts DEF FinishSync, JournalTypeOK
  <2>5. protective' \in [Symbols -> SUBSET StopIds]
    BY <2>1 DEF FinishSync, TrackedStops, JournalTypeOK
  <2> QED
    BY <2>1, <2>3, <2>4, <2>5 DEF FinishSync, JournalTypeOK
<1>13. CASE UNCHANGED journalVars
  BY <1>13 DEF journalVars, JournalTypeOK
<1> QED
  BY StepCases, <1>1, <1>2, <1>3, <1>4, <1>5, <1>6, <1>7, <1>8, <1>9, <1>10, <1>11,
     <1>12, <1>13

-----------------------------------------------------------------------------
\* JournalTypeOK needs no strengthening.
THEOREM JournalTypeCorrect == JournalSpec => []JournalTypeOK
<1>1. JournalInit => JournalTypeOK
  BY InitialType
<1>2. JournalTypeOK /\ [JournalNext]_journalVars => JournalTypeOK'
  BY TypeInductive
<1> QED
  BY <1>1, <1>2, PTL DEF JournalSpec

-----------------------------------------------------------------------------
\* What the attempts of one key and their authorizations rest on.
ChainInv == ExitChain /\ AuthorizationSound

\* The attempts of a key and the authorizations do not depend on what a step
\* that only rewrites statuses changes.
LEMMA ChainUnderStatus ==
    ASSUME JournalTypeOK, ChainInv, authorized' = authorized,
           intents' \in [ClientIds -> [status : IntentStatuses, quantity : Quantities]],
           \A c \in ClientIds : /\ intents'[c].quantity = intents[c].quantity
                                /\ Reserved(c)' <=> Reserved(c)
    PROVE  ChainInv'
<1>1. \A key \in Keys, n \in 2..MaxExitAttempts :
          Attempt(key, n) \in ClientIds /\ Attempt(key, n - 1) \in ClientIds
  BY IdParts DEF MaxExitAttempts
<1>2. \A key \in Keys, n \in 1..MaxExitAttempts :
          Attempt(key, n) \in ClientIds /\ (n > 1 => Attempt(key, n - 1) \in ClientIds)
  BY IdParts DEF MaxExitAttempts
<1>3. ExitChain'
  BY <1>1 DEF ChainInv, ExitChain
<1>4. AuthorizationSound'
  BY <1>2 DEF ChainInv, AuthorizationSound
<1> QED
  BY <1>3, <1>4 DEF ChainInv

\* Reserving keeps the chain: a fresh order is attempt 1 of a key without
\* attempts, an authorized one extends the chain by one.
LEMMA ChainUnderReserve ==
    ASSUME JournalTypeOK, ChainInv, NEW o \in Orders, ReserveOrder(o)
    PROVE  ChainInv'
<1> DEFINE key == o.id[1]
           n   == AttemptOf(o.id)
<1>1. /\ o.id \in ClientIds /\ key \in Keys /\ n \in 1..MaxExitAttempts
      /\ o.id = Attempt(key, n) /\ SideOf(o.id) = key[3]
  BY IdParts DEF Orders
<1>2. /\ ~Reserved(o.id)
      /\ \/ authorized[o.id] > 0 /\ RetryAdmissible(o)
         \/ authorized[o.id] = 0 /\ n = 1
  BY <1>1 DEF ReserveOrder, MayReserve, FreshAdmissible, JournalTypeOK, Quantities
<1>3. n > 1 => /\ key[3] = "sell"
               /\ Attempt(key, n - 1) \in ClientIds
               /\ Attempt(key, n - 1) # o.id
               /\ Reserved(Attempt(key, n - 1))
               /\ o.quantity <= intents[Attempt(key, n - 1)].quantity
  <2> SUFFICES ASSUME n > 1
               PROVE  /\ key[3] = "sell"
                      /\ Attempt(key, n - 1) \in ClientIds
                      /\ Attempt(key, n - 1) # o.id
                      /\ Reserved(Attempt(key, n - 1))
                      /\ o.quantity <= intents[Attempt(key, n - 1)].quantity
    OBVIOUS
  <2>1. Attempt(key, n - 1) \in ClientIds /\ Attempt(key, n - 1) # o.id
    BY <1>1, Predecessor
  <2>2. authorized[Attempt(key, n)] > 0 /\ o.quantity <= authorized[Attempt(key, n)]
    BY <1>1, <1>2 DEF RetryAdmissible
  <2>3. /\ key[3] = "sell" /\ Reserved(Attempt(key, n - 1))
        /\ authorized[Attempt(key, n)] <= intents[Attempt(key, n - 1)].quantity
    BY <1>1, <2>2 DEF ChainInv, AuthorizationSound
  <2>4. /\ o.quantity \in Int /\ authorized[Attempt(key, n)] \in Int
        /\ intents[Attempt(key, n - 1)].quantity \in Int
    BY <1>1, <2>1 DEF Orders, JournalTypeOK, Quantities
  <2> QED
    BY <2>1, <2>2, <2>3, <2>4
<1>4. \A c \in ClientIds :
          /\ c # o.id => intents'[c] = intents[c] /\ authorized'[c] = authorized[c]
          /\ c = o.id => /\ intents'[c] = [status |-> "reserved", quantity |-> o.quantity]
                         /\ authorized'[c] = 0
  BY <1>1 DEF ReserveOrder, JournalTypeOK
<1>5. ExitChain'
  <2> SUFFICES ASSUME NEW k \in Keys, NEW m \in 2..MaxExitAttempts, Reserved(Attempt(k, m))'
               PROVE  /\ k[3] = "sell"
                      /\ Reserved(Attempt(k, m - 1))'
                      /\ intents'[Attempt(k, m)].quantity <= intents'[Attempt(k, m - 1)].quantity
    BY DEF ExitChain
  <2>1. /\ Attempt(k, m) \in ClientIds /\ Attempt(k, m - 1) \in ClientIds
        /\ Attempt(k, m)[1] = k /\ AttemptOf(Attempt(k, m)) = m
    BY IdParts DEF MaxExitAttempts
  <2>2. CASE Attempt(k, m) = o.id
    <3>1. k = key /\ m = n
      BY <2>1, <2>2
    <3> QED
      BY <1>1, <1>3, <1>4, <2>1, <2>2, <3>1 DEF Reserved
  <2>3. CASE Attempt(k, m) # o.id
    <3>1. Reserved(Attempt(k, m))
      BY <1>4, <2>1, <2>3 DEF Reserved
    <3>2. /\ k[3] = "sell" /\ Reserved(Attempt(k, m - 1))
          /\ intents[Attempt(k, m)].quantity <= intents[Attempt(k, m - 1)].quantity
      BY <3>1 DEF ChainInv, ExitChain
    <3>3. Attempt(k, m - 1) # o.id
      BY <1>2, <3>2
    <3> QED
      BY <1>4, <2>1, <2>3, <3>2, <3>3 DEF Reserved
  <2> QED BY <2>2, <2>3
<1>6. AuthorizationSound'
  <2> SUFFICES ASSUME NEW k \in Keys, NEW m \in 1..MaxExitAttempts,
                      authorized'[Attempt(k, m)] > 0
               PROVE  /\ k[3] = "sell" /\ m > 1
                      /\ ~Reserved(Attempt(k, m))'
                      /\ Reserved(Attempt(k, m - 1))'
                      /\ authorized'[Attempt(k, m)] <= intents'[Attempt(k, m - 1)].quantity
    BY DEF AuthorizationSound
  <2>1. Attempt(k, m) \in ClientIds
    BY IdParts
  <2>2. Attempt(k, m) # o.id
    BY <1>4, <2>1
  <2>3. authorized[Attempt(k, m)] > 0
    BY <1>4, <2>1, <2>2
  <2>4. /\ k[3] = "sell" /\ m > 1
        /\ ~Reserved(Attempt(k, m))
        /\ Reserved(Attempt(k, m - 1))
        /\ authorized[Attempt(k, m)] <= intents[Attempt(k, m - 1)].quantity
    BY <2>3 DEF ChainInv, AuthorizationSound
  <2>5. Attempt(k, m - 1) \in ClientIds /\ Attempt(k, m - 1) # o.id
    BY <1>2, <2>4, IdParts DEF MaxExitAttempts
  <2> QED
    BY <1>4, <2>1, <2>2, <2>4, <2>5 DEF Reserved
<1> QED
  BY <1>5, <1>6 DEF ChainInv

\* Authorizing a retry: for the attempt after the latest one, and for no more
\* than what that attempt left unexecuted.
LEMMA ChainUnderAuthorization ==
    ASSUME JournalTypeOK, JournalTypeOK', ChainInv,
           NEW o \in Orders, NEW n \in 1..MaxExitAttempts, NEW r \in Reports,
           PrepareRiskExitRetry(o.id[1], n, o.quantity, r)
    PROVE  ChainInv'
<1> DEFINE key  == o.id[1]
           next == Attempt(key, n + 1)
<1>1. /\ key \in Keys /\ key[3] = "sell" /\ n + 1 \in 1..MaxExitAttempts
      /\ r.id = Attempt(key, n) /\ r.id \in ClientIds /\ next \in ClientIds
      /\ Reserved(r.id) /\ ~Reserved(next)
  BY IdParts DEF PrepareRiskExitRetry, IsLatestAttempt, Orders, MaxExitAttempts
<1>2. /\ \A c \in ClientIds : /\ intents'[c].quantity = intents[c].quantity
                              /\ Reserved(c)' <=> Reserved(c)
      /\ \A c \in ClientIds : c # next => authorized'[c] = authorized[c]
  <2>1. intents' = [intents EXCEPT ![r.id].status = r.status] /\ r.status # "absent"
    BY DEF PrepareRiskExitRetry, RetryableStatuses
  <2>2. \A c \in ClientIds : c # next => authorized'[c] = authorized[c]
    BY <1>1 DEF PrepareRiskExitRetry, Authorized, JournalTypeOK
  <2> QED
    BY <1>1, <2>1, <2>2 DEF Reserved, JournalTypeOK
<1>3. authorized'[next] <= intents[r.id].quantity
  <2>1. r.quantity \in Nat /\ r.filled \in Nat /\ o.quantity \in Nat
    BY DEF Reports, Orders, Quantities
  <2>2. r.quantity = intents[r.id].quantity
    BY DEF PrepareRiskExitRetry
  <2>3. authorized'[next] = IF o.quantity < Remaining(r) THEN o.quantity ELSE Remaining(r)
    BY <1>1 DEF PrepareRiskExitRetry, Authorized, JournalTypeOK
  <2> QED
    BY <2>1, <2>2, <2>3 DEF Remaining
<1>4. ExitChain'
  <2>1. \A k \in Keys, m \in 2..MaxExitAttempts :
            Attempt(k, m) \in ClientIds /\ Attempt(k, m - 1) \in ClientIds
    BY IdParts DEF MaxExitAttempts
  <2> QED
    BY <1>2, <2>1 DEF ChainInv, ExitChain
<1>5. AuthorizationSound'
  <2> SUFFICES ASSUME NEW k \in Keys, NEW m \in 1..MaxExitAttempts,
                      authorized'[Attempt(k, m)] > 0
               PROVE  /\ k[3] = "sell" /\ m > 1
                      /\ ~Reserved(Attempt(k, m))'
                      /\ Reserved(Attempt(k, m - 1))'
                      /\ authorized'[Attempt(k, m)] <= intents'[Attempt(k, m - 1)].quantity
    BY DEF AuthorizationSound
  <2>1. /\ Attempt(k, m) \in ClientIds
        /\ Attempt(k, m)[1] = k /\ AttemptOf(Attempt(k, m)) = m
        /\ m > 1 => Attempt(k, m - 1) \in ClientIds
    BY IdParts DEF MaxExitAttempts
  <2>2. CASE Attempt(k, m) = next
    <3>1. k = key /\ m = n + 1
      BY <1>1, <2>1, <2>2, IdParts
    <3> QED
      BY <1>1, <1>2, <1>3, <2>1, <2>2, <3>1
  <2>3. CASE Attempt(k, m) # next
    <3>1. authorized'[Attempt(k, m)] = authorized[Attempt(k, m)]
      BY <1>2, <2>1, <2>3
    <3> QED
      BY <1>2, <2>1, <3>1 DEF ChainInv, AuthorizationSound
  <2> QED BY <2>2, <2>3
<1> QED
  BY <1>4, <1>5 DEF ChainInv

LEMMA ChainInductive ==
    ASSUME JournalTypeOK, JournalTypeOK', ChainInv, [JournalNext]_journalVars
    PROVE  ChainInv'
<1>1. ASSUME UNCHANGED <<intents, authorized>> PROVE ChainInv'
  BY <1>1 DEF ChainInv, ExitChain, AuthorizationSound, Reserved
<1>2. CASE \E o \in Orders : ReserveOrder(o)
  BY <1>2, ChainUnderReserve
<1>3. CASE \E r \in Reports : RecordBrokerOrder(r)
  BY <1>1, <1>3 DEF RecordBrokerOrder
<1>4. CASE \E r \in Reports : UpdateOrderStatus(r.id, r.status)
  <2>1. PICK r \in Reports : UpdateOrderStatus(r.id, r.status)
    BY <1>4
  <2>2. intents' = WithStatus(r.id, r.status) /\ authorized' = authorized
    BY <2>1 DEF UpdateOrderStatus
  <2> QED
    BY <2>2, StatusKeepsIntents, ChainUnderStatus DEF Reports, Reserved
<1>5. CASE \E o \in Orders, n \in 1..MaxExitAttempts, r \in Reports :
               PrepareRiskExitRetry(o.id[1], n, o.quantity, r)
  BY <1>5, ChainUnderAuthorization
<1>6. CASE \E r \in Reports, active \in BOOLEAN : SyncBrokerOrder(r, active)
  <2>1. PICK r \in Reports, active \in BOOLEAN : SyncBrokerOrder(r, active)
    BY <1>6
  <2>2. intents' = WithStatus(r.id, r.status) /\ authorized' = authorized
    BY <2>1 DEF SyncBrokerOrder
  <2> QED
    BY <2>2, StatusKeepsIntents, ChainUnderStatus DEF Reports, Reserved
<1>7. CASE \E s \in Symbols, id \in StopIds : MarkProtectiveOrder(s, id)
  BY <1>1, <1>7 DEF MarkProtectiveOrder
<1>8. CASE \E s \in Symbols : ClearProtectiveOrder(s)
  BY <1>1, <1>8 DEF ClearProtectiveOrder
<1>9. CASE LatchHalt
  BY <1>1, <1>9 DEF LatchHalt
<1>10. CASE ResetForAccount
  <2>1. \A c \in ClientIds : ~Reserved(c)' /\ authorized'[c] = 0
    BY <1>10 DEF ResetForAccount, Reserved, NoIntent
  <2>2. \A key \in Keys, n \in 1..MaxExitAttempts : Attempt(key, n) \in ClientIds
    BY IdParts
  <2> QED
    BY <2>1, <2>2 DEF ChainInv, ExitChain, AuthorizationSound, MaxExitAttempts
<1>11. CASE \E r \in Reports : InterruptedSync(r)
  BY <1>1, <1>11 DEF InterruptedSync
<1>12. CASE InterruptedReset
  BY <1>1, <1>12 DEF InterruptedReset
<1>13. CASE \E r \in Reports, active \in BOOLEAN : FinishSync(r, active)
  <2>1. PICK r \in Reports, active \in BOOLEAN : FinishSync(r, active)
    BY <1>13
  <2>2. intents' = WithStatus(r.id, r.status) /\ authorized' = authorized
    BY <2>1 DEF FinishSync
  <2> QED
    BY <2>2, StatusKeepsIntents, ChainUnderStatus DEF Reports, Reserved
<1>14. CASE UNCHANGED journalVars
  BY <1>1, <1>14 DEF journalVars
<1> QED
  BY StepCases, <1>2, <1>3, <1>4, <1>5, <1>6, <1>7, <1>8, <1>9, <1>10, <1>11, <1>12,
     <1>13, <1>14

LEMMA InitialChain == JournalInit => ChainInv
<1> SUFFICES ASSUME JournalInit PROVE ChainInv
  OBVIOUS
<1>1. \A c \in ClientIds : ~Reserved(c) /\ authorized[c] = 0
  BY DEF JournalInit, Reserved, NoIntent
<1>2. \A key \in Keys, n \in 1..MaxExitAttempts : Attempt(key, n) \in ClientIds
  BY IdParts
<1> QED
  BY <1>1, <1>2 DEF ChainInv, ExitChain, AuthorizationSound, MaxExitAttempts

\* The retries of an exit form one chain of attempts of shrinking quantity
\* (ExitChain), and an authorization always points just behind its end
\* (AuthorizationSound); each is inductive only together with the other.
THEOREM ExitChainHolds == JournalSpec => [](ExitChain /\ AuthorizationSound)
<1>1. JournalInit => JournalTypeOK /\ ChainInv
  BY InitialType, InitialChain
<1>2. JournalTypeOK /\ ChainInv /\ [JournalNext]_journalVars => (JournalTypeOK /\ ChainInv)'
  BY TypeInductive, ChainInductive
<1>3. ChainInv => ExitChain /\ AuthorizationSound
  BY DEF ChainInv
<1> QED
  BY <1>1, <1>2, <1>3, PTL DEF JournalSpec

-----------------------------------------------------------------------------
\* The keys counted for the cap contain one key for every BUY intent.
CapInv == IntentsHaveKeys /\ DailyBuyCap

\* The BUY keys of a date are at most as many as the symbols.
LEMMA BuyKeysFinite ==
    ASSUME JournalTypeOK, NEW day
    PROVE  IsFiniteSet(BuyKeys(day))
<1> DEFINE buyKeys == {<<day, s, "buy">> : s \in Symbols}
           f       == [s \in Symbols |-> <<day, s, "buy">>]
<1>1. IsFiniteSet(Symbols)
  BY JournalAssumption DEF JournalAssumption
<1>2. f \in Surjection(Symbols, buyKeys)
  BY DEF Surjection
<1>3. IsFiniteSet(buyKeys)
  BY <1>1, <1>2, FS_Surjection
<1>4. BuyKeys(day) \subseteq buyKeys
  BY DEF BuyKeys, JournalTypeOK, Keys
<1> QED
  BY <1>3, <1>4, FS_Subset

LEMMA ReservedBuysCounted ==
    ASSUME JournalTypeOK, IntentsHaveKeys, NEW day
    PROVE  /\ ReservedBuys(day) \subseteq BuyKeys(day)
           /\ IsFiniteSet(ReservedBuys(day))
           /\ Cardinality(ReservedBuys(day)) <= Cardinality(BuyKeys(day))
<1>1. ReservedBuys(day) \subseteq BuyKeys(day)
  <2> SUFFICES ASSUME NEW k \in ReservedBuys(day) PROVE k \in BuyKeys(day)
    OBVIOUS
  <2>1. /\ k \in Keys /\ k[1] = day /\ k[3] = "buy" /\ Reserved(Attempt(k, 1))
        /\ Attempt(k, 1) \in ClientIds /\ Attempt(k, 1)[1] = k
    BY IdParts DEF ReservedBuys, MaxExitAttempts
  <2> QED
    BY <2>1 DEF IntentsHaveKeys, BuyKeys
<1> QED
  BY <1>1, BuyKeysFinite, FS_Subset

LEMMA CapUnderGrowth ==
    ASSUME CapInv, submittedKeys \subseteq submittedKeys',
           \A c \in ClientIds : Reserved(c)' <=> Reserved(c)
    PROVE  CapInv'
<1>1. \A k \in Keys : Attempt(k, 1) \in ClientIds
  BY IdParts DEF MaxExitAttempts
<1>2. \A day : ReservedBuys(day)' = ReservedBuys(day)
  BY <1>1 DEF ReservedBuys
<1>3. IntentsHaveKeys'
  BY DEF CapInv, IntentsHaveKeys
<1> QED
  BY <1>2, <1>3 DEF CapInv, DailyBuyCap

\* A BUY is reserved under a new key while fewer than the cap are counted.
LEMMA CapUnderReserve ==
    ASSUME JournalTypeOK, ChainInv, CapInv, NEW o \in Orders, ReserveOrder(o)
    PROVE  CapInv'
<1> DEFINE key == o.id[1]
<1>1. /\ o.id \in ClientIds /\ key \in Keys /\ AttemptOf(o.id) \in 1..MaxExitAttempts
      /\ o.id = Attempt(key, AttemptOf(o.id))
      /\ SideOf(o.id) = key[3] /\ DayOf(o.id) = key[1]
  BY IdParts DEF Orders
<1>2. \A c \in ClientIds : Reserved(c)' <=> (Reserved(c) \/ c = o.id)
  BY <1>1 DEF ReserveOrder, JournalTypeOK, Reserved
<1>3. IntentsHaveKeys'
  BY <1>2 DEF ReserveOrder, CapInv, IntentsHaveKeys
<1>4. ASSUME NEW day \in Days
      PROVE  Cardinality(ReservedBuys(day))' <= MaxDailyOrders
  <2>1. \A k \in Keys : Attempt(k, 1) \in ClientIds /\ Attempt(k, 1)[1] = k
    BY IdParts DEF MaxExitAttempts
  <2>2. ReservedBuys(day)' \subseteq ReservedBuys(day) \cup {key}
    BY <1>2, <2>1 DEF ReservedBuys
  <2>3. IsFiniteSet(ReservedBuys(day)) /\ Cardinality(ReservedBuys(day)) <= MaxDailyOrders
    BY ReservedBuysCounted DEF CapInv, DailyBuyCap
  <2>4. CASE key[3] = "buy" /\ key[1] = day
    <3>1. Cardinality(BuyKeys(day)) < MaxDailyOrders
      BY <1>1, <2>4 DEF ReserveOrder, MayReserve
    <3>2. Cardinality(ReservedBuys(day)) <= Cardinality(BuyKeys(day))
      BY ReservedBuysCounted DEF CapInv
    <3>3. /\ Cardinality(BuyKeys(day)) \in Nat /\ Cardinality(ReservedBuys(day)) \in Nat
          /\ MaxDailyOrders \in Nat
      BY <2>3, BuyKeysFinite, FS_CardinalityType, JournalAssumption DEF JournalAssumption
    <3>4. /\ IsFiniteSet(ReservedBuys(day) \cup {key})
          /\ Cardinality(ReservedBuys(day) \cup {key}) <= Cardinality(ReservedBuys(day)) + 1
      BY <2>3, <3>3, FS_AddElement
    <3>5. /\ Cardinality(ReservedBuys(day)') <= Cardinality(ReservedBuys(day) \cup {key})
          /\ Cardinality(ReservedBuys(day)') \in Nat
          /\ Cardinality(ReservedBuys(day) \cup {key}) \in Nat
      BY <2>2, <3>4, FS_Subset, FS_CardinalityType
    <3> QED
      BY <3>1, <3>2, <3>3, <3>4, <3>5
  <2>5. CASE ~(key[3] = "buy" /\ key[1] = day)
    <3>1. ReservedBuys(day)' = ReservedBuys(day)
      BY <1>2, <2>1, <2>5 DEF ReservedBuys
    <3> QED
      BY <2>3, <3>1
  <2> QED BY <2>4, <2>5
<1> QED
  BY <1>3, <1>4 DEF CapInv, DailyBuyCap

LEMMA CapInductive ==
    ASSUME JournalTypeOK, ChainInv, CapInv, [JournalNext]_journalVars
    PROVE  CapInv'
<1>1. ASSUME submittedKeys \subseteq submittedKeys', intents' = intents PROVE CapInv'
  BY <1>1, CapUnderGrowth DEF Reserved
<1>2. CASE \E o \in Orders : ReserveOrder(o)
  BY <1>2, CapUnderReserve
<1>3. CASE \E r \in Reports : RecordBrokerOrder(r)
  BY <1>1, <1>3, RecordedKeysType DEF RecordBrokerOrder
<1>4. CASE \E r \in Reports : UpdateOrderStatus(r.id, r.status)
  <2>1. PICK r \in Reports : UpdateOrderStatus(r.id, r.status)
    BY <1>4
  <2>2. intents' = WithStatus(r.id, r.status) /\ submittedKeys' = submittedKeys
    BY <2>1 DEF UpdateOrderStatus
  <2> QED
    BY <2>2, StatusKeepsIntents, CapUnderGrowth DEF Reports, Reserved
<1>5. CASE \E o \in Orders, n \in 1..MaxExitAttempts, r \in Reports :
               PrepareRiskExitRetry(o.id[1], n, o.quantity, r)
  <2>1. PICK o \in Orders, n \in 1..MaxExitAttempts, r \in Reports :
               PrepareRiskExitRetry(o.id[1], n, o.quantity, r)
    BY <1>5
  <2>2. /\ r.id \in ClientIds /\ Reserved(r.id) /\ r.status # "absent"
        /\ intents' = [intents EXCEPT ![r.id].status = r.status]
        /\ submittedKeys' = RecordedKeys(r)
    BY <2>1, IdParts DEF PrepareRiskExitRetry, IsLatestAttempt, Orders, RetryableStatuses
  <2>3. \A c \in ClientIds : Reserved(c)' <=> Reserved(c)
    BY <2>2 DEF Reserved, JournalTypeOK
  <2> QED
    BY <2>2, <2>3, RecordedKeysType, CapUnderGrowth
<1>6. CASE \E r \in Reports, active \in BOOLEAN : SyncBrokerOrder(r, active)
  <2>1. PICK r \in Reports, active \in BOOLEAN : SyncBrokerOrder(r, active)
    BY <1>6
  <2>2. intents' = WithStatus(r.id, r.status) /\ submittedKeys' = SyncedKeys(r)
    BY <2>1 DEF SyncBrokerOrder
  <2>3. submittedKeys \subseteq submittedKeys'
    BY <2>2, RecordedKeysType DEF SyncedKeys
  <2> QED
    BY <2>2, <2>3, StatusKeepsIntents, CapUnderGrowth DEF Reports, Reserved
<1>7. CASE \E s \in Symbols, id \in StopIds : MarkProtectiveOrder(s, id)
  BY <1>1, <1>7 DEF MarkProtectiveOrder
<1>8. CASE \E s \in Symbols : ClearProtectiveOrder(s)
  BY <1>1, <1>8 DEF ClearProtectiveOrder
<1>9. CASE LatchHalt
  BY <1>1, <1>9 DEF LatchHalt
<1>10. CASE ResetForAccount
  <2>1. \A c \in ClientIds : ~Reserved(c)'
    BY <1>10 DEF ResetForAccount, Reserved, NoIntent
  <2>2. \A k \in Keys : Attempt(k, 1) \in ClientIds
    BY IdParts DEF MaxExitAttempts
  <2>3. \A day : ReservedBuys(day)' = {}
    BY <2>1, <2>2 DEF ReservedBuys
  <2>4. \A day : Cardinality(ReservedBuys(day)') <= MaxDailyOrders
    BY <2>3, FS_EmptySet, JournalAssumption DEF JournalAssumption
  <2> QED
    BY <2>1, <2>4 DEF CapInv, IntentsHaveKeys, DailyBuyCap
<1>11. CASE \E r \in Reports : InterruptedSync(r)
  BY <1>1, <1>11, RecordedKeysType DEF InterruptedSync, SyncedKeys
<1>12. CASE InterruptedReset
  BY <1>1, <1>12 DEF InterruptedReset
<1>13. CASE \E r \in Reports, active \in BOOLEAN : FinishSync(r, active)
  <2>1. PICK r \in Reports, active \in BOOLEAN : FinishSync(r, active)
    BY <1>13
  <2>2. intents' = WithStatus(r.id, r.status) /\ submittedKeys \subseteq submittedKeys'
    BY <2>1 DEF FinishSync
  <2> QED
    BY <2>2, StatusKeepsIntents, CapUnderGrowth DEF Reports, Reserved
<1>14. CASE UNCHANGED journalVars
  BY <1>1, <1>14 DEF journalVars
<1> QED
  BY StepCases, <1>2, <1>3, <1>4, <1>5, <1>6, <1>7, <1>8, <1>9, <1>10, <1>11, <1>12,
     <1>13, <1>14

LEMMA InitialCap == JournalInit => CapInv
<1> SUFFICES ASSUME JournalInit PROVE CapInv
  OBVIOUS
<1>1. \A c \in ClientIds : ~Reserved(c)
  BY DEF JournalInit, Reserved, NoIntent
<1>2. \A k \in Keys : Attempt(k, 1) \in ClientIds
  BY IdParts DEF MaxExitAttempts
<1>3. \A day : ReservedBuys(day) = {}
  BY <1>1, <1>2 DEF ReservedBuys
<1> QED
  BY <1>1, <1>3, FS_EmptySet, JournalAssumption
     DEF CapInv, IntentsHaveKeys, DailyBuyCap, JournalAssumption

\* The daily cap holds for the BUY intents of every date, for any number of
\* symbols and any cap: counting keys bounds intents because every intent has
\* its key (IntentsHaveKeys), and an authorization, which would bypass the
\* check of the key, is never for a BUY (AuthorizationSound).
THEOREM DailyBuyCapHolds == JournalSpec => []DailyBuyCap
<1>1. JournalInit => JournalTypeOK /\ ChainInv /\ CapInv
  BY InitialType, InitialChain, InitialCap
<1>2. JournalTypeOK /\ ChainInv /\ CapInv /\ [JournalNext]_journalVars
        => (JournalTypeOK /\ ChainInv /\ CapInv)'
  BY TypeInductive, ChainInductive, CapInductive
<1>3. CapInv => DailyBuyCap
  BY DEF CapInv
<1> QED
  BY <1>1, <1>2, <1>3, PTL DEF JournalSpec

-----------------------------------------------------------------------------
\* No step drops or resizes a reserved intent, forgets a key or releases the
\* halt, except the one that archives the whole journal.
THEOREM JournalDurable == JournalSpec => DurableUntilArchived
<1> DEFINE Kept     == /\ halted => halted'
                       /\ submittedKeys \subseteq submittedKeys'
                       /\ \A id \in ClientIds : Reserved(id) =>
                              Reserved(id)' /\ intents'[id].quantity = intents[id].quantity
           Archived == /\ submittedKeys' = {}
                       /\ ~halted'
                       /\ \A id \in ClientIds : ~Reserved(id)'
<1>1. ASSUME JournalTypeOK, [JournalNext]_journalVars
      PROVE  Kept \/ Archived
  <2>1. CASE \E o \in Orders : ReserveOrder(o)
    <3>1. PICK o \in Orders : ReserveOrder(o)
      BY <2>1
    <3>2. o.id \in ClientIds /\ ~Reserved(o.id)
      BY <3>1 DEF ReserveOrder, MayReserve, Orders
    <3> QED
      BY <1>1, <3>1, <3>2 DEF ReserveOrder, Reserved, JournalTypeOK
  <2>2. CASE \E r \in Reports : RecordBrokerOrder(r)
    BY <1>1, <2>2, RecordedKeysType DEF RecordBrokerOrder, Reserved
  <2>3. CASE \E r \in Reports : UpdateOrderStatus(r.id, r.status)
    BY <1>1, <2>3, StatusKeepsIntents, IdParts DEF UpdateOrderStatus, Reports, Reserved
  <2>4. CASE \E o \in Orders, n \in 1..MaxExitAttempts, r \in Reports :
                 PrepareRiskExitRetry(o.id[1], n, o.quantity, r)
    <3>1. PICK o \in Orders, n \in 1..MaxExitAttempts, r \in Reports :
                 PrepareRiskExitRetry(o.id[1], n, o.quantity, r)
      BY <2>4
    <3>2. /\ r.status # "absent" /\ halted' = halted /\ submittedKeys' = RecordedKeys(r)
          /\ intents' = [intents EXCEPT ![r.id].status = r.status]
      BY <3>1 DEF PrepareRiskExitRetry, RetryableStatuses
    <3>3. \A id \in ClientIds : Reserved(id) =>
              Reserved(id)' /\ intents'[id].quantity = intents[id].quantity
      BY <1>1, <3>2 DEF Reserved, JournalTypeOK
    <3> QED
      BY <1>1, <3>2, <3>3, RecordedKeysType
  <2>5. CASE \E r \in Reports, active \in BOOLEAN : SyncBrokerOrder(r, active)
    BY <1>1, <2>5, RecordedKeysType, StatusKeepsIntents
       DEF SyncBrokerOrder, SyncedKeys, Reports, Reserved
  <2>6. CASE \E s \in Symbols, id \in StopIds : MarkProtectiveOrder(s, id)
    BY <2>6 DEF MarkProtectiveOrder, Reserved
  <2>7. CASE \E s \in Symbols : ClearProtectiveOrder(s)
    BY <2>7 DEF ClearProtectiveOrder, Reserved
  <2>8. CASE LatchHalt
    BY <2>8 DEF LatchHalt, Reserved
  <2>9. CASE ResetForAccount
    BY <2>9 DEF ResetForAccount, Reserved, NoIntent
  <2>10. CASE \E r \in Reports : InterruptedSync(r)
    BY <1>1, <2>10, RecordedKeysType DEF InterruptedSync, SyncedKeys, Reserved
  <2>11. CASE InterruptedReset
    BY <2>11 DEF InterruptedReset, Reserved
  <2>12. CASE \E r \in Reports, active \in BOOLEAN : FinishSync(r, active)
    BY <1>1, <2>12, StatusKeepsIntents DEF FinishSync, Reports, Reserved
  <2>13. CASE UNCHANGED journalVars
    BY <2>13 DEF journalVars, Reserved
  <2> QED
    BY <1>1, StepCases, <2>1, <2>2, <2>3, <2>4, <2>5, <2>6, <2>7, <2>8, <2>9, <2>10,
       <2>11, <2>12, <2>13
<1>2. JournalTypeOK /\ [JournalNext]_journalVars => [Kept \/ Archived]_journalVars
  BY <1>1
<1>3. JournalSpec => []JournalTypeOK
  BY JournalTypeCorrect
<1> QED
  BY <1>2, <1>3, PTL DEF JournalSpec, DurableUntilArchived

(***************************************************************************)
(* The operator and the broker around the journal.                         *)
(***************************************************************************)

\* The orders the operator handles: entries, exits, and the stops, which have
\* broker ids of their own.
IsBuy(o)  == SideOf(o.id) = "buy"
IsSell(o) == SideOf(o.id) = "sell"

StopOrders == [id : StopIds, quantity : 1..MaxQuantity, risk : BOOLEAN]

\* The steps of one submission, and those of the cancellation a halt starts.
Submitting == {"await_sells", "revalidate", "buy_control", "reserve", "lookup", "send",
               "record"}
Canceling  == {"cancel_buys", "await_buys", "halt_sync"}

\* What the operator remembers at each step: an order is planned, ready or
\* being submitted only in the steps that work on it, and it is of today.
MemoryInv ==
    /\ planned \subseteq Orders /\ ready \subseteq Orders
    /\ pc # "send_stop" => current \subseteq Orders
    /\ pc = "send_stop" => current \subseteq StopOrders
    /\ \A o, p \in current : o = p
    /\ \A o \in planned \cup ready \cup current : o.id[1][1] = today
    /\ planned # {} => pc = "filter"
    /\ ready # {} => pc \in {"filter", "submit"} \cup Submitting \cup Canceling
    /\ current # {} => pc \in Submitting \cup Canceling \cup {"send_stop"}
    /\ pc \in {"revalidate", "buy_control"} \cup Canceling =>
           \A o \in current \cup ready : IsBuy(o)
    /\ pc \in Canceling /\ current = {} => ready = {}
    /\ pc = "await_sells" => \A o \in current : IsSell(o)
    /\ pc \in {"protect", "send_stop"} => \A s \in rows :
           view[s] > 0 /\ \A id \in seen[s] : id \in StopIds /\ SymbolOf(id) = s

\* Hypotheses. Nobody resets the journal; nobody does so while a cycle or a
\* request is on its way; no request comes late; lists are complete; nothing
\* executes between the two reads of the protection.
NoReset     == "reset" \notin Commands
ResetsApart == "busy_reset" \notin Faults
NoLate      == "late_request" \notin Faults
NoLag       == "list_lag" \notin Faults
NoRace      == "fill_between_reads" \notin Faults

\* The journal is not archived within a cycle; no request arrives after the
\* journal that knew of it was archived.
Undisturbed == NoReset \/ ResetsApart
NoStraggler == NoLate \/ Undisturbed

\* An order that reached the network but not yet the broker, and the orders that
\* may still buy.
InFlight(id)    == orders[id].status = "in_flight"
Outstanding(id) == Live(id) \/ InFlight(id)
OutstandingBuys == {id \in ClientIds : SideOf(id) = "buy" /\ Outstanding(id)}

\* The broker's order of an id.
BrokerInv ==
    \A id \in OrderIds :
        /\ orders[id].filled <= orders[id].quantity
        /\ orders[id].status \in {"absent", "in_flight"} => orders[id].filled = 0
        /\ Outstanding(id) => orders[id].filled < orders[id].quantity
        /\ Sent(id) => orders[id].filledOn \in Days /\ orders[id].submitted \in Days
        /\ id \in ClientIds /\ Sent(id) => orders[id].submitted = DayOf(id)
        /\ InFlight(id) => ~NoLate

\* Unless the journal is archived meanwhile, a live order of the operator, or one
\* that may become live, is known to the journal; what is about to be sent is not
\* at the broker.
KnownInv ==
    /\ Undisturbed => \A id \in ClientIds : Outstanding(id) => Reserved(id)
    /\ Undisturbed /\ pc \in {"lookup", "send", "record"} =>
           \A o \in current : Reserved(o.id)
    /\ pc = "lookup" => \A o \in current : ~InFlight(o.id)
    /\ pc = "send" => \A o \in current : ~Sent(o.id)
    /\ pc = "record" => \A o \in current : Visible(o.id)

\* At most one entry is on its way or live, and with what it may still buy no
\* holding exceeds the largest order.
BuyInv ==
    /\ \A id, other \in OutstandingBuys : id = other
    /\ \A id \in OutstandingBuys :
           position[SymbolOf(id)] + orders[id].quantity - orders[id].filled <= MaxQuantity
    /\ \A s \in Symbols : position[s] <= MaxQuantity /\ view[s] <= MaxQuantity
    /\ pc \in {"buy_control", "reserve", "lookup", "send"} =>
           \A o \in current : IsBuy(o) =>
               /\ OutstandingBuys = {}
               /\ position[SymbolOf(o.id)] <= 0

\* Resets that disturb nobody run between the cycles, and archive the journal
\* when no order may become live any more.
RestInv ==
    Undisturbed =>
        /\ archived = "no"
        /\ reset # "none" => ResetsApart /\ pc = "idle"
        /\ reset = "clear" => \A id \in OrderIds : ~Outstanding(id)

\* The inductive invariant. It adds to the journal's own invariants the memory of
\* the operator, the orders of the broker and what each knows of the other.
ExecInv ==
    /\ TypeOK /\ MemoryInv /\ BrokerInv /\ KnownInv /\ BuyInv /\ RestInv
    /\ JournalTrailsBroker /\ ChainInv /\ CapInv

-----------------------------------------------------------------------------
\* A step that leaves the operator alone, one that ends its command, one that
\* refuses an entry, and an archiving that overtakes the filter.
Still   == UNCHANGED <<pc, memoryVars>>
Left    == pc' = "idle" /\ ResetMemory
Refused == /\ pc \in {"cancel_buys", "await_buys", "revalidate", "buy_control", "reserve"}
           /\ RefuseEntry
Overtaking(o) == ArchiveJournal /\ pc = "filter" /\ planned' = planned \ {o}

\* The steps that go on with a command, without those that end it.
Plans ==
    \/ \E command \in {"risk", "signal", "protect"} : BeginCycle(command)
    \/ SyncDone
    \/ Reconcile /\ ~Left
    \/ Assess
    \/ CancelBuys /\ pc' = "await_buys"
    \/ BuysCanceled
    \/ HaltSynced
    \/ Plan /\ pc' = "filter"
    \/ \E o \in planned : Filter(o) \/ Overtaking(o)
    \/ FilterDone

\* The steps that submit an order, and those that place the stops.
Submits ==
    \/ \E o \in ready : BeginSell(o) \/ BeginBuy(o)
    \/ \E o \in current : \/ SellsCanceled(o)
                          \/ Revalidate(o) /\ ~Refused
                          \/ Reserve(o) /\ pc' = "lookup"
                          \/ Lookup(o) /\ ~Left
                          \/ Send(o) /\ pc' = "record"
                          \/ RecordSubmission(o)
    \/ BuyControl /\ pc' = "reserve"

Protects ==
    \/ ReadPositions
    \/ ReadOpenOrders
    \/ \E s \in rows :
           \/ ChooseStop(s) /\ ~Left
           \/ \E id \in seen[s] : (KeepStop(s, id) \/ ReplaceStop(s, id)) /\ ~Left
    \/ \E o \in current : SendStop(o) /\ pc' = "protect"

\* Every step is of one of these kinds.
LEMMA StepSplit ==
    ASSUME [Next]_vars
    PROVE  Still \/ Left \/ Refused \/ Plans \/ Submits \/ Protects
<1> USE DEF Plans, Submits, Protects
<1>1. CASE UNCHANGED vars
  BY <1>1 DEF vars, memoryVars, Still
<1>2. CASE Broker \/ NextDay \/ SetPaused
  BY <1>2 DEF Broker, Fill, EndOrder, Arrive, NextDay, SetPaused, Still
<1>3. CASE Crash \/ \E id \in OrderIds : CrashBetweenWrites(id)
  BY <1>3 DEF Crash, CrashBetweenWrites, Leave, Left
<1>4. CASE \E id \in OrderIds : SyncOrder(id) \/ FinishOrder(id)
  BY <1>4 DEF SyncOrder, FinishOrder, Still
<1>5. CASE CancelBuys
  BY <1>5 DEF CancelBuys, AbortCancellation, Leave, Left, Refused
<1>6. CASE BuysUnconfirmed
  BY <1>6 DEF BuysUnconfirmed, AbortCancellation, Leave, Left, Refused
<1>7. CASE Plan
  BY <1>7 DEF Plan, Leave, Left
<1>8. CASE CycleDone
  BY <1>8 DEF CycleDone, Leave, Left
<1>9. CASE \E o \in current : SellsUnconfirmed(o)
  BY <1>9 DEF SellsUnconfirmed, Leave, Left
<1>10. CASE \E o \in current : Reserve(o)
  BY <1>10 DEF Reserve, Refused
<1>11. CASE \E o \in current : Send(o)
  BY <1>11 DEF Send, SendAccepted, SendUnanswered, SendLost, SendDelayed, Leave, Left
<1>12. CASE BuyControl
  BY <1>12 DEF BuyControl, Refused
<1>13. CASE \E o \in current : SendStop(o)
  BY <1>13 DEF SendStop, SendUnanswered, SendLost, SendDelayed, Leave, Left
<1>14. CASE ProtectDone
  BY <1>14 DEF ProtectDone, Leave, Left
<1>15. CASE ResetState
  BY <1>15 DEF ResetState, ResetReadsPositions, ResetReadsOrders, ArchiveJournal, Resetting,
               Overtaken, Overtaking, Still, memoryVars
<1> QED
  BY <1>1, <1>2, <1>3, <1>4, <1>5, <1>6, <1>7, <1>8, <1>9, <1>10, <1>11, <1>12, <1>13,
     <1>14, <1>15 DEF Next, Operator, Environment, Submission, Protection

-----------------------------------------------------------------------------
\* A request that reached the broker, or will.
Requested(o, status) ==
    /\ pc \in {"send", "send_stop"} /\ pc' \notin {"send", "send_stop"}
    /\ pc = "send" \/ ~Visible(o.id)
    /\ status = "in_flight" => "late_request" \in Faults
    /\ orders' = [orders EXCEPT
           ![o.id] = [status |-> status, quantity |-> o.quantity, filled |-> 0,
                      filledOn |-> today, submitted |-> today]]
    /\ UNCHANGED position

\* A stop resized in place.
Replaced(s, id) ==
    /\ pc = "protect"
    /\ ReplaceableStop(id)
    /\ orders' = [orders EXCEPT ![id].quantity = view[s], ![id].submitted = today]
    /\ UNCHANGED position

\* The order in hand has an id and a quantity.
LEMMA CurrentIds ==
    ASSUME TypeOK, NEW o \in current
    PROVE  o.id \in OrderIds /\ o.quantity \in 1..MaxQuantity
  BY DEF TypeOK

\* A late request leaves the order on the network, as any request leaves one.
LEMMA DelayedIsRequested ==
    ASSUME TypeOK, NEW o \in current,
           orders' = [Accepted(o.id, o.quantity) EXCEPT ![o.id].status = "in_flight"]
    PROVE  orders' = [orders EXCEPT
               ![o.id] = [status |-> "in_flight", quantity |-> o.quantity, filled |-> 0,
                          filledOn |-> today, submitted |-> today]]
<1>1. o.id \in OrderIds /\ orders = [id \in OrderIds |-> orders[id]]
  BY CurrentIds DEF TypeOK
<1> QED
  BY <1>1 DEF Accepted

\* What a step may do to the broker's orders: an execution, an end or an arrival,
\* a set of cancellations, a request, or the resizing of a stop.
LEMMA OrderSplit ==
    ASSUME TypeOK, [Next]_vars
    PROVE  \/ UNCHANGED <<orders, position>>
           \/ \E id \in OrderIds : Fill(id) \/ EndOrder(id) \/ Arrive(id)
           \/ \E ids \in SUBSET OrderIds :
                  orders' = CancelRequested(ids) /\ UNCHANGED position
           \/ \E o \in current, status \in {"new", "in_flight"} : Requested(o, status)
           \/ \E s \in rows : \E id \in seen[s] : Replaced(s, id)
<1>1. CASE UNCHANGED vars
  BY <1>1 DEF vars, brokerVars
<1>2. CASE Broker
  BY <1>2 DEF Broker
<1>3. CASE NextDay \/ SetPaused \/ ResetState \/ Crash
  BY <1>3 DEF NextDay, SetPaused, ResetState, ResetReadsPositions, ResetReadsOrders,
              ArchiveJournal, Resetting, Crash, brokerVars
<1>4. CASE \E id \in OrderIds : CrashBetweenWrites(id) \/ SyncOrder(id) \/ FinishOrder(id)
  BY <1>4 DEF CrashBetweenWrites, SyncOrder, FinishOrder, brokerVars
<1>5. CASE \E command \in {"risk", "signal", "protect"} : BeginCycle(command)
  BY <1>5 DEF BeginCycle, brokerVars
<1>6. CASE SyncDone \/ Reconcile \/ Assess \/ BuysCanceled \/ BuysUnconfirmed \/ HaltSynced
           \/ Plan \/ FilterDone \/ CycleDone \/ BuyControl
  BY <1>6 DEF SyncDone, Reconcile, Assess, BuysCanceled, BuysUnconfirmed, HaltSynced,
              Plan, FilterDone, CycleDone, BuyControl, brokerVars
<1>7. CASE CancelBuys
  <2>1. OpenBuys \subseteq OrderIds
    BY DEF OpenBuys, OpenOrders
  <2> QED BY <1>7, <2>1 DEF CancelBuys
<1>8. CASE \E o \in planned : Filter(o)
  BY <1>8 DEF Filter, brokerVars
<1>9. ASSUME NEW o \in ready, BeginSell(o) \/ BeginBuy(o)
      PROVE  \/ UNCHANGED <<orders, position>>
             \/ \E ids \in SUBSET OrderIds :
                    orders' = CancelRequested(ids) /\ UNCHANGED position
  <2>1. OpenSells(SymbolOf(o.id)) \subseteq OrderIds
    BY DEF OpenSells, OpenOrders
  <2> QED BY <1>9, <2>1 DEF BeginSell, BeginBuy, brokerVars
<1>10. CASE \E o \in current : \/ SellsCanceled(o) \/ SellsUnconfirmed(o) \/ Revalidate(o)
                               \/ Reserve(o) \/ Lookup(o) \/ RecordSubmission(o)
  BY <1>10 DEF SellsCanceled, SellsUnconfirmed, Revalidate, Reserve, Lookup,
               RecordSubmission, brokerVars
<1>11. ASSUME NEW o \in current, Send(o) \/ SendStop(o)
       PROVE  \/ UNCHANGED <<orders, position>>
              \/ \E status \in {"new", "in_flight"} : Requested(o, status)
  <2>1. CASE SendDelayed(o)
    BY <1>11, <2>1, DelayedIsRequested DEF SendDelayed, Send, SendStop, Requested, Leave
  <2>2. CASE ~SendDelayed(o)
    BY <1>11, <2>2 DEF Send, SendStop, SendAccepted, SendUnanswered, SendLost, Delivered,
                       Accepted, Requested, Leave
  <2> QED BY <2>1, <2>2
<1>12. CASE ReadPositions \/ ReadOpenOrders \/ ProtectDone \/ \E s \in rows : ChooseStop(s)
  BY <1>12 DEF ReadPositions, ReadOpenOrders, ProtectDone, ChooseStop, brokerVars
<1>13. ASSUME NEW s \in rows, NEW id \in seen[s], KeepStop(s, id) \/ ReplaceStop(s, id)
       PROVE  UNCHANGED <<orders, position>> \/ Replaced(s, id)
  BY <1>13 DEF KeepStop, ReplaceStop, Replaced, brokerVars
<1> QED
  BY <1>1, <1>2, <1>3, <1>4, <1>5, <1>6, <1>7, <1>8, <1>9, <1>10, <1>11, <1>12, <1>13
     DEF Next, Operator, Environment, Submission, Protection

\* Only the user and a reservation touch what a pause is about.
LEMMA ControlSplit ==
    ASSUME [Next]_vars
    PROVE  \/ UNCHANGED <<paused, pausedBuys>> \/ SetPaused
           \/ \E o \in current : Reserve(o)
<1> USE DEF controlVars
<1>1. CASE UNCHANGED vars
  BY <1>1 DEF vars
<1>2. CASE Environment
  BY <1>2 DEF Environment, Broker, Fill, EndOrder, Arrive, NextDay, ResetState,
              ResetReadsPositions, ResetReadsOrders, ArchiveJournal, Resetting, Crash,
              CrashBetweenWrites
<1>3. CASE Submission \/ Protection
  BY <1>3 DEF Submission, Protection, BeginSell, BeginBuy, SellsCanceled, SellsUnconfirmed,
              Revalidate, Lookup, Send, RecordSubmission, BuyControl, CycleDone,
              ReadPositions, ReadOpenOrders, ProtectDone, ChooseStop, KeepStop, ReplaceStop,
              SendStop
<1>4. CASE Operator /\ ~(Submission \/ Protection)
  BY <1>4 DEF Operator, BeginCycle, SyncOrder, FinishOrder, SyncDone, Reconcile, Assess,
              CancelBuys, BuysCanceled, BuysUnconfirmed, HaltSynced, Plan, FilterDone, Filter
<1> QED
  BY <1>1, <1>2, <1>3, <1>4 DEF Next

\* Only reset-state, and the cycle that forgets an archiving, touch what a reset
\* is about.
LEMMA ResetSplit ==
    ASSUME [Next]_vars
    PROVE  \/ UNCHANGED resetVars
           \/ archived' = "no" /\ reset' = reset
           \/ archived = "within" /\ archived' = "between" /\ reset' = reset
           \/ ResetState
<1> USE DEF controlVars, resetVars
<1>1. CASE UNCHANGED vars
  BY <1>1 DEF vars
<1>2. CASE Environment
  BY <1>2 DEF Environment, Broker, Fill, EndOrder, Arrive, NextDay, SetPaused, Crash,
              CrashBetweenWrites
<1>3. CASE Submission \/ Protection
  BY <1>3 DEF Submission, Protection, BeginSell, BeginBuy, SellsCanceled, SellsUnconfirmed,
              Revalidate, Reserve, Lookup, Send, RecordSubmission, BuyControl, CycleDone,
              ReadPositions, ReadOpenOrders, ProtectDone, ChooseStop, KeepStop, ReplaceStop,
              SendStop
<1>4. CASE Operator /\ ~(Submission \/ Protection)
  BY <1>4 DEF Operator, BeginCycle, SyncOrder, FinishOrder, SyncDone, Reconcile, Assess,
              CancelBuys, BuysCanceled, BuysUnconfirmed, HaltSynced, Plan, FilterDone, Filter
<1> QED
  BY <1>1, <1>2, <1>3, <1>4 DEF Next

\* What a step sets besides the journal, the orders and the order in work.
Refreshed == view' = view \/ view' = position \/ view' = [s \in Symbols |-> 0]

\* The date, the program counter, the command and the view move as their types say.
LEMMA Frame ==
    ASSUME TypeOK, [Next]_vars
    PROVE  /\ today' = today \/ (NextDay /\ pc = "idle")
           /\ pc' \in Steps
           /\ cycle' \in {"risk", "signal", "protect"}
           /\ Refreshed
           /\ rows' \subseteq Symbols
           /\ seen' \in [Symbols -> SUBSET OrderIds]
           /\ paused' \in BOOLEAN
           /\ pausedBuys' \in Nat
           /\ reset' \in {"none", "flat", "clear"}
           /\ archived' \in {"no", "between", "within"}
<1> USE DEF TypeOK
<1>1. today' = today \/ (NextDay /\ pc = "idle")
  <2>1. CASE UNCHANGED vars
    BY <2>1 DEF vars, brokerVars
  <2>2. CASE Environment
    BY <2>2 DEF Environment, Broker, Fill, EndOrder, Arrive, NextDay, SetPaused, ResetState,
                ResetReadsPositions, ResetReadsOrders, ArchiveJournal, Resetting, Crash,
                CrashBetweenWrites, brokerVars
  <2>3. CASE Submission \/ Protection
    BY <2>3 DEF Submission, Protection, BeginSell, BeginBuy, SellsCanceled, SellsUnconfirmed,
                Revalidate, Reserve, Lookup, Send, RecordSubmission, BuyControl, CycleDone,
                ReadPositions, ReadOpenOrders, ProtectDone, ChooseStop, KeepStop, ReplaceStop,
                SendStop, brokerVars
  <2>4. CASE Operator /\ ~(Submission \/ Protection)
    BY <2>4 DEF Operator, BeginCycle, SyncOrder, FinishOrder, SyncDone, Reconcile, Assess,
                CancelBuys, BuysCanceled, BuysUnconfirmed, HaltSynced, Plan, FilterDone, Filter,
                brokerVars
  <2> QED BY <2>1, <2>2, <2>3, <2>4 DEF Next
<1>2. pc' \in Steps
  <2> USE DEF Steps
  <2>1. CASE Still \/ Left \/ Refused
    BY <2>1 DEF Still, Left, Refused, RefuseEntry
  <2>2. CASE Plans
    BY <2>2 DEF Plans, BeginCycle, SyncDone, Reconcile, Assess, BuysCanceled, HaltSynced,
                FilterDone, Filter, Overtaking, ArchiveJournal, Resetting, Leave, Left
  <2>3. CASE Submits
    BY <2>3 DEF Submits, BeginSell, BeginBuy, SellsCanceled, Revalidate, Refused, Lookup,
                RecordSubmission, Leave, Left
  <2>4. CASE Protects
    BY <2>4 DEF Protects, ReadPositions, ReadOpenOrders, ChooseStop, KeepStop, ReplaceStop,
                Visited, Leave, Left
  <2> QED BY StepSplit, <2>1, <2>2, <2>3, <2>4
<1>3. /\ cycle' \in {"risk", "signal", "protect"}
      /\ Refreshed
      /\ rows' \subseteq Symbols
      /\ seen' \in [Symbols -> SUBSET OrderIds]
  <2> USE DEF Refreshed, memoryVars
  <2>1. CASE Still \/ Left \/ Refused
    BY <2>1 DEF Still, Left, Refused, RefuseEntry, ResetMemory
  <2>2. CASE Plans
    BY <2>2 DEF Plans, BeginCycle, SyncDone, Reconcile, Assess, CancelBuys, BuysCanceled,
                HaltSynced, Plan, FilterDone, Filter, PrepareRetry, DropDuplicate, KeepOrder,
                Overtaking, ArchiveJournal, Resetting, RefreshView, AbortCancellation,
                RefuseEntry, Leave, Left, ResetMemory
  <2>3. CASE Submits
    BY <2>3 DEF Submits, BeginSell, BeginBuy, SellsCanceled, Revalidate, Refused, Reserve,
                Lookup, Send, SendAccepted, SendUnanswered, SendLost, SendDelayed,
                RecordSubmission, BuyControl, RefuseEntry, RefreshView, Leave, Left, ResetMemory
  <2>4. CASE Protects /\ ~ReadOpenOrders
    <3>1. CASE ReadPositions
      BY <3>1 DEF ReadPositions
    <3>2. ASSUME NEW s \in rows, ChooseStop(s), ~Left
          PROVE  UNCHANGED <<cycle, view, seen>> /\ rows' \subseteq rows
      BY <3>2 DEF ChooseStop, Visited, Leave, Left
    <3>3. ASSUME NEW s \in rows, NEW id \in seen[s], KeepStop(s, id) \/ ReplaceStop(s, id), ~Left
          PROVE  UNCHANGED <<cycle, view, seen>> /\ rows' \subseteq rows
      BY <3>3 DEF KeepStop, ReplaceStop, Visited, Leave, Left
    <3>4. ASSUME NEW o \in current, SendStop(o), pc' = "protect"
          PROVE  UNCHANGED <<cycle, view, seen>> /\ rows' \subseteq rows
      BY <3>4 DEF SendStop, SendUnanswered, SendLost, SendDelayed, Leave
    <3> QED BY <2>4, <3>1, <3>2, <3>3, <3>4 DEF Protects
  <2>5. CASE ReadOpenOrders
    <3>1. UNION {OpenSells(s) : s \in Symbols} \subseteq OrderIds
      BY DEF OpenSells, OpenOrders
    <3> QED BY <2>5, <3>1 DEF ReadOpenOrders
  <2> QED BY StepSplit, <2>1, <2>2, <2>3, <2>4, <2>5
<1>4. paused' \in BOOLEAN /\ pausedBuys' \in Nat
  <2>1. CASE UNCHANGED <<paused, pausedBuys>>
    BY <2>1
  <2>2. CASE SetPaused
    BY <2>2 DEF SetPaused
  <2>3. CASE \E o \in current : Reserve(o)
    BY <2>3 DEF Reserve
  <2> QED BY ControlSplit, <2>1, <2>2, <2>3
<1>5. reset' \in {"none", "flat", "clear"} /\ archived' \in {"no", "between", "within"}
  <2>1. CASE ResetState
    BY <2>1 DEF ResetState, ResetReadsPositions, ResetReadsOrders, ArchiveJournal, Overtaken
  <2> QED BY <2>1, ResetSplit DEF resetVars
<1> QED
  BY <1>1, <1>2, <1>3, <1>4, <1>5

-----------------------------------------------------------------------------
\* The shape of stop ids.
LEMMA StopParts ==
    \A id \in StopIds : /\ id \in OrderIds /\ id \notin ClientIds
                        /\ SideOf(id) = "sell" /\ SymbolOf(id) \in Symbols
  BY DEF StopIds, OrderIds, ClientIds, Keys, Sides, SideOf, SymbolOf

\* What a step may do to one order of the broker.
StatusOnly(id, status) ==
    /\ orders'[id].status = status
    /\ orders'[id].quantity = orders[id].quantity
    /\ orders'[id].filled = orders[id].filled
    /\ orders'[id].filledOn = orders[id].filledOn
    /\ orders'[id].submitted = orders[id].submitted

\* The order executed one share more.
GrownOrder(id) ==
    /\ Live(id)
    /\ orders'[id].status = IF orders[id].filled + 1 = orders[id].quantity
                            THEN "filled" ELSE orders[id].status
    /\ orders'[id].quantity = orders[id].quantity
    /\ orders'[id].filled = orders[id].filled + 1
    /\ orders'[id].filledOn = today
    /\ orders'[id].submitted = orders[id].submitted

\* The order in hand reached the broker, or the network.
NewOrder(id) ==
    /\ ~Visible(id)
    /\ id \in ClientIds => pc = "send" /\ ~Sent(id)
    /\ id \notin ClientIds => pc = "send_stop"
    /\ pc' \notin {"send", "send_stop"}
    /\ orders'[id].status \in {"new", "in_flight"}
    /\ orders'[id].status = "in_flight" => "late_request" \in Faults
    /\ \E o \in current : o.id = id /\ orders'[id].quantity = o.quantity
    /\ orders'[id].filled = 0
    /\ orders'[id].filledOn = today
    /\ orders'[id].submitted = today

\* The order is a stop that was resized.
NewQuantity(id) ==
    /\ pc = "protect"
    /\ ReplaceableStop(id)
    /\ \E s \in rows : id \in seen[s] /\ orders'[id].quantity = view[s]
    /\ orders'[id].status = "new"
    /\ orders'[id].filled = 0
    /\ orders'[id].filledOn = orders[id].filledOn
    /\ orders'[id].submitted = today

\* One order after a step: the same, grown, ended, asked to cancel, arrived,
\* new or resized.
OrderMove(id) ==
    \/ orders'[id] = orders[id]
    \/ GrownOrder(id)
    \/ Live(id) /\ StatusOnly(id, "canceled")
    \/ Live(id) /\ StatusOnly(id, "pending_cancel")
    \/ InFlight(id) /\ StatusOnly(id, "new")
    \/ NewOrder(id)
    \/ NewQuantity(id)

\* The records of the broker's orders.
OrderRecord == [status : ActiveStatuses \cup {"absent", "in_flight", "filled", "canceled"},
                quantity : Quantities, filled : Quantities,
                filledOn : Days \cup {0}, submitted : Days \cup {0}]

\* An execution grows one order by a share and leaves the others alone.
LEMMA FillGrows ==
    ASSUME TypeOK, BrokerInv, NEW id \in OrderIds, Fill(id)
    PROVE  /\ orders' \in [OrderIds -> OrderRecord]
           /\ GrownOrder(id)
           /\ \A i \in OrderIds : i # id => orders'[i] = orders[i]
<1>1. /\ orders \in [OrderIds -> OrderRecord] /\ today \in Days
      /\ \A i \in OrderIds : /\ orders[i].filled \in Quantities
                             /\ orders[i].quantity \in Quantities
  BY DEF TypeOK, OrderRecord
<1> DEFINE status == IF orders[id].filled + 1 = orders[id].quantity
                     THEN "filled" ELSE orders[id].status
           next == [orders[id] EXCEPT !.filled = orders[id].filled + 1,
                                      !.filledOn = today, !.status = status]
<1>2. Live(id) /\ orders[id].filled < orders[id].quantity
  BY DEF Fill, BrokerInv, Outstanding
<1>3. orders[id].filled + 1 \in Quantities
  BY <1>1, <1>2, ZeroQuantity DEF Quantities
<1>4. orders' = [orders EXCEPT ![id] = next]
  BY <1>1 DEF Fill
<1>5. orders[id] \in OrderRecord /\ status \in ActiveStatuses \cup {"filled"}
  BY <1>1, <1>2 DEF Live
<1> HIDE DEF status
<1>6. /\ next \in OrderRecord
      /\ next.status = status /\ next.quantity = orders[id].quantity
      /\ next.filled = orders[id].filled + 1 /\ next.filledOn = today
      /\ next.submitted = orders[id].submitted
  BY <1>1, <1>3, <1>5 DEF OrderRecord
<1> HIDE DEF next
<1>7. orders'[id] = next /\ \A i \in OrderIds : i # id => orders'[i] = orders[i]
  BY <1>1, <1>4
<1>8. GrownOrder(id)
  BY <1>2, <1>6, <1>7 DEF GrownOrder, status
<1> QED BY <1>1, <1>4, <1>6, <1>7, <1>8

\* Every step moves every order in one of these ways.
LEMMA OrderMoves ==
    ASSUME TypeOK, MemoryInv, BrokerInv, KnownInv, BuyInv, [Next]_vars
    PROVE  /\ orders' \in [OrderIds -> OrderRecord]
           /\ \A id \in OrderIds : OrderMove(id)
<1>1. /\ orders \in [OrderIds -> OrderRecord] /\ today \in Days
      /\ \A id \in OrderIds : /\ orders[id].filled \in Quantities
                              /\ orders[id].quantity \in Quantities
  BY DEF TypeOK, OrderRecord
<1>2. CASE UNCHANGED <<orders, position>>
  BY <1>1, <1>2 DEF OrderMove
<1>3. ASSUME NEW id \in OrderIds, Fill(id)
      PROVE  /\ orders' \in [OrderIds -> OrderRecord]
             /\ \A i \in OrderIds : OrderMove(i)
  BY <1>3, FillGrows DEF OrderMove
<1>4. ASSUME NEW id \in OrderIds, NEW status \in {"canceled", "new"},
             orders' = [orders EXCEPT ![id].status = status]
      PROVE  /\ orders' \in [OrderIds -> OrderRecord]
             /\ StatusOnly(id, status)
             /\ \A i \in OrderIds : i # id => orders'[i] = orders[i]
  BY <1>1, <1>4 DEF OrderRecord, StatusOnly, ActiveStatuses
<1>5. ASSUME NEW id \in OrderIds, EndOrder(id) \/ Arrive(id)
      PROVE  /\ orders' \in [OrderIds -> OrderRecord]
             /\ \A i \in OrderIds : OrderMove(i)
  BY <1>4, <1>5 DEF EndOrder, Arrive, OrderMove, InFlight
<1>6. ASSUME NEW ids \in SUBSET OrderIds, orders' = CancelRequested(ids)
      PROVE  /\ orders' \in [OrderIds -> OrderRecord]
             /\ \A i \in OrderIds : OrderMove(i)
  <2>1. ASSUME NEW i \in OrderIds
        PROVE  orders'[i] \in OrderRecord /\ OrderMove(i)
    BY <1>1, <1>6 DEF CancelRequested, OrderMove, StatusOnly, OrderRecord, ActiveStatuses
  <2> QED BY <1>6, <2>1 DEF CancelRequested
<1>7. ASSUME NEW o \in current, NEW status \in {"new", "in_flight"}, Requested(o, status)
      PROVE  /\ orders' \in [OrderIds -> OrderRecord]
             /\ \A i \in OrderIds : OrderMove(i)
  <2> DEFINE next == [status |-> status, quantity |-> o.quantity, filled |-> 0,
                      filledOn |-> today, submitted |-> today]
  <2>1. o.id \in OrderIds /\ o.quantity \in Quantities
    BY CurrentIds, ZeroQuantity DEF Quantities
  <2>2. next \in OrderRecord
    BY <1>1, <2>1, ZeroQuantity DEF OrderRecord, ActiveStatuses
  <2>3. orders' = [orders EXCEPT ![o.id] = next]
    BY <1>7 DEF Requested
  <2>4. orders'[o.id] = next /\ \A i \in OrderIds : i # o.id => orders'[i] = orders[i]
    BY <1>1, <2>1, <2>3
  <2>5. /\ pc = "send" => o.id \in ClientIds /\ ~Sent(o.id)
        /\ pc = "send_stop" => o.id \notin ClientIds
    BY StopParts DEF MemoryInv, KnownInv, Orders, StopOrders
  <2>6. NewOrder(o.id)
    BY <1>7, <2>4, <2>5 DEF NewOrder, Requested, Visible, Sent
  <2> QED BY <1>1, <2>1, <2>2, <2>3, <2>4, <2>6 DEF OrderMove
<1>8. ASSUME NEW s \in rows, NEW id \in seen[s], Replaced(s, id)
      PROVE  /\ orders' \in [OrderIds -> OrderRecord]
             /\ \A i \in OrderIds : OrderMove(i)
  <2>1. s \in Symbols /\ id \in OrderIds
    BY DEF TypeOK
  <2>2. view[s] \in Quantities
    BY <1>8, <2>1, ZeroQuantity DEF TypeOK, BuyInv, MemoryInv, Replaced, Quantities
  <2> DEFINE next == [orders[id] EXCEPT !.quantity = view[s], !.submitted = today]
  <2>3. next \in OrderRecord /\ orders' = [orders EXCEPT ![id] = next]
    BY <1>1, <1>8, <2>1, <2>2 DEF Replaced, OrderRecord
  <2>4. orders'[id] = next /\ \A i \in OrderIds : i # id => orders'[i] = orders[i]
    BY <1>1, <2>1, <2>3
  <2>5. NewQuantity(id)
    BY <1>1, <1>8, <2>1, <2>4 DEF NewQuantity, Replaced, ReplaceableStop, OrderRecord
  <2> QED BY <1>1, <2>1, <2>3, <2>4, <2>5 DEF OrderMove
<1> QED
  BY OrderSplit, <1>2, <1>3, <1>5, <1>6, <1>7, <1>8

\* No order executes more than its quantity, and an order of the operator carries
\* the date it was submitted.
LEMMA BrokerInductive ==
    ASSUME TypeOK, MemoryInv, BrokerInv, KnownInv, BuyInv, [Next]_vars
    PROVE  BrokerInv'
<1> SUFFICES ASSUME NEW id \in OrderIds
             PROVE  (/\ orders[id].filled <= orders[id].quantity
                     /\ orders[id].status \in {"absent", "in_flight"} => orders[id].filled = 0
                     /\ Outstanding(id) => orders[id].filled < orders[id].quantity
                     /\ Sent(id) => orders[id].filledOn \in Days /\ orders[id].submitted \in Days
                     /\ id \in ClientIds /\ Sent(id) => orders[id].submitted = DayOf(id)
                     /\ InFlight(id) => ~NoLate)'
  BY DEF BrokerInv
<1>1. /\ OrderMove(id)
      /\ orders[id] \in OrderRecord /\ orders'[id] \in OrderRecord
      /\ today \in Days
  BY OrderMoves DEF TypeOK, OrderRecord
<1>2. /\ orders[id].filled <= orders[id].quantity
      /\ orders[id].status \in {"absent", "in_flight"} => orders[id].filled = 0
      /\ Outstanding(id) => orders[id].filled < orders[id].quantity
      /\ Sent(id) => orders[id].filledOn \in Days /\ orders[id].submitted \in Days
      /\ id \in ClientIds /\ Sent(id) => orders[id].submitted = DayOf(id)
      /\ InFlight(id) => ~NoLate
  BY DEF BrokerInv
<1>3. /\ orders[id].filled \in Nat /\ orders[id].quantity \in Nat
      /\ orders[id].filled \in Int /\ orders[id].quantity \in Int
  BY <1>1, ZeroQuantity DEF OrderRecord, Quantities
<1> USE DEF Outstanding, Live, InFlight, Sent
<1>4. CASE orders'[id] = orders[id]
  BY <1>2, <1>4
<1>5. CASE GrownOrder(id)
  <2>1. orders[id].filled < orders[id].quantity /\ orders[id].status \in ActiveStatuses
    BY <1>2, <1>5 DEF GrownOrder
  <2>2. Sent(id) /\ orders[id].status \notin {"absent", "in_flight"}
    BY <2>1 DEF ActiveStatuses
  <2>3. CASE orders[id].filled + 1 = orders[id].quantity
    BY <1>1, <1>2, <1>3, <1>5, <2>1, <2>2, <2>3 DEF GrownOrder, ActiveStatuses
  <2>4. CASE orders[id].filled + 1 # orders[id].quantity
    BY <1>1, <1>2, <1>3, <1>5, <2>1, <2>2, <2>4 DEF GrownOrder
  <2> QED BY <2>3, <2>4
<1>6. CASE (Live(id) /\ StatusOnly(id, "canceled")) \/ (Live(id) /\ StatusOnly(id, "pending_cancel"))
           \/ (InFlight(id) /\ StatusOnly(id, "new"))
  BY <1>2, <1>6 DEF StatusOnly, ActiveStatuses
<1>7. CASE NewOrder(id)
  <2>1. PICK o \in current : o.id = id /\ orders'[id].quantity = o.quantity
    BY <1>7 DEF NewOrder
  <2>2. o.quantity \in 1..MaxQuantity /\ o.id[1][1] = today
    BY <2>1 DEF TypeOK, MemoryInv
  <2> QED BY <1>1, <1>7, <2>1, <2>2, ZeroQuantity DEF NewOrder, DayOf, NoLate
<1>8. CASE NewQuantity(id)
  <2>1. PICK s \in rows : id \in seen[s] /\ orders'[id].quantity = view[s]
    BY <1>8 DEF NewQuantity
  <2>2. view[s] \in Int /\ view[s] > 0
    BY <1>8, <2>1 DEF NewQuantity, MemoryInv, TypeOK
  <2>3. id \notin ClientIds /\ orders[id].status = "new"
    BY <1>8, StopParts DEF NewQuantity, ReplaceableStop
  <2> QED BY <1>1, <1>2, <1>8, <2>1, <2>2, <2>3 DEF NewQuantity
<1> QED
  BY <1>1, <1>4, <1>5, <1>6, <1>7, <1>8 DEF OrderMove

-----------------------------------------------------------------------------
\* An order of another quantity is the same order otherwise.
LEMMA Resized ==
    ASSUME NEW o \in Orders, NEW n \in 1..MaxQuantity
    PROVE  /\ [o EXCEPT !.quantity = n] \in Orders
           /\ [o EXCEPT !.quantity = n].id = o.id
           /\ [o EXCEPT !.quantity = n].quantity = n
  BY DEF Orders

\* The exits and entries that a plan asks for are orders of today.
LEMMA PlannedOrders ==
    ASSUME TypeOK, BuyInv
    PROVE  /\ \A s \in Held, risk \in BOOLEAN :
                  ExitOrder(s, risk) \in Orders /\ ExitOrder(s, risk).id[1][1] = today
           /\ \A s \in Symbols, n \in 1..MaxQuantity :
                  EntryOrder(s, n) \in Orders /\ EntryOrder(s, n).id[1][1] = today
<1>1. ASSUME NEW s \in Symbols, NEW side \in Sides
      PROVE  /\ Attempt(<<today, s, side>>, 1) \in ClientIds
             /\ Attempt(<<today, s, side>>, 1)[1][1] = today
  BY DEF TypeOK, Attempt, ClientIds, Keys, MaxExitAttempts
<1>2. \A s \in Held : s \in Symbols /\ view[s] \in 1..MaxQuantity
  BY ZeroQuantity DEF Held, TypeOK, BuyInv
<1> QED
  BY <1>1, <1>2 DEF ExitOrder, EntryOrder, Orders, Sides

\* What a filtered order is replaced by: nothing, itself or its retry.
LEMMA FilteredOrders ==
    ASSUME TypeOK, MemoryInv, BuyInv, NEW o \in planned, Filter(o)
    PROVE  /\ planned' \subseteq planned
           /\ ready' \subseteq Orders
           /\ \A r \in ready' : r \in ready \/ (r.id[1] = o.id[1])
<1>1. CASE DropDuplicate(o) \/ KeepOrder(o)
  BY <1>1 DEF Filter, DropDuplicate, KeepOrder, MemoryInv
<1>2. ASSUME NEW n \in 1..(MaxExitAttempts - 1), PrepareRetry(o, n)
      PROVE  /\ ready' \subseteq Orders
             /\ \A r \in ready' : r \in ready \/ (r.id[1] = o.id[1])
  <2> DEFINE key  == o.id[1]
             next == Attempt(key, n + 1)
             r    == RemoteReport(Attempt(key, n))
             m    == LesserOf(o.quantity, position[SymbolOf(o.id)])
  <2>1. o \in Orders /\ o.id \in ClientIds /\ key \in Keys /\ o.quantity \in 1..MaxQuantity
    BY IdParts DEF MemoryInv, Orders
  <2>2. next \in ClientIds /\ next[1] = key /\ Attempt(key, n) \in OrderIds
    BY <2>1, IdParts DEF MaxExitAttempts
  <2>3. /\ PrepareRiskExitRetry(key, n, m, r)
        /\ ready' = ready \cup {[id |-> next, quantity |-> authorized'[next], risk |-> TRUE]}
        /\ position[SymbolOf(o.id)] > 0
    BY <1>2 DEF PrepareRetry, RetryKnown
  <2>4. m \in 1..MaxQuantity
    <3>1. position[SymbolOf(o.id)] \in Int
      BY <2>1, IdParts DEF TypeOK
    <3> QED BY <2>1, <2>3, <3>1, ZeroQuantity DEF LesserOf
  <2>5. Remaining(r) \in 1..MaxQuantity
    <3>1. r.quantity \in Quantities /\ r.filled \in Quantities
      BY <2>2 DEF RemoteReport, TypeOK
    <3> QED BY <2>3, <3>1, ZeroQuantity DEF PrepareRiskExitRetry, Remaining, Quantities
  <2>6. authorized'[next] \in 1..MaxQuantity
    <3>1. authorized' = [authorized EXCEPT ![next] = Authorized(m, r)]
      BY <2>3 DEF PrepareRiskExitRetry
    <3>2. authorized \in [ClientIds -> Quantities]
      BY DEF TypeOK, JournalTypeOK
    <3>3. Authorized(m, r) \in 1..MaxQuantity
      <4> HIDE DEF m, r
      <4> QED BY <2>4, <2>5 DEF Authorized
    <3> QED BY <2>2, <3>1, <3>2, <3>3
  <2>7. [id |-> next, quantity |-> authorized'[next], risk |-> TRUE] \in Orders
    BY <2>2, <2>6 DEF Orders
  <2> DEFINE retry == [id |-> next, quantity |-> authorized'[next], risk |-> TRUE]
  <2>8. retry \in Orders /\ retry.id[1] = o.id[1] /\ ready' = ready \cup {retry}
    BY <2>2, <2>3, <2>7
  <2> HIDE DEF retry
  <2> QED BY <2>8 DEF MemoryInv
<1> QED
  BY <1>1, <1>2 DEF Filter

\* What the operator remembers stays consistent with the step it is at.
LEMMA MemoryInductive ==
    ASSUME TypeOK, MemoryInv, BuyInv, [Next]_vars
    PROVE  MemoryInv'
<1>1. CASE Still
  <2>1. CASE today' = today
    BY <1>1, <2>1 DEF Still, memoryVars, MemoryInv, IsBuy, IsSell
  <2>2. CASE pc = "idle"
    <3>1. planned = {} /\ ready = {} /\ current = {}
      BY <2>2 DEF MemoryInv, Submitting, Canceling
    <3> QED BY <1>1, <2>2, <3>1 DEF Still, memoryVars, MemoryInv, Canceling
  <2> QED BY Frame, <2>1, <2>2
<1>2. CASE Left
  BY <1>2 DEF Left, ResetMemory, MemoryInv, Canceling
<1>3. CASE ~Still
  <2>1. today' = today
    BY <1>3, Frame DEF NextDay, Still
  <2>2. CASE Refused
    <3>1. pc' = "submit" /\ planned' = {} /\ ready' = ready /\ current' = {}
      BY <2>2 DEF Refused, RefuseEntry, MemoryInv
    <3> QED BY <2>1, <3>1 DEF MemoryInv, Canceling
  <2>3. CASE Plans
    <3>1. CASE \/ \E command \in {"risk", "signal", "protect"} : BeginCycle(command)
               \/ SyncDone
               \/ Reconcile /\ ~Left
      <4>1. /\ planned = {} /\ ready = {} /\ current = {}
            /\ planned' = {} /\ ready' = {} /\ current' = {}
            /\ pc' \in {"sync", "reconcile", "read_positions", "assess"}
        BY <3>1 DEF BeginCycle, SyncDone, Reconcile, Left, Leave, memoryVars, MemoryInv,
                    Submitting, Canceling
      <4> QED BY <4>1 DEF MemoryInv, Canceling
    <3>2. CASE Assess
      <4>1. /\ planned' = {} /\ ready' = {} /\ current' = {} /\ pc' \in {"cancel_buys", "plan"}
        BY <3>2 DEF Assess, MemoryInv, Submitting, Canceling
      <4> QED BY <4>1 DEF MemoryInv, Canceling
    <3>3. CASE (CancelBuys /\ pc' = "await_buys") \/ BuysCanceled
      <4>1. /\ pc \in Canceling /\ pc' \in Canceling
            /\ pc' \in {"await_buys", "halt_sync"}
            /\ UNCHANGED <<planned, ready, current>>
        BY <3>3 DEF CancelBuys, BuysCanceled, Canceling, AbortCancellation, Leave,
                    RefuseEntry, memoryVars
      <4> QED BY <2>1, <4>1 DEF MemoryInv, Canceling, IsBuy
    <3>4. CASE HaltSynced
      <4>1. /\ pc = "halt_sync" /\ current' = {} /\ UNCHANGED <<planned, ready>>
            /\ pc' = IF current = {} THEN "halt_plan" ELSE "submit"
        BY <3>4 DEF HaltSynced
      <4> QED BY <2>1, <4>1 DEF MemoryInv, Canceling
    <3>5. CASE Plan /\ pc' = "filter"
      <4>1. planned' \subseteq Orders /\ \A o \in planned' : o.id[1][1] = today
        <5>1. \A s \in Held : s \in Symbols
          BY DEF Held
        <5>2. CASE PlanHaltExits
          BY <5>2, PlannedOrders DEF PlanHaltExits
        <5>3. CASE PlanRiskExits
          BY <5>3, PlannedOrders DEF PlanRiskExits
        <5>4. CASE PlanOrders
          <6>1. PICK stops \in SUBSET Held, n \in 1..MaxQuantity,
                     sells \in SUBSET Held, buys \in SUBSET Symbols :
                    planned' = {ExitOrder(s, TRUE) : s \in stops}
                                 \cup {ExitOrder(s, FALSE) : s \in sells}
                                 \cup {EntryOrder(s, n) : s \in buys}
            BY <5>4 DEF PlanOrders
          <6> QED BY <6>1, PlannedOrders
        <5> QED BY <3>5, <5>2, <5>3, <5>4 DEF Plan, Leave
      <4>2. ready' = {} /\ current' = {}
        BY <3>5 DEF Plan, Leave, MemoryInv, Submitting, Canceling
      <4> QED BY <2>1, <3>5, <4>1, <4>2 DEF MemoryInv, Canceling
    <3>6. ASSUME NEW o \in planned, Filter(o) PROVE MemoryInv'
      <4>1. /\ planned' \subseteq planned /\ ready' \subseteq Orders
            /\ \A r \in ready' : r \in ready \/ r.id[1] = o.id[1]
        BY <3>6, FilteredOrders
      <4>2. pc = "filter" /\ pc' = "filter" /\ current' = {}
        BY <3>6 DEF Filter, MemoryInv, Submitting, Canceling
      <4> QED BY <2>1, <4>1, <4>2 DEF MemoryInv, Canceling
    <3>7. CASE FilterDone
      <4>1. pc = "filter" /\ pc' = "submit" /\ planned' = {} /\ ready' = ready /\ current' = {}
        BY <3>7 DEF FilterDone, memoryVars, MemoryInv, Submitting, Canceling
      <4> QED BY <2>1, <4>1 DEF MemoryInv, Canceling
    <3>8. ASSUME NEW o \in planned, Overtaking(o) PROVE MemoryInv'
      <4>1. /\ pc = "filter" /\ pc' = pc /\ planned' \subseteq planned
            /\ UNCHANGED <<ready, current>>
        BY <3>8 DEF Overtaking, ArchiveJournal, Resetting
      <4> QED BY <2>1, <4>1 DEF MemoryInv, Canceling
    <3>9. CASE \E o \in planned : Filter(o) \/ Overtaking(o)
      BY <3>6, <3>8, <3>9
    <3> QED BY <2>3, <3>1, <3>2, <3>3, <3>4, <3>5, <3>7, <3>9 DEF Plans
  <2>4. CASE Submits
    <3>1. ASSUME NEW o \in ready, BeginSell(o) \/ BeginBuy(o) PROVE MemoryInv'
      <4>1. /\ pc = "submit" /\ planned' = {} /\ ready' = ready \ {o} /\ current' = {o}
            /\ \/ pc' = "await_sells" /\ IsSell(o)
               \/ pc' = "revalidate" /\ \A r \in ready : IsBuy(r)
        BY <3>1 DEF BeginSell, BeginBuy, MemoryInv, IsBuy, IsSell
      <4> QED BY <2>1, <4>1 DEF MemoryInv, Canceling, Submitting
    <3>2. ASSUME NEW o \in current, SellsCanceled(o) PROVE MemoryInv'
      <4>1. /\ pc = "await_sells" /\ planned' = {} /\ ready' = ready
            /\ \/ pc' = "submit" /\ current' = {}
               \/ pc' = "reserve" /\ position[SymbolOf(o.id)] > 0
                  /\ current' = {[o EXCEPT !.quantity =
                                     LesserOf(o.quantity, position[SymbolOf(o.id)])]}
        <5>1. o \in Orders /\ position[SymbolOf(o.id)] \in Int
          BY <3>2, IdParts DEF SellsCanceled, MemoryInv, TypeOK, Orders
        <5> QED BY <3>2, <5>1 DEF SellsCanceled, MemoryInv
      <4>2. o \in Orders /\ o.quantity \in 1..MaxQuantity /\ position[SymbolOf(o.id)] \in Int
        BY <4>1, IdParts DEF MemoryInv, TypeOK, Orders
      <4>3. position[SymbolOf(o.id)] > 0 =>
                LesserOf(o.quantity, position[SymbolOf(o.id)]) \in 1..MaxQuantity
        BY <4>2, ZeroQuantity DEF LesserOf
      <4>4. CASE current' = {}
        BY <2>1, <4>1, <4>4 DEF MemoryInv, Canceling
      <4>5. CASE pc' = "reserve" /\ position[SymbolOf(o.id)] > 0
        <5> DEFINE p == [o EXCEPT !.quantity = LesserOf(o.quantity, position[SymbolOf(o.id)])]
        <5>1. p \in Orders /\ p.id = o.id /\ current' = {p}
          BY <4>1, <4>2, <4>3, <4>5, Resized
        <5> HIDE DEF p
        <5> QED BY <2>1, <4>1, <4>5, <5>1 DEF MemoryInv, Canceling, Submitting
      <4> QED BY <4>1, <4>4, <4>5
    <3>3. ASSUME NEW o \in current, Revalidate(o), ~Refused PROVE MemoryInv'
      <4>1. /\ pc = "revalidate" /\ planned' = {} /\ ready' = ready
            /\ \/ pc' = "cancel_buys" /\ current' = current
               \/ /\ pc' = "buy_control"
                  /\ \E n \in 1..o.quantity : current' = {[o EXCEPT !.quantity = n]}
        BY <3>3 DEF Revalidate, Refused, MemoryInv
      <4>2. o \in Orders /\ o.quantity \in 1..MaxQuantity /\ \A r \in current \cup ready : IsBuy(r)
        BY <4>1 DEF MemoryInv, Orders
      <4>3. \A n \in 1..o.quantity : n \in 1..MaxQuantity
        BY <4>2, ZeroQuantity
      <4>4. CASE pc' = "cancel_buys" /\ current' = current
        BY <2>1, <3>3, <4>1, <4>2, <4>4 DEF MemoryInv, Canceling, Submitting, IsBuy
      <4>5. CASE pc' = "buy_control" /\ \E n \in 1..o.quantity : current' = {[o EXCEPT !.quantity = n]}
        <5>1. PICK n \in 1..o.quantity : current' = {[o EXCEPT !.quantity = n]}
          BY <4>5
        <5> DEFINE p == [o EXCEPT !.quantity = n]
        <5>2. p \in Orders /\ p.id = o.id /\ current' = {p}
          BY <4>2, <4>3, <5>1, Resized
        <5> HIDE DEF p
        <5> QED BY <2>1, <4>1, <4>2, <4>5, <5>2 DEF MemoryInv, Canceling, Submitting, IsBuy
      <4> QED BY <4>1, <4>4, <4>5
    <3>4. CASE \/ \E o \in current : \/ Reserve(o) /\ pc' = "lookup"
                                     \/ Lookup(o) /\ ~Left
                                     \/ Send(o) /\ pc' = "record"
               \/ BuyControl /\ pc' = "reserve"
      <4>1. /\ pc \in {"buy_control", "reserve", "lookup", "send"}
            /\ pc' \in {"reserve", "lookup", "send", "record"}
            /\ UNCHANGED <<planned, ready, current>>
        BY <3>4 DEF Reserve, Lookup, Send, BuyControl, Left, Leave, RefuseEntry, SendAccepted,
                    SendUnanswered, SendLost, SendDelayed, memoryVars
      <4> QED BY <2>1, <4>1 DEF MemoryInv, Canceling, Submitting
    <3>5. ASSUME NEW o \in current, RecordSubmission(o) PROVE MemoryInv'
      <4>1. pc = "record" /\ pc' = "submit" /\ current' = {} /\ planned' = {} /\ ready' = ready
        BY <3>5 DEF RecordSubmission, MemoryInv
      <4> QED BY <2>1, <4>1 DEF MemoryInv, Canceling
    <3> QED BY <2>4, <3>1, <3>2, <3>3, <3>4, <3>5 DEF Submits
  <2>5. CASE Protects
    <3>1. planned = {} /\ ready = {} /\ (pc # "send_stop" => current = {})
      BY <2>5 DEF Protects, ReadPositions, ReadOpenOrders, ChooseStop, KeepStop, ReplaceStop,
                  SendStop, MemoryInv, Submitting, Canceling
    <3>2. CASE ReadPositions
      BY <3>1, <3>2 DEF ReadPositions, MemoryInv, Canceling
    <3>3. CASE ReadOpenOrders
      <4>1. /\ pc = "read_orders" /\ pc' = "protect"
            /\ UNCHANGED <<view, planned, ready, current>>
            /\ \A s \in rows' : /\ s \in Symbols /\ view[s] > 0
                                /\ \A id \in seen'[s] : ReplaceableStop(id)
                                /\ seen'[s] \subseteq OpenSells(s)
        BY <3>3 DEF ReadOpenOrders, Listing, TypeOK
      <4>2. \A s \in rows' : \A id \in seen'[s] : id \in StopIds /\ SymbolOf(id) = s
        BY <4>1 DEF ReplaceableStop, OpenSells, OpenOrders
      <4> QED BY <3>1, <4>1, <4>2 DEF MemoryInv, Canceling
    <3>4. ASSUME NEW s \in rows, NEW id \in seen[s], KeepStop(s, id) \/ ReplaceStop(s, id), ~Left
          PROVE  MemoryInv'
      <4>1. /\ pc = "protect" /\ pc' = "protect" /\ rows' \subseteq rows
            /\ UNCHANGED <<view, seen, planned, ready, current>>
        BY <3>4 DEF KeepStop, ReplaceStop, Visited, Left, Leave
      <4> QED BY <3>1, <4>1 DEF MemoryInv, Canceling
    <3>5. ASSUME NEW s \in rows, ChooseStop(s), ~Left PROVE MemoryInv'
      <4>1. /\ pc = "protect" /\ rows' \subseteq rows /\ UNCHANGED <<view, seen, planned, ready>>
            /\ \/ pc' = "protect" /\ current' = current
               \/ /\ pc' = "send_stop"
                  /\ \E n \in 1..MaxStopAttempts :
                         current' = {[id |-> StopId(s, n), quantity |-> view[s], risk |-> TRUE]}
        BY <3>5 DEF ChooseStop, Visited, Left, Leave
      <4>2. CASE pc' = "protect" /\ current' = current
        BY <3>1, <4>1, <4>2 DEF MemoryInv, Canceling
      <4>3. ASSUME NEW n \in 1..MaxStopAttempts, pc' = "send_stop",
                   current' = {[id |-> StopId(s, n), quantity |-> view[s], risk |-> TRUE]}
            PROVE  MemoryInv'
        <5> DEFINE o == [id |-> StopId(s, n), quantity |-> view[s], risk |-> TRUE]
        <5>1. s \in Symbols /\ view[s] \in 1..MaxQuantity /\ today \in Days
          BY <4>1, ZeroQuantity DEF TypeOK, MemoryInv, BuyInv
        <5>2. o \in StopOrders /\ o.id[1][1] = today
          BY <5>1 DEF StopOrders, StopId, StopIds
        <5>3. current' = {o}
          BY <4>3
        <5> HIDE DEF o
        <5> QED BY <2>1, <3>1, <4>1, <4>3, <5>2, <5>3 DEF MemoryInv, Canceling
      <4> QED BY <4>1, <4>2, <4>3
    <3>6. ASSUME NEW o \in current, SendStop(o), pc' = "protect" PROVE MemoryInv'
      <4>1. /\ pc = "send_stop" /\ rows' \subseteq rows /\ current' = {}
            /\ UNCHANGED <<view, seen, planned, ready>>
        BY <3>6 DEF SendStop, SendUnanswered, SendLost, SendDelayed, Leave
      <4> QED BY <3>1, <3>6, <4>1 DEF MemoryInv, Canceling
    <3> QED BY <2>5, <3>2, <3>4, <3>5, <3>6, <3>3 DEF Protects
  <2> QED BY <1>2, <1>3, StepSplit, <2>2, <2>3, <2>4, <2>5
<1> QED
  BY <1>1, <1>3

-----------------------------------------------------------------------------
\* What the broker would report now.
ReportsNow == {RemoteReport(id) : id \in {i \in OrderIds : Visible(i)}}

\* A report of a visible order is a report the journal may be given.
LEMMA ReportType ==
    ASSUME TypeOK, BrokerInv, NEW id \in OrderIds, Visible(id)
    PROVE  RemoteReport(id) \in ReportsNow /\ RemoteReport(id) \in Reports
<1>1. /\ orders[id].status \in RemoteStatuses
      /\ orders[id].quantity \in Quantities /\ orders[id].filled \in Quantities
  BY DEF TypeOK, Visible, RemoteStatuses, TerminalStatuses, RetryableStatuses
<1>2. orders[id].filledOn \in Days /\ orders[id].submitted \in Days
  BY DEF BrokerInv, Visible, Sent
<1> QED BY <1>1, <1>2 DEF RemoteReport, Reports, ReportsNow

\* The orders in work, resized or not, are orders the journal may be given.
LEMMA InWorkOrders ==
    ASSUME TypeOK, MemoryInv
    PROVE  /\ InWork \subseteq Orders
           /\ \A o \in planned \cup current, n \in 1..MaxQuantity :
                  o.id \in ClientIds =>
                      /\ o \in Orders
                      /\ [o EXCEPT !.quantity = n] \in InWork
<1>1. \A o \in planned \cup current : o.id \in ClientIds => o \in Orders
  BY StopParts DEF MemoryInv, StopOrders
<1> QED
  BY <1>1, Resized DEF InWork

\* A step changes the journal as one of its methods does, or not at all.
JournalMove ==
    \/ UNCHANGED journalVars
    \/ JournalStep(InWork, ReportsNow)
    \/ \E s \in Symbols, id \in StopIds : MarkProtectiveOrder(s, id)

\* The steps that touch the journal.
LEMMA JournalSplit ==
    ASSUME [Next]_vars
    PROVE  \/ UNCHANGED journalVars
           \/ \E id \in OrderIds : SyncOrder(id) \/ FinishOrder(id) \/ CrashBetweenWrites(id)
           \/ ArchiveJournal
           \/ Assess
           \/ \E o \in planned : Filter(o)
           \/ \E o \in current : \/ SellsCanceled(o) \/ Revalidate(o) \/ Reserve(o)
                                 \/ RecordSubmission(o) \/ SendStop(o)
           \/ \E s \in rows : \/ ChooseStop(s)
                              \/ \E id \in seen[s] : KeepStop(s, id) \/ ReplaceStop(s, id)
<1>1. CASE UNCHANGED vars
  BY <1>1 DEF vars
<1>2. CASE Environment
  BY <1>2 DEF Environment, Broker, Fill, EndOrder, Arrive, NextDay, SetPaused, Crash,
              ResetState, ResetReadsPositions, ResetReadsOrders
<1>3. CASE Submission \/ Protection
  BY <1>3 DEF Submission, Protection, BeginSell, BeginBuy, SellsUnconfirmed, Lookup, Send,
              BuyControl, CycleDone, ReadPositions, ReadOpenOrders, ProtectDone
<1>4. CASE Operator /\ ~(Submission \/ Protection)
  BY <1>4 DEF Operator, BeginCycle, SyncDone, Reconcile, CancelBuys, BuysCanceled,
              BuysUnconfirmed, HaltSynced, Plan, FilterDone
<1> QED
  BY <1>1, <1>2, <1>3, <1>4 DEF Next

\* Recording the response of a submission is a synchronization of its report, or
\* the recording of an order that an archived journal knew.
LEMMA RecordIsSync ==
    ASSUME TypeOK, MemoryInv, BrokerInv, KnownInv, CapInv,
           NEW o \in current, RecordSubmission(o)
    PROVE  /\ RemoteReport(o.id) \in ReportsNow
           /\ \/ SyncBrokerOrder(RemoteReport(o.id), TRUE)
              \/ RecordBrokerOrder(RemoteReport(o.id))
<1> DEFINE r == RemoteReport(o.id)
<1>1. o \in Orders /\ o.id \in ClientIds /\ Visible(o.id)
  BY DEF RecordSubmission, MemoryInv, KnownInv, Orders
<1>2. o.id \in OrderIds /\ o.id[1] \in Keys /\ SideOf(o.id) = o.id[1][3] /\ DayOf(o.id) = o.id[1][1]
  BY <1>1, IdParts
<1>3. o.id \notin StopIds
  BY <1>1, StopParts
<1>4. r.submitted = DayOf(o.id) /\ r.id = o.id
  BY <1>1, <1>2 DEF BrokerInv, RemoteReport, Visible, Sent
<1>5. DatedKey(r.submitted, o.id) = o.id[1]
  BY <1>1, <1>2, <1>4 DEF DatedKey, SymbolOf, Keys
<1>6. Reserved(o.id) => o.id[1] \in submittedKeys
  BY <1>1 DEF CapInv, IntentsHaveKeys
<1>7. Reserved(o.id) => SyncedKeys(r) = RecordedKeys(r)
  BY <1>4, <1>5, <1>6 DEF SyncedKeys, RecordedKeys
<1>8. /\ r.filled >= cursor[r.id]
      /\ cursor' = [cursor EXCEPT ![r.id] = r.filled]
      /\ submittedKeys' = RecordedKeys(r)
      /\ intents' = WithStatus(r.id, r.status)
      /\ UNCHANGED <<authorized, protective, halted>>
  BY <1>4 DEF RecordSubmission, Polled
<1> QED
  <2>1. r \in ReportsNow
    BY <1>1, <1>2 DEF ReportsNow
  <2> HIDE DEF r
  <2>2. CASE Reserved(o.id)
    BY <1>3, <1>4, <1>7, <1>8, <2>1, <2>2 DEF SyncBrokerOrder, TrackedStops, r
  <2>3. CASE ~Reserved(o.id)
    BY <1>4, <1>8, <2>1, <2>3 DEF RecordBrokerOrder, WithStatus, r
  <2> QED BY <2>2, <2>3

\* Every step moves the journal as a method of it does; no step writes both the
\* journal's intents and the broker's orders.
LEMMA JournalMoves ==
    ASSUME TypeOK, MemoryInv, BrokerInv, KnownInv, CapInv, [Next]_vars
    PROVE  /\ JournalMove
           /\ \/ UNCHANGED orders
              \/ UNCHANGED <<submittedKeys, intents, authorized, cursor, halted>>
<1>1. CASE UNCHANGED journalVars
  BY <1>1 DEF JournalMove, journalVars
<1>2. ASSUME NEW id \in OrderIds, SyncOrder(id) \/ FinishOrder(id)
      PROVE  JournalStep(InWork, ReportsNow) /\ UNCHANGED orders
  <2>1. RemoteReport(id) \in ReportsNow
    BY <1>2 DEF SyncOrder, FinishOrder, ReportsNow
  <2> QED BY <1>2, <2>1 DEF SyncOrder, FinishOrder, JournalStep, brokerVars
<1>3. ASSUME NEW id \in OrderIds, CrashBetweenWrites(id)
      PROVE  JournalStep(InWork, ReportsNow) /\ UNCHANGED orders
  <2>1. RemoteReport(id) \in ReportsNow
    BY <1>3 DEF CrashBetweenWrites, ReportsNow
  <2> QED BY <1>3, <2>1 DEF CrashBetweenWrites, JournalStep, brokerVars
<1>4. CASE ArchiveJournal
  BY <1>4 DEF ArchiveJournal, Resetting, JournalStep, JournalMove, brokerVars
<1>5. CASE Assess
  BY <1>5 DEF Assess, JournalStep, JournalMove, brokerVars
<1>6. ASSUME NEW o \in planned, Filter(o)
      PROVE  JournalMove /\ UNCHANGED orders
  <2>1. CASE DropDuplicate(o) \/ KeepOrder(o)
    BY <1>6, <2>1 DEF Filter, DropDuplicate, KeepOrder, JournalMove, brokerVars
  <2>2. ASSUME NEW n \in 1..(MaxExitAttempts - 1), PrepareRetry(o, n)
        PROVE  JournalStep(InWork, ReportsNow)
    <3> DEFINE m == LesserOf(o.quantity, position[SymbolOf(o.id)])
               p == [o EXCEPT !.quantity = m]
               r == RemoteReport(Attempt(o.id[1], n))
    <3>1. o \in Orders /\ o.id \in ClientIds /\ o.id[1] \in Keys /\ o.quantity \in 1..MaxQuantity
      BY IdParts DEF MemoryInv, Orders
    <3>2. n \in 1..MaxExitAttempts /\ Attempt(o.id[1], n) \in OrderIds
      BY <3>1, IdParts DEF MaxExitAttempts
    <3>3. PrepareRiskExitRetry(o.id[1], n, m, r) /\ Visible(Attempt(o.id[1], n))
          /\ position[SymbolOf(o.id)] > 0
      BY <2>2 DEF PrepareRetry, RetryKnown
    <3>4. m \in 1..MaxQuantity
      <4>1. position[SymbolOf(o.id)] \in Int
        BY <3>1, IdParts DEF TypeOK
      <4> QED BY <3>1, <3>3, <4>1, ZeroQuantity DEF LesserOf
    <3>5. r \in ReportsNow
      BY <3>2, <3>3 DEF ReportsNow
    <3>6. p \in InWork /\ p.id = o.id /\ p.quantity = m
      BY <3>1, <3>4, InWorkOrders, Resized
    <3> HIDE DEF m, p, r
    <3> QED BY <3>2, <3>3, <3>5, <3>6 DEF JournalStep
  <2> QED BY <1>6, <2>1, <2>2 DEF Filter, JournalMove, brokerVars
<1>7. ASSUME NEW o \in current, SellsCanceled(o)
      PROVE  JournalStep(InWork, ReportsNow) /\ UNCHANGED orders
  <2>1. SymbolOf(o.id) \in Symbols
    BY <1>7, CurrentIds, IdParts
  <2> QED BY <1>7, <2>1 DEF SellsCanceled, JournalStep, brokerVars
<1>8. ASSUME NEW o \in current, Revalidate(o)
      PROVE  JournalMove /\ UNCHANGED orders
  BY <1>8 DEF Revalidate, JournalStep, JournalMove, brokerVars
<1>9. ASSUME NEW o \in current, Reserve(o)
      PROVE  JournalMove /\ UNCHANGED orders
  <2>1. CASE UNCHANGED journalVars
    BY <1>9, <2>1 DEF Reserve, JournalMove, brokerVars
  <2>2. CASE ReserveOrder(o)
    <3>1. o \in InWork
      <4>1. o \in Orders
        BY <1>9 DEF Reserve, MemoryInv
      <4>2. o = [o EXCEPT !.quantity = o.quantity] /\ o.quantity \in 1..MaxQuantity /\ o.id \in ClientIds
        BY <4>1 DEF Orders
      <4> QED BY <4>2, InWorkOrders
    <3> QED BY <1>9, <2>2, <3>1 DEF JournalStep, JournalMove, Reserve, brokerVars
  <2> QED BY <1>9, <2>1, <2>2 DEF Reserve
<1>10. ASSUME NEW o \in current, RecordSubmission(o)
       PROVE  JournalStep(InWork, ReportsNow) /\ UNCHANGED orders
  BY <1>10, RecordIsSync DEF JournalStep, RecordSubmission, brokerVars
<1>11. ASSUME NEW o \in current, SendStop(o)
       PROVE  JournalMove /\ UNCHANGED <<submittedKeys, intents, authorized, cursor, halted>>
  <2>1. o.id \in StopIds /\ SymbolOf(o.id) \in Symbols
    BY <1>11, StopParts DEF SendStop, MemoryInv, StopOrders
  <2> QED BY <1>11, <2>1 DEF SendStop, MarkProtectiveOrder, JournalMove, journalVars
<1>12. ASSUME NEW s \in rows, ChooseStop(s)
       PROVE  JournalMove /\ UNCHANGED <<submittedKeys, intents, authorized, cursor, halted>>
  <2>1. \A n \in 1..MaxStopAttempts : StopId(s, n) \in StopIds
    BY DEF TypeOK, StopId, StopIds
  <2> QED BY <1>12, <2>1 DEF ChooseStop, MarkProtectiveOrder, JournalMove, journalVars, TypeOK
<1>13. ASSUME NEW s \in rows, NEW id \in seen[s], KeepStop(s, id) \/ ReplaceStop(s, id)
       PROVE  JournalMove /\ UNCHANGED <<submittedKeys, intents, authorized, cursor, halted>>
  <2>1. s \in Symbols /\ id \in StopIds
    BY <1>13 DEF KeepStop, ReplaceStop, MemoryInv, TypeOK
  <2> QED BY <1>13, <2>1 DEF KeepStop, ReplaceStop, MarkProtectiveOrder, JournalMove,
                             journalVars
<1>14. JournalStep(InWork, ReportsNow) => JournalMove
  BY DEF JournalMove
<1> QED
  BY JournalSplit, <1>1, <1>2, <1>3, <1>4, <1>5, <1>6, <1>7, <1>8, <1>9, <1>10, <1>11, <1>12,
     <1>13, <1>14

\* The steps of the operator are steps of the journal.
LEMMA JournalImplemented ==
    ASSUME TypeOK, MemoryInv, BrokerInv, KnownInv, CapInv, [Next]_vars
    PROVE  [JournalNext]_journalVars
<1>1. JournalMove
  BY JournalMoves
<1>2. CASE UNCHANGED journalVars
  BY <1>2
<1>3. CASE JournalStep(InWork, ReportsNow)
  <2>1. InWork \subseteq Orders
    BY InWorkOrders
  <2>2. ReportsNow \subseteq Reports
    BY ReportType DEF ReportsNow
  <2> QED BY <1>3, <2>1, <2>2 DEF JournalStep, JournalNext
<1>4. ASSUME NEW s \in Symbols, NEW id \in StopIds, MarkProtectiveOrder(s, id)
      PROVE  JournalNext
  <2> DEFINE r == [id |-> id, status |-> "new", quantity |-> 0, filled |-> 0,
                   filledOn |-> today, submitted |-> today]
  <2>1. r \in Reports /\ r.id = id
    BY StopParts, ZeroQuantity DEF Reports, RemoteStatuses, ActiveStatuses, TypeOK
  <2> HIDE DEF r
  <2> QED BY <1>4, <2>1 DEF JournalNext, JournalStep
<1> QED BY <1>1, <1>2, <1>3, <1>4 DEF JournalMove

\* Only archiving the journal forgets an intent.
LEMMA IntentsStay ==
    ASSUME TypeOK, MemoryInv, KnownInv, [Next]_vars
    PROVE  \/ ArchiveJournal
           \/ \A c \in ClientIds : Reserved(c) =>
                  Reserved(c)' /\ intents'[c].quantity = intents[c].quantity
<1> DEFINE Stay == \A c \in ClientIds : Reserved(c) =>
                       Reserved(c)' /\ intents'[c].quantity = intents[c].quantity
<1>1. JournalTypeOK
  BY DEF TypeOK
<1>2. ASSUME UNCHANGED intents PROVE Stay
  BY <1>2 DEF Reserved
<1>3. ASSUME NEW id \in OrderIds, NEW status \in RemoteStatuses,
             intents' = WithStatus(id, status)
      PROVE  Stay
  BY <1>1, <1>3, StatusKeepsIntents DEF Reserved
<1>4. \A id \in OrderIds : Visible(id) => orders[id].status \in RemoteStatuses
  BY DEF TypeOK, Visible, RemoteStatuses, TerminalStatuses, RetryableStatuses
<1>5. ASSUME NEW id \in OrderIds, SyncOrder(id) \/ FinishOrder(id) \/ CrashBetweenWrites(id)
      PROVE  Stay
  <2>1. CASE SyncOrder(id) \/ FinishOrder(id)
    <3>1. intents' = WithStatus(id, orders[id].status)
      BY <2>1 DEF SyncOrder, SyncBrokerOrder, FinishOrder, FinishSync, RemoteReport
    <3> QED BY <2>1, <3>1, <1>3, <1>4 DEF SyncOrder, FinishOrder
  <2>2. CASE CrashBetweenWrites(id)
    BY <1>2, <2>2 DEF CrashBetweenWrites, InterruptedSync
  <2> QED BY <1>5, <2>1, <2>2
<1>6. CASE Assess
  BY <1>2, <1>6 DEF Assess, LatchHalt, journalVars
<1>7. ASSUME NEW o \in planned, Filter(o) PROVE Stay
  <2>1. CASE DropDuplicate(o) \/ KeepOrder(o)
    BY <1>2, <1>7, <2>1 DEF DropDuplicate, KeepOrder, journalVars
  <2>2. ASSUME NEW n \in 1..(MaxExitAttempts - 1), PrepareRetry(o, n) PROVE Stay
    <3> DEFINE r == RemoteReport(Attempt(o.id[1], n))
    <3>1. /\ intents' = [intents EXCEPT ![r.id].status = r.status]
          /\ r.status \in RetryableStatuses
      BY <2>2 DEF PrepareRetry, PrepareRiskExitRetry
    <3> HIDE DEF r
    <3> QED BY <1>1, <3>1 DEF Reserved, JournalTypeOK, RetryableStatuses
  <2> QED BY <1>7, <2>1, <2>2 DEF Filter
<1>8. ASSUME NEW o \in current, SellsCanceled(o) \/ Revalidate(o) \/ SendStop(o) PROVE Stay
  BY <1>2, <1>8 DEF SellsCanceled, ClearProtectiveOrder, Revalidate, LatchHalt, SendStop,
                    MarkProtectiveOrder, journalVars
<1>9. ASSUME NEW o \in current, Reserve(o) PROVE Stay
  <2>1. CASE UNCHANGED journalVars
    BY <1>2, <2>1 DEF journalVars
  <2>2. CASE ReserveOrder(o)
    <3>1. o.id \in ClientIds /\ ~Reserved(o.id)
      BY <1>9, <2>2 DEF Reserve, ReserveOrder, MayReserve, MemoryInv, Orders
    <3> QED BY <1>1, <2>2, <3>1 DEF ReserveOrder, Reserved, JournalTypeOK
  <2> QED BY <1>9, <2>1, <2>2 DEF Reserve
<1>10. ASSUME NEW o \in current, RecordSubmission(o) PROVE Stay
  <2>1. o.id \in OrderIds /\ intents' = WithStatus(o.id, orders[o.id].status)
    BY <1>10, CurrentIds DEF RecordSubmission, Polled, RemoteReport
  <2>2. orders[o.id].status \in RemoteStatuses
    BY <1>4, <1>10, <2>1 DEF RecordSubmission, KnownInv
  <2> QED BY <1>3, <2>1, <2>2
<1>11. ASSUME NEW s \in rows,
              ChooseStop(s) \/ \E id \in seen[s] : KeepStop(s, id) \/ ReplaceStop(s, id)
       PROVE  Stay
  BY <1>2, <1>11 DEF ChooseStop, KeepStop, ReplaceStop, MarkProtectiveOrder, journalVars
<1>12. CASE UNCHANGED journalVars
  BY <1>2, <1>12 DEF journalVars
<1> QED
  BY JournalSplit, <1>5, <1>6, <1>7, <1>8, <1>9, <1>10, <1>11, <1>12

-----------------------------------------------------------------------------
\* The journal believes no more than the broker did.
LEMMA TrailsInductive ==
    ASSUME TypeOK, MemoryInv, BrokerInv, KnownInv, BuyInv, CapInv, JournalTrailsBroker,
           [Next]_vars
    PROVE  JournalTrailsBroker'
<1> SUFFICES ASSUME NEW id \in OrderIds
             PROVE  /\ cursor'[id] <= orders'[id].filled
                    /\ Tracked(id)' /\ intents'[id].status \in TerminalStatuses =>
                           orders'[id].status = intents'[id].status
  BY DEF JournalTrailsBroker
<1>1. /\ cursor[id] \in Int /\ orders[id].filled \in Int
      /\ cursor \in [OrderIds -> Quantities]
      /\ intents \in [ClientIds -> [status : IntentStatuses, quantity : Quantities]]
  BY ZeroQuantity DEF TypeOK, JournalTypeOK, Quantities
<1>2. /\ cursor[id] <= orders[id].filled
      /\ Tracked(id) /\ intents[id].status \in TerminalStatuses =>
             orders[id].status = intents[id].status
  BY DEF JournalTrailsBroker
<1>3. CASE UNCHANGED <<submittedKeys, intents, authorized, cursor, halted>>
  <2>1. OrderMove(id)
    BY OrderMoves
  <2>2. orders[id].status \in {"absent", "in_flight"} => orders[id].filled = 0
    BY DEF BrokerInv
  <2>3. Tracked(id)' <=> Tracked(id)
    BY <1>3 DEF Tracked, Reserved
  <2> USE DEF Live, InFlight, Visible, TerminalStatuses, RetryableStatuses, ActiveStatuses
  <2>4. CASE orders'[id] = orders[id]
    BY <1>2, <1>3, <2>3, <2>4
  <2>5. CASE GrownOrder(id)
    BY <1>1, <1>2, <1>3, <2>3, <2>5 DEF GrownOrder
  <2>6. CASE \/ (Live(id) /\ StatusOnly(id, "canceled"))
             \/ (Live(id) /\ StatusOnly(id, "pending_cancel"))
             \/ (InFlight(id) /\ StatusOnly(id, "new"))
    BY <1>2, <1>3, <2>3, <2>6 DEF StatusOnly
  <2>7. CASE NewOrder(id)
    BY <1>2, <1>3, <2>2, <2>3, <2>7 DEF NewOrder
  <2>8. CASE NewQuantity(id)
    BY <1>2, <1>3, <2>3, <2>8 DEF NewQuantity, ReplaceableStop
  <2> QED BY <2>1, <2>4, <2>5, <2>6, <2>7, <2>8 DEF OrderMove
<1>4. CASE UNCHANGED orders /\ JournalMove
  <2>1. CASE UNCHANGED <<intents, cursor>>
    BY <1>2, <1>4, <2>1 DEF Tracked, Reserved
  <2>2. ASSUME NEW r \in ReportsNow, cursor' = [cursor EXCEPT ![r.id] = r.filled]
        PROVE  cursor'[id] <= orders'[id].filled
    BY <1>1, <1>2, <1>4, <2>2 DEF ReportsNow, RemoteReport
  <2>3. ASSUME NEW r \in ReportsNow, intents' = WithStatus(r.id, r.status)
        PROVE  Tracked(id)' /\ intents'[id].status \in TerminalStatuses =>
                   orders'[id].status = intents'[id].status
    <3>1. r.status = orders[r.id].status
      BY DEF ReportsNow, RemoteReport
    <3>2. CASE r.id \in ClientIds /\ Reserved(r.id)
      BY <1>1, <1>2, <1>4, <2>3, <3>1, <3>2 DEF WithStatus, Tracked, Reserved
    <3>3. CASE ~(r.id \in ClientIds /\ Reserved(r.id))
      BY <1>2, <1>4, <2>3, <3>3 DEF WithStatus, Tracked, Reserved
    <3> QED BY <3>2, <3>3
  <2>4. CASE \E o \in InWork : ReserveOrder(o)
    <3>1. PICK o \in InWork : ReserveOrder(o)
      BY <2>4
    <3>2. cursor' = cursor
          /\ intents' = [intents EXCEPT ![o.id] = [status |-> "reserved", quantity |-> o.quantity]]
      BY <3>1 DEF ReserveOrder
    <3> QED BY <1>1, <1>2, <1>4, <3>2 DEF Tracked, Reserved, TerminalStatuses, RetryableStatuses
  <2>5. CASE \E r \in ReportsNow : RecordBrokerOrder(r) \/ InterruptedSync(r)
    BY <1>2, <1>4, <2>2, <2>5 DEF RecordBrokerOrder, InterruptedSync, Tracked, Reserved
  <2>6. CASE \E r \in ReportsNow : UpdateOrderStatus(r.id, r.status)
    BY <1>2, <1>4, <2>3, <2>6 DEF UpdateOrderStatus
  <2>7. ASSUME NEW o \in InWork, NEW n \in 1..MaxExitAttempts, NEW r \in ReportsNow,
               PrepareRiskExitRetry(o.id[1], n, o.quantity, r)
        PROVE  /\ cursor'[id] <= orders'[id].filled
               /\ Tracked(id)' /\ intents'[id].status \in TerminalStatuses =>
                      orders'[id].status = intents'[id].status
    <3>1. r.status = orders[r.id].status
      BY DEF ReportsNow, RemoteReport
    <3>2. /\ intents' = [intents EXCEPT ![r.id].status = r.status]
          /\ cursor' = [cursor EXCEPT ![r.id] = r.filled]
          /\ r.id = Attempt(o.id[1], n) /\ Reserved(Attempt(o.id[1], n))
      BY <2>7 DEF PrepareRiskExitRetry, IsLatestAttempt
    <3>3. Tracked(id)' /\ intents'[id].status \in TerminalStatuses =>
              orders'[id].status = intents'[id].status
      BY <1>1, <1>2, <1>4, <3>1, <3>2 DEF Tracked, Reserved
    <3> QED BY <2>2, <3>2, <3>3
  <2>8. CASE \E r \in ReportsNow, active \in BOOLEAN : SyncBrokerOrder(r, active)
    <3>1. PICK r \in ReportsNow, active \in BOOLEAN : SyncBrokerOrder(r, active)
      BY <2>8
    <3>2. cursor' = [cursor EXCEPT ![r.id] = r.filled] /\ intents' = WithStatus(r.id, r.status)
      BY <3>1 DEF SyncBrokerOrder
    <3> QED BY <2>2, <2>3, <3>2
  <2>9. CASE \E r \in ReportsNow, active \in BOOLEAN : FinishSync(r, active)
    BY <1>2, <1>4, <2>3, <2>9 DEF FinishSync
  <2>10. CASE ResetForAccount \/ InterruptedReset
    <3>1. cursor'[id] = 0
      BY <2>10 DEF ResetForAccount, InterruptedReset
    <3>2. 0 <= orders[id].filled
      BY ZeroQuantity DEF TypeOK, Quantities
    <3>3. Tracked(id)' /\ intents'[id].status \in TerminalStatuses =>
              orders'[id].status = intents'[id].status
      <4>1. CASE ResetForAccount
        BY <4>1 DEF ResetForAccount, Tracked, Reserved, NoIntent
      <4>2. CASE InterruptedReset
        BY <1>2, <1>4, <4>2 DEF InterruptedReset, Tracked, Reserved
      <4> QED BY <2>10, <4>1, <4>2
    <3> QED BY <1>4, <3>1, <3>2, <3>3
  <2>11. CASE \/ \E s \in Symbols, r \in ReportsNow : r.id \in StopIds /\ MarkProtectiveOrder(s, r.id)
              \/ \E s \in Symbols, i \in StopIds : MarkProtectiveOrder(s, i)
              \/ \E s \in Symbols : ClearProtectiveOrder(s)
              \/ LatchHalt
              \/ UNCHANGED journalVars
    BY <2>1, <2>11 DEF MarkProtectiveOrder, ClearProtectiveOrder, LatchHalt, journalVars
  <2> QED BY <1>4, <2>4, <2>5, <2>6, <2>7, <2>8, <2>10, <2>11, <2>9
         DEF JournalMove, JournalStep
<1> QED
  BY <1>3, <1>4, JournalMoves

-----------------------------------------------------------------------------
\* What is live or on its way after a step was so before it, or is being sent.
LEMMA OutstandingBefore ==
    ASSUME NEW id \in OrderIds, OrderMove(id), Outstanding(id)'
    PROVE  Outstanding(id) \/ NewOrder(id)
  BY DEF OrderMove, Outstanding, Live, InFlight, GrownOrder, StatusOnly, NewQuantity,
         ReplaceableStop, ActiveStatuses

\* The broker forgets no order.
LEMMA VisibleStays ==
    ASSUME NEW id \in OrderIds, OrderMove(id), Visible(id)
    PROVE  Visible(id)'
  BY DEF OrderMove, Visible, InFlight, Live, GrownOrder, StatusOnly, NewOrder, NewQuantity,
         ActiveStatuses

\* Only a request brings an order to the broker or to the network.
LEMMA AbsentStays ==
    ASSUME NEW id \in OrderIds, OrderMove(id), ~NewOrder(id)
    PROVE  (~Sent(id) => ~Sent(id)') /\ (~InFlight(id) => ~InFlight(id)')
  BY DEF OrderMove, Sent, InFlight, Live, GrownOrder, StatusOnly, NewQuantity,
         ReplaceableStop, ActiveStatuses

\* The intent is journalled before the request, and the lookup before a request
\* finds what the broker has.
LEMMA KnownInductive ==
    ASSUME TypeOK, MemoryInv, BrokerInv, KnownInv, BuyInv, RestInv, NoStraggler, [Next]_vars
    PROVE  KnownInv'
<1>1. /\ \A id \in OrderIds : OrderMove(id)
      /\ \A id \in ClientIds : id \in OrderIds
      /\ pc # "send_stop" => \A o \in current : o.id \in ClientIds
  BY OrderMoves, IdParts DEF MemoryInv, Orders
<1>2. Undisturbed => \A id \in ClientIds : Outstanding(id)' => Reserved(id)'
  <2> SUFFICES ASSUME Undisturbed, NEW id \in ClientIds, Outstanding(id)' PROVE Reserved(id)'
    OBVIOUS
  <2>1. Reserved(id)
    <3>1. CASE Outstanding(id)
      BY <3>1 DEF KnownInv
    <3>2. CASE NewOrder(id)
      BY <3>2 DEF NewOrder, KnownInv
    <3> QED BY <1>1, <3>1, <3>2, OutstandingBefore
  <2>2. CASE ArchiveJournal
    <3>1. orders' = orders /\ ~Outstanding(id)
      BY <1>1, <2>2 DEF ArchiveJournal, Resetting, RestInv, brokerVars
    <3> QED BY <3>1 DEF Outstanding, Live, InFlight
  <2> QED BY <2>1, <2>2, IntentsStay
<1> DEFINE Work == /\ Undisturbed /\ pc \in {"lookup", "send", "record"} =>
                          \A o \in current : Reserved(o.id)
                   /\ pc = "lookup" => \A o \in current : ~InFlight(o.id)
                   /\ pc = "send" => \A o \in current : ~Sent(o.id)
                   /\ pc = "record" => \A o \in current : Visible(o.id)
<1>3. Work'
  <2>1. CASE Still
    <3>1. UNCHANGED <<pc, current>>
      BY <2>1 DEF Still, memoryVars
    <3>2. CASE pc \in {"lookup", "send", "record"}
      <4>1. Undisturbed => ~ArchiveJournal
        BY <3>2 DEF ArchiveJournal, Resetting, RestInv
      <4>2. Undisturbed => \A o \in current : Reserved(o.id)'
        BY <1>1, <3>2, <4>1, IntentsStay DEF KnownInv
      <4>3. \A o \in current : ~NewOrder(o.id)
        BY <3>1, <3>2 DEF NewOrder
      <4> QED BY <1>1, <3>1, <3>2, <4>2, <4>3, VisibleStays, AbsentStays DEF KnownInv
    <3>3. CASE pc \notin {"lookup", "send", "record"}
      BY <3>1, <3>3
    <3> QED BY <3>2, <3>3
  <2>2. CASE pc' \notin {"lookup", "send", "record"}
    BY <2>2
  <2>3. ASSUME NEW o \in current, Reserve(o), pc' = "lookup" PROVE Work'
    <3>1. /\ o.id \in ClientIds /\ current' = current /\ orders' = orders
          /\ ReserveOrder(o)
      BY <2>3 DEF Reserve, RefuseEntry, memoryVars, brokerVars, MemoryInv, Orders
    <3>2. ~Reserved(o.id) /\ Reserved(o.id)'
      BY <3>1 DEF ReserveOrder, MayReserve, Reserved, TypeOK, JournalTypeOK
    <3>3. ~InFlight(o.id)
      BY <1>1, <3>1, <3>2 DEF KnownInv, BrokerInv, Outstanding, NoStraggler
    <3>4. \A p \in current' : p = o
      BY <3>1 DEF MemoryInv
    <3> QED BY <2>3, <3>1, <3>2, <3>3, <3>4 DEF InFlight
  <2>4. ASSUME NEW o \in current, Lookup(o), ~Left PROVE Work'
    <3>1. /\ pc = "lookup" /\ current' = current /\ orders' = orders /\ intents' = intents
          /\ \/ pc' = "record" /\ Visible(o.id)
             \/ pc' = "send" /\ ~Visible(o.id)
      BY <2>4 DEF Lookup, Left, Leave, memoryVars, brokerVars, journalVars
    <3>2. \A p \in current' : p = o
      BY <3>1 DEF MemoryInv
    <3>3. (Undisturbed => Reserved(o.id)) /\ ~InFlight(o.id)
      BY <3>1 DEF KnownInv
    <3> QED BY <3>1, <3>2, <3>3 DEF Visible, Sent, InFlight, Reserved
  <2>5. ASSUME NEW o \in current, Send(o), pc' = "record" PROVE Work'
    <3>1. /\ pc = "send" /\ current' = current /\ intents' = intents
          /\ orders' = Accepted(o.id, o.quantity)
      BY <2>5 DEF Send, SendAccepted, SendUnanswered, SendLost, SendDelayed, Leave, memoryVars,
                  journalVars
    <3>2. \A p \in current' : p = o
      BY <3>1 DEF MemoryInv
    <3>3. o.id \in OrderIds
      BY CurrentIds
    <3>4. Visible(o.id)'
      BY <3>1, <3>3 DEF Accepted, Visible, TypeOK
    <3> QED BY <2>5, <3>1, <3>2, <3>4 DEF KnownInv, Reserved
  <2>6. CASE Refused \/ Plans \/ Protects
    <3>1. pc' \notin {"lookup", "send", "record"}
      BY <2>6 DEF Refused, RefuseEntry, Plans, BeginCycle, SyncDone, Reconcile, Assess, CancelBuys,
                  BuysCanceled, HaltSynced, Plan, Filter, Overtaking, ArchiveJournal, Resetting,
                  FilterDone, Protects, ReadPositions, ReadOpenOrders, ChooseStop, KeepStop,
                  ReplaceStop, Visited, Leave, Left
    <3> QED BY <2>2, <3>1
  <2>7. CASE Submits
    <3>1. CASE \/ \E o \in ready : BeginSell(o) \/ BeginBuy(o)
               \/ \E o \in current : \/ SellsCanceled(o)
                                     \/ Revalidate(o) /\ ~Refused
                                     \/ RecordSubmission(o)
               \/ BuyControl /\ pc' = "reserve"
      <4>1. pc' \notin {"lookup", "send", "record"}
        BY <3>1 DEF BeginSell, BeginBuy, SellsCanceled, Revalidate, Refused, RecordSubmission
      <4> QED BY <2>2, <4>1
    <3> QED BY <2>3, <2>4, <2>5, <2>7, <3>1 DEF Submits
  <2> QED BY <2>1, <2>2, <2>6, <2>7, StepSplit DEF Left
<1> QED
  BY <1>2, <1>3 DEF KnownInv

-----------------------------------------------------------------------------
\* A holding changes by one share, when an order executes; nothing else does.
LEMMA PositionMoves ==
    ASSUME TypeOK, MemoryInv, BrokerInv, KnownInv, BuyInv, [Next]_vars
    PROVE  /\ position' \in [Symbols -> Int]
           /\ \/ /\ UNCHANGED position
                 /\ \A i \in OrderIds : ~GrownOrder(i)
              \/ \E id \in OrderIds :
                     /\ Fill(id) /\ GrownOrder(id)
                     /\ \A i \in OrderIds : i # id => orders'[i] = orders[i]
                     /\ \A s \in Symbols : position'[s] =
                            IF s # SymbolOf(id) THEN position[s]
                            ELSE IF SideOf(id) = "buy" THEN position[s] + 1 ELSE position[s] - 1
<1>1. /\ position \in [Symbols -> Int]
      /\ orders \in [OrderIds -> OrderRecord]
      /\ \A id \in OrderIds : OrderMove(id) /\ SymbolOf(id) \in Symbols
      /\ \A id \in OrderIds : orders[id].filled \in Int
  BY OrderMoves, IdParts, ZeroQuantity DEF TypeOK, OrderRecord, Quantities
<1>2. ASSUME NEW id \in OrderIds, Fill(id)
      PROVE  /\ position' \in [Symbols -> Int]
             /\ GrownOrder(id)
             /\ \A i \in OrderIds : i # id => orders'[i] = orders[i]
             /\ \A s \in Symbols : position'[s] =
                    IF s # SymbolOf(id) THEN position[s]
                    ELSE IF SideOf(id) = "buy" THEN position[s] + 1 ELSE position[s] - 1
  <2>1. position' = [position EXCEPT
            ![SymbolOf(id)] = IF SideOf(id) = "buy" THEN @ + 1 ELSE @ - 1]
    BY <1>2 DEF Fill
  <2>2. GrownOrder(id) /\ \A i \in OrderIds : i # id => orders'[i] = orders[i]
    BY <1>2, FillGrows
  <2> QED BY <1>1, <2>1, <2>2
<1>3. ASSUME UNCHANGED position, \A i \in OrderIds : orders'[i].filled \in {0, orders[i].filled},
             \A i \in OrderIds : orders[i].filled >= 0
      PROVE  \A i \in OrderIds : ~GrownOrder(i)
  BY <1>1, <1>3 DEF GrownOrder
<1>4. \A i \in OrderIds : orders[i].filled >= 0
  BY ZeroQuantity DEF TypeOK, Quantities
<1>5. CASE UNCHANGED <<orders, position>>
  BY <1>1, <1>3, <1>4, <1>5
<1>6. ASSUME NEW id \in OrderIds, EndOrder(id) \/ Arrive(id)
      PROVE  UNCHANGED position /\ \A i \in OrderIds : ~GrownOrder(i)
  <2>1. \A i \in OrderIds : orders'[i].filled = orders[i].filled
    BY <1>1, <1>6 DEF EndOrder, Arrive, OrderRecord
  <2> QED BY <1>3, <1>4, <1>6, <2>1 DEF EndOrder, Arrive
<1>7. ASSUME NEW ids \in SUBSET OrderIds, orders' = CancelRequested(ids), UNCHANGED position
      PROVE  \A i \in OrderIds : ~GrownOrder(i)
  <2>1. \A i \in OrderIds : orders'[i].filled = orders[i].filled
    BY <1>1, <1>7 DEF CancelRequested, OrderRecord
  <2> QED BY <1>3, <1>4, <1>7, <2>1
<1>8. ASSUME NEW o \in current, NEW status \in {"new", "in_flight"}, Requested(o, status)
      PROVE  UNCHANGED position /\ \A i \in OrderIds : ~GrownOrder(i)
  <2>1. \A i \in OrderIds : orders'[i].filled \in {0, orders[i].filled}
    BY <1>1, <1>8 DEF Requested
  <2> QED BY <1>3, <1>4, <1>8, <2>1 DEF Requested
<1>9. ASSUME NEW s \in rows, NEW id \in seen[s], Replaced(s, id)
      PROVE  UNCHANGED position /\ \A i \in OrderIds : ~GrownOrder(i)
  <2>1. \A i \in OrderIds : orders'[i].filled = orders[i].filled
    BY <1>1, <1>9 DEF Replaced, OrderRecord
  <2> QED BY <1>3, <1>4, <1>9, <2>1 DEF Replaced
<1> QED
  BY <1>1, <1>2, <1>5, <1>6, <1>7, <1>8, <1>9, OrderSplit

\* No entry is unresolved, so none is live or on its way.
LEMMA NonePending ==
    ASSUME BrokerInv, KnownInv, JournalTrailsBroker, NoStraggler, ~PendingBuys
    PROVE  OutstandingBuys = {}
<1> SUFFICES ASSUME NEW id \in OutstandingBuys PROVE FALSE
  OBVIOUS
<1>1. id \in ClientIds /\ SideOf(id) = "buy" /\ Outstanding(id)
  BY DEF OutstandingBuys
<1>2. id \in OrderIds /\ SymbolOf(id) \in Symbols
  BY <1>1, IdParts
<1>3. ~Live(id)
  BY <1>1, <1>2 DEF PendingBuys, OpenBuys, OpenOrders
<1>4. Undisturbed /\ Reserved(id)
  BY <1>1, <1>2, <1>3 DEF Outstanding, BrokerInv, KnownInv, NoStraggler
<1>5. intents[id].status \in TerminalStatuses
  BY <1>1, <1>4 DEF PendingBuys, UnresolvedBuys
<1>6. orders[id].status \in TerminalStatuses
  BY <1>1, <1>2, <1>4, <1>5 DEF JournalTrailsBroker, Tracked
<1> QED
  BY <1>1, <1>3, <1>6 DEF Outstanding, InFlight, TerminalStatuses, RetryableStatuses

\* One entry at a time, and only for a symbol that is not held: no entry begins
\* while another is unresolved.
LEMMA BuyInductive ==
    ASSUME TypeOK, MemoryInv, BrokerInv, KnownInv, BuyInv, JournalTrailsBroker, NoStraggler,
           [Next]_vars
    PROVE  BuyInv'
<1>1. /\ \A id \in OrderIds : OrderMove(id) /\ SymbolOf(id) \in Symbols
      /\ \A id \in ClientIds : id \in OrderIds
      /\ orders \in [OrderIds -> OrderRecord] /\ orders' \in [OrderIds -> OrderRecord]
      /\ position \in [Symbols -> Int] /\ position' \in [Symbols -> Int]
      /\ MaxQuantity \in Nat
  BY OrderMoves, IdParts, PositionMoves, ZeroQuantity DEF TypeOK, OrderRecord
<1>2. \A id \in OrderIds : /\ orders[id].quantity \in Int /\ orders[id].filled \in Int
                           /\ orders'[id].quantity \in Int /\ orders'[id].filled \in Int
  BY <1>1 DEF OrderRecord, Quantities
<1>3. \A id \in OutstandingBuys' : id \in OutstandingBuys \/ NewOrder(id)
  BY <1>1, OutstandingBefore DEF OutstandingBuys
<1>4. ASSUME NEW id \in ClientIds, SideOf(id) = "buy", NewOrder(id)
      PROVE  /\ OutstandingBuys = {} /\ position[SymbolOf(id)] <= 0
             /\ \A other \in ClientIds : NewOrder(other) => other = id
             /\ orders'[id].quantity <= MaxQuantity
  <2>1. PICK o \in current : o.id = id /\ orders'[id].quantity = o.quantity
    BY <1>4 DEF NewOrder
  <2>2. pc = "send" /\ IsBuy(o) /\ o.quantity \in 1..MaxQuantity
    BY <1>4, <2>1, CurrentIds DEF NewOrder, IsBuy
  <2>3. \A p \in current : p = o
    BY DEF MemoryInv
  <2> QED BY <1>1, <2>1, <2>2, <2>3 DEF BuyInv, NewOrder
<1>5. \A id, other \in OutstandingBuys' : id = other
  <2>1. \A id \in OutstandingBuys' : id \in ClientIds /\ SideOf(id) = "buy"
    BY DEF OutstandingBuys
  <2> QED BY <1>3, <1>4, <2>1 DEF BuyInv
<1>6. ASSUME NEW id \in OutstandingBuys'
      PROVE  position'[SymbolOf(id)] + orders'[id].quantity - orders'[id].filled <= MaxQuantity
  <2>1. id \in ClientIds /\ id \in OrderIds /\ SideOf(id) = "buy" /\ SymbolOf(id) \in Symbols
    BY <1>1 DEF OutstandingBuys
  <2>2. CASE NewOrder(id)
    <3>1. ~GrownOrder(id) /\ orders'[id].filled = 0
      BY <2>2 DEF NewOrder, GrownOrder, Visible, Live, ActiveStatuses
    <3>2. position' = position
      <4>1. ASSUME NEW i \in OrderIds, i # id, orders'[id] = orders[id], Fill(i) PROVE FALSE
        BY <2>2, <4>1 DEF Fill, NewOrder
      <4>2. ASSUME NEW i \in OrderIds, Fill(i) PROVE FALSE
        BY <2>2, <4>2 DEF Fill, NewOrder
      <4> QED BY <4>2, PositionMoves
    <3> QED BY <1>1, <1>4, <1>2, <2>1, <2>2, <3>1, <3>2
  <2>3. CASE id \in OutstandingBuys /\ ~NewOrder(id)
    <3>1. position[SymbolOf(id)] + orders[id].quantity - orders[id].filled <= MaxQuantity
      BY <2>3 DEF BuyInv
    <3>2. ~NewQuantity(id)
      BY <2>1, StopParts DEF NewQuantity, ReplaceableStop
    <3>3. orders'[id].quantity = orders[id].quantity
      BY <1>1, <2>1, <2>3, <3>2 DEF OrderMove, GrownOrder, StatusOnly
    <3>4. CASE UNCHANGED position /\ \A i \in OrderIds : ~GrownOrder(i)
      <4>1. orders'[id].filled = orders[id].filled
        BY <1>1, <2>1, <2>3, <3>2, <3>4 DEF OrderMove, StatusOnly
      <4> QED BY <3>1, <3>3, <3>4, <4>1
    <3>5. ASSUME NEW i \in OrderIds, Fill(i), GrownOrder(i),
                 \A j \in OrderIds : j # i => orders'[j] = orders[j],
                 \A s \in Symbols : position'[s] =
                     IF s # SymbolOf(i) THEN position[s]
                     ELSE IF SideOf(i) = "buy" THEN position[s] + 1 ELSE position[s] - 1
          PROVE  position'[SymbolOf(id)] + orders'[id].quantity - orders'[id].filled
                     <= MaxQuantity
      <4>1. CASE i = id
        <5>1. /\ position'[SymbolOf(id)] = position[SymbolOf(id)] + 1
              /\ orders'[id].filled = orders[id].filled + 1
          BY <2>1, <3>5, <4>1 DEF GrownOrder
        <5> QED BY <1>1, <1>2, <2>1, <3>1, <3>3, <5>1
      <4>2. CASE i # id
        <5>1. SideOf(i) # "buy"
          <6>1. Live(i)
            BY <3>5 DEF Fill
          <6>2. SideOf(i) = "buy" => i \in OutstandingBuys
            BY <6>1, StopParts DEF OutstandingBuys, Outstanding, OrderIds
          <6> QED BY <2>3, <4>2, <6>2 DEF BuyInv
        <5>2. position'[SymbolOf(id)] <= position[SymbolOf(id)] /\ orders'[id] = orders[id]
          BY <1>1, <2>1, <3>5, <4>2, <5>1
        <5> QED BY <1>1, <1>2, <2>1, <3>1, <5>2
      <4> QED BY <4>1, <4>2
    <3> QED BY <3>4, <3>5, PositionMoves
  <2> QED BY <1>3, <2>2, <2>3
<1>7. \A s \in Symbols : position'[s] <= MaxQuantity
  <2> SUFFICES ASSUME NEW s \in Symbols PROVE position'[s] <= MaxQuantity
    OBVIOUS
  <2>1. position[s] <= MaxQuantity
    BY DEF BuyInv
  <2>2. CASE UNCHANGED position
    BY <2>1, <2>2
  <2>3. ASSUME NEW i \in OrderIds, Fill(i), GrownOrder(i),
               position'[s] = IF s # SymbolOf(i) THEN position[s]
                              ELSE IF SideOf(i) = "buy" THEN position[s] + 1 ELSE position[s] - 1
        PROVE  position'[s] <= MaxQuantity
    <3>1. CASE s = SymbolOf(i) /\ SideOf(i) = "buy"
      <4>1. i \in OutstandingBuys
        BY <2>3, <3>1, StopParts DEF Fill, OutstandingBuys, Outstanding, OrderIds
      <4>2. position[s] + orders[i].quantity - orders[i].filled <= MaxQuantity
        BY <3>1, <4>1 DEF BuyInv
      <4>3. orders[i].filled < orders[i].quantity
        BY <4>1 DEF BrokerInv, OutstandingBuys
      <4> QED BY <1>1, <1>2, <2>3, <3>1, <4>2, <4>3
    <3>2. CASE ~(s = SymbolOf(i) /\ SideOf(i) = "buy")
      BY <1>1, <2>1, <2>3, <3>2
    <3> QED BY <3>1, <3>2
  <2> QED BY <2>2, <2>3, PositionMoves
<1>8. \A s \in Symbols : view'[s] <= MaxQuantity
  <2>1. \A s \in Symbols : position[s] <= MaxQuantity /\ view[s] <= MaxQuantity
    BY DEF BuyInv
  <2> QED BY <1>1, <2>1, Frame DEF Refreshed
<1> DEFINE Work == pc \in {"buy_control", "reserve", "lookup", "send"} =>
                       \A o \in current : IsBuy(o) =>
                           /\ OutstandingBuys = {}
                           /\ position[SymbolOf(o.id)] <= 0
<1>9. Work'
  <2>1. CASE Still
    <3> SUFFICES ASSUME pc \in {"buy_control", "reserve", "lookup", "send"},
                        NEW o \in current, IsBuy(o)
                 PROVE  OutstandingBuys' = {} /\ position'[SymbolOf(o.id)] <= 0
      BY <2>1 DEF Still, memoryVars, IsBuy
    <3>1. OutstandingBuys = {} /\ position[SymbolOf(o.id)] <= 0
      BY DEF BuyInv
    <3>2. \A id \in OrderIds : ~NewOrder(id) \/ pc' # pc
      BY DEF NewOrder
    <3>3. pc' = pc
      BY <2>1 DEF Still
    <3>4. OutstandingBuys' = {}
      <4>1. \A id \in OutstandingBuys' : id \in OrderIds
        BY <1>1 DEF OutstandingBuys
      <4>2. ASSUME NEW id \in OutstandingBuys', NewOrder(id) PROVE FALSE
        <5>1. id \in ClientIds
          BY DEF OutstandingBuys
        <5> QED BY <3>3, <4>2, <5>1 DEF NewOrder
      <4> QED BY <1>3, <3>1, <4>1, <4>2
    <3>5. position'[SymbolOf(o.id)] <= position[SymbolOf(o.id)]
      <4>1. SymbolOf(o.id) \in Symbols
        BY <1>1, CurrentIds
      <4>2. \A i \in OrderIds : Fill(i) => SideOf(i) # "buy"
        BY <3>1, StopParts DEF Fill, OutstandingBuys, Outstanding, OrderIds
      <4> QED BY <1>1, <4>1, <4>2, PositionMoves
    <3> QED BY <1>1, <3>1, <3>4, <3>5, CurrentIds
  <2>2. CASE pc' \notin {"buy_control", "reserve", "lookup", "send"}
    BY <2>2
  <2>3. ASSUME NEW o \in current, SellsCanceled(o) PROVE Work'
    <3>1. pc' = "reserve" => \A p \in current' : p.id = o.id
      <4>1. o \in Orders
        BY <2>3 DEF SellsCanceled, MemoryInv
      <4> QED BY <2>3, <4>1 DEF SellsCanceled, Orders
    <3>2. IsSell(o)
      BY <2>3 DEF SellsCanceled, MemoryInv
    <3>3. pc' \in {"submit", "reserve"}
      BY <2>3 DEF SellsCanceled
    <3> QED BY <3>1, <3>2, <3>3 DEF IsBuy, IsSell
  <2>4. ASSUME NEW o \in current, Revalidate(o), ~Refused PROVE Work'
    <3>1. CASE pc' = "buy_control"
      <4>1. /\ ~EntryRefused(SymbolOf(o.id)) /\ UNCHANGED <<orders, position>>
            /\ \A p \in current' : p.id = o.id
        <5>1. o \in Orders
          BY <2>4 DEF Revalidate, MemoryInv
        <5> QED BY <2>4, <3>1, <5>1 DEF Revalidate, Refused, brokerVars, Orders, RefuseEntry
      <4>2. OutstandingBuys = {} /\ position[SymbolOf(o.id)] <= 0
        BY <1>1, <4>1, NonePending, CurrentIds DEF EntryRefused
      <4>3. OutstandingBuys' = {}
        BY <4>1, <4>2 DEF OutstandingBuys, Outstanding, Live, InFlight
      <4> QED BY <4>1, <4>2, <4>3
    <3>2. pc' \in {"cancel_buys", "buy_control"}
      BY <2>4 DEF Revalidate, Refused
    <3> QED BY <2>2, <3>1, <3>2
  <2>5. CASE \/ \E o \in current : \/ Reserve(o) /\ pc' = "lookup"
                                   \/ Lookup(o) /\ ~Left
             \/ BuyControl /\ pc' = "reserve"
    <3>1. /\ pc \in {"buy_control", "reserve", "lookup"}
          /\ UNCHANGED <<orders, position, current>>
      BY <2>5 DEF Reserve, Lookup, BuyControl, Left, Leave, RefuseEntry, memoryVars, brokerVars
    <3>2. OutstandingBuys' = OutstandingBuys
      BY <3>1 DEF OutstandingBuys, Outstanding, Live, InFlight
    <3> QED BY <3>1, <3>2 DEF BuyInv, IsBuy
  <2>6. CASE Refused \/ Plans \/ Protects
    <3>1. pc' \notin {"buy_control", "reserve", "lookup", "send"}
      BY <2>6 DEF Refused, RefuseEntry, Plans, BeginCycle, SyncDone, Reconcile, Assess, CancelBuys,
                  BuysCanceled, HaltSynced, Plan, Filter, Overtaking, ArchiveJournal, Resetting,
                  FilterDone, Protects, ReadPositions, ReadOpenOrders, ChooseStop, KeepStop,
                  ReplaceStop, Visited, Leave, Left
    <3> QED BY <2>2, <3>1
  <2>7. CASE Submits
    <3>1. CASE \/ \E o \in ready : BeginSell(o) \/ BeginBuy(o)
               \/ \E o \in current : \/ Send(o) /\ pc' = "record"
                                     \/ RecordSubmission(o)
      <4>1. pc' \notin {"buy_control", "reserve", "lookup", "send"}
        BY <3>1 DEF BeginSell, BeginBuy, RecordSubmission
      <4> QED BY <2>2, <4>1
    <3> QED BY <2>3, <2>4, <2>5, <2>7, <3>1 DEF Submits
  <2> QED BY <2>1, <2>2, <2>6, <2>7, StepSplit DEF Left
<1> QED
  BY <1>5, <1>6, <1>7, <1>8, <1>9 DEF BuyInv

\* A reset that disturbs nobody begins and ends between two cycles.
LEMMA RestInductive ==
    ASSUME TypeOK, MemoryInv, BrokerInv, KnownInv, BuyInv, RestInv, [Next]_vars
    PROVE  RestInv'
<1> SUFFICES ASSUME Undisturbed PROVE RestInv'
  BY DEF RestInv
<1>1. /\ archived = "no"
      /\ reset # "none" => ResetsApart /\ pc = "idle"
      /\ reset = "clear" => \A id \in OrderIds : ~Outstanding(id)
  BY DEF RestInv
<1>2. ASSUME reset # "none" PROVE pc' = "idle" /\ \A id \in OrderIds : ~NewOrder(id)
  <2>1. pc = "idle"
    BY <1>1, <1>2
  <2>2. ~BeginCycle("risk") /\ ~BeginCycle("signal") /\ ~BeginCycle("protect")
    BY <1>1, <1>2 DEF BeginCycle, ResetsApart
  <2>3. ~Refused /\ ~Plans /\ ~Submits /\ ~Protects
    BY <2>1, <2>2 DEF Refused, Plans, SyncDone, Reconcile, Assess, CancelBuys, BuysCanceled,
           HaltSynced, Plan, Filter, Overtaking, FilterDone, Submits, BeginSell, BeginBuy,
           SellsCanceled, Revalidate, Reserve, Lookup, Send, RecordSubmission, BuyControl,
           Protects, ReadPositions, ReadOpenOrders, ChooseStop, KeepStop, ReplaceStop, SendStop
  <2> QED BY <2>1, <2>3, StepSplit DEF Still, Left, NewOrder
<1>3. CASE reset' = reset /\ archived' = "no"
  <2>1. ASSUME NEW id \in OrderIds, reset = "clear" PROVE ~Outstanding(id)'
    <3>1. OrderMove(id)
      BY OrderMoves
    <3> QED BY <1>1, <1>2, <2>1, <3>1, OutstandingBefore
  <2> QED BY <1>2, <1>3, <2>1 DEF RestInv
<1>4. CASE ResetState
  <2>1. ResetsApart /\ Quiet /\ pc' = pc /\ orders' = orders
    BY <1>4 DEF ResetState, ResetReadsPositions, ResetReadsOrders, ArchiveJournal, Resetting,
                Undisturbed, NoReset, ResetsApart, brokerVars
  <2>2. archived' = archived
    BY <1>4, <2>1 DEF ResetState, ResetReadsPositions, ResetReadsOrders, ArchiveJournal,
                      Overtaken, Quiet
  <2>3. ASSUME NEW id \in OrderIds, reset' = "clear" PROVE ~Outstanding(id)'
    <3>1. ~Live(id)
      BY <1>4, <2>3 DEF ResetState, ResetReadsPositions, ResetReadsOrders, ArchiveJournal
    <3> QED BY <2>1, <3>1 DEF Quiet, Outstanding, Live, InFlight
  <2> QED BY <1>1, <2>1, <2>2, <2>3 DEF Quiet, RestInv
<1> QED
  BY <1>1, <1>3, <1>4, ResetSplit DEF resetVars

\* A set whose members are all equal has at most one.
LEMMA AtMostOne ==
    ASSUME NEW S, \A x, y \in S : x = y
    PROVE  Cardinality(S) <= 1
<1>1. CASE S = {}
  BY <1>1, FS_EmptySet
<1>2. ASSUME NEW x \in S PROVE Cardinality(S) <= 1
  <2>1. S = {x}
    OBVIOUS
  <2> QED BY <2>1, FS_Singleton
<1> QED
  BY <1>1, <1>2

\* The variables keep their types; the bounds of the quantities are those of
\* BrokerInv and BuyInv.
LEMMA StepsKeepType ==
    ASSUME ExecInv, JournalTypeOK', MemoryInv', [Next]_vars
    PROVE  TypeOK'
<1> USE DEF ExecInv
<1>1. orders' \in [OrderIds -> OrderRecord] /\ position' \in [Symbols -> Int]
  BY OrderMoves, PositionMoves
<1>2. today' \in Days
  BY Frame DEF NextDay, TypeOK
<1>3. view' \in [Symbols -> Int]
  BY <1>1, Frame DEF Refreshed, TypeOK
<1>4. planned' \subseteq Orders /\ ready' \subseteq Orders
  BY DEF MemoryInv
<1>5. Cardinality(current)' <= 1
  <2>1. \A x, y \in current' : x = y
    BY DEF MemoryInv
  <2> QED BY <2>1, AtMostOne
<1>6. \A o \in current' : o.id \in OrderIds /\ o.quantity \in 1..MaxQuantity
  <2>1. current' \subseteq Orders \/ current' \subseteq StopOrders
    BY DEF MemoryInv
  <2> QED BY <2>1, StopParts, IdParts DEF Orders, StopOrders
<1> QED
  BY <1>1, <1>2, <1>3, <1>4, <1>5, <1>6, Frame DEF TypeOK, OrderRecord

\* There is a first date: the order of the dates is well founded.
LEMMA FirstDay == \E d \in Days : \A e \in Days : d <= e
<1> DEFINE R == OpToRel(<, Nat)
<1>1. IsWellFoundedOn(R, Nat)
  BY NatLessThanWellFounded
<1>2. Days \subseteq Nat /\ Days # {}
  BY JournalAssumption, ExecutionAssumption
<1>3. PICK d \in Days : \A e \in Days : ~(<<e, d>> \in R)
  <2> HIDE DEF R
  <2> QED BY <1>1, <1>2, WFMin
<1>4. d \in Nat /\ \A e \in Days : e \in Nat /\ ~(e < d)
  BY <1>2, <1>3 DEF OpToRel
<1>5. \A e \in Days : d <= e
  BY <1>4
<1> QED
  BY <1>5

\* The program starts within the invariant.
LEMMA InitialExecution == Init => ExecInv
<1> SUFFICES ASSUME Init PROVE ExecInv
  OBVIOUS
<1> USE DEF Init
<1>1. JournalTypeOK /\ ChainInv /\ CapInv
  BY InitialType, InitialChain, InitialCap
<1>2. today \in Days
  BY FirstDay
<1>3. \A id \in OrderIds : orders[id] = NoRemote
  OBVIOUS
<1>4. position \in [Symbols -> Int] /\ \A s \in Symbols : position[s] <= MaxQuantity /\ view[s] <= MaxQuantity
  BY ExecutionAssumption, ZeroQuantity DEF Quantities
<1>5. TypeOK
  <2>1. Cardinality(current) <= 1
    BY FS_EmptySet
  <2>2. NoRemote \in OrderRecord
    BY ZeroQuantity DEF NoRemote, OrderRecord
  <2>3. orders \in [OrderIds -> OrderRecord]
    BY <2>2
  <2>4. pc \in Steps /\ pausedBuys \in Nat /\ cycle \in {"risk", "signal", "protect"}
    BY DEF Steps
  <2>5. view \in [Symbols -> Int] /\ seen \in [Symbols -> SUBSET OrderIds] /\ rows \subseteq Symbols
    OBVIOUS
  <2>6. /\ planned \subseteq Orders /\ ready \subseteq Orders /\ paused \in BOOLEAN
        /\ reset = "none" /\ archived = "no"
    OBVIOUS
  <2>7. \A o \in current : o.id \in OrderIds /\ o.quantity \in 1..MaxQuantity
    OBVIOUS
  <2> HIDE DEF Init
  <2> QED BY <1>1, <1>2, <1>4, <2>1, <2>3, <2>4, <2>5, <2>6, <2>7 DEF TypeOK, OrderRecord
<1>6. MemoryInv
  BY DEF MemoryInv, Canceling
<1>7. \A id \in OrderIds : ~Sent(id) /\ ~Outstanding(id) /\ orders[id].filled = 0
  BY <1>3 DEF NoRemote, Sent, Outstanding, Live, InFlight, ActiveStatuses
<1>8. BrokerInv
  BY <1>3, <1>7 DEF BrokerInv, NoRemote, InFlight
<1>9. KnownInv /\ BuyInv /\ RestInv
  <2>1. \A id \in ClientIds : id \in OrderIds
    BY IdParts
  <2> QED BY <1>4, <1>7, <2>1 DEF KnownInv, BuyInv, RestInv, OutstandingBuys
<1>10. JournalTrailsBroker
  BY <1>3 DEF JournalTrailsBroker, JournalInit, Tracked, Reserved, NoIntent, NoRemote
<1> QED
  BY <1>1, <1>5, <1>6, <1>8, <1>9, <1>10 DEF ExecInv

\* Every step keeps the invariant and is a step of the journal.
LEMMA ExecInductive ==
    ASSUME NoStraggler, ExecInv, [Next]_vars
    PROVE  ExecInv' /\ [JournalNext]_journalVars
<1> USE DEF ExecInv
<1>1. [JournalNext]_journalVars
  BY JournalImplemented
<1>2. JournalTypeOK /\ JournalTypeOK'
  BY <1>1, TypeInductive DEF TypeOK
<1>3. ChainInv' /\ CapInv'
  BY <1>1, <1>2, ChainInductive, CapInductive
<1>4. MemoryInv' /\ BrokerInv' /\ KnownInv' /\ BuyInv' /\ RestInv' /\ JournalTrailsBroker'
  BY MemoryInductive, BrokerInductive, KnownInductive, BuyInductive, RestInductive,
     TrailsInductive
<1>5. TypeOK'
  BY <1>2, <1>4, StepsKeepType
<1> QED
  BY <1>1, <1>3, <1>4, <1>5

\* The invariant holds of every execution.
LEMMA ExecInvariant ==
    ASSUME NoStraggler
    PROVE  Spec => []ExecInv
<1>1. ExecInv /\ [Next]_vars => ExecInv'
  BY ExecInductive
<1> QED
  BY <1>1, InitialExecution, PTL DEF Spec

\* Every variable keeps its type: no holding exceeds the largest order, because
\* at most one entry is outstanding.
THEOREM ExecutionTypeCorrect ==
    ASSUME NoStraggler
    PROVE  Spec => []TypeOK
<1>1. ExecInv => TypeOK
  BY DEF ExecInv
<1> QED
  BY <1>1, ExecInvariant, PTL

\* The journal never records an execution or a final status the broker does not
\* have, whatever the order in which responses, reports and crashes come.
THEOREM JournalTrails ==
    ASSUME NoStraggler
    PROVE  Spec => []JournalTrailsBroker
<1>1. ExecInv => JournalTrailsBroker
  BY DEF ExecInv
<1> QED
  BY <1>1, ExecInvariant, PTL

\* No order of the operator is live at the broker without an intent in the
\* journal, after any crash, lost response or late arrival, and after any reset
\* that nobody runs while a cycle or a request is on its way.
THEOREM LiveOrdersAreKnown ==
    ASSUME Undisturbed
    PROVE  Spec => []LiveOrdersHaveIntents
<1>1. NoStraggler
  BY DEF NoStraggler
<1>2. ExecInv => LiveOrdersHaveIntents
  BY DEF ExecInv, KnownInv, LiveOrdersHaveIntents, Outstanding
<1> QED
  BY <1>1, <1>2, ExecInvariant, PTL

\* The operator uses the journal as the journal's own specification says: every
\* property proved of that specification holds of the whole system.
THEOREM OperatorKeepsJournal ==
    ASSUME NoStraggler
    PROVE  Spec => JournalSpec
<1>1. ExecInv /\ [Next]_vars => [JournalNext]_journalVars
  BY ExecInductive
<1>2. Init => JournalInit
  BY DEF Init
<1> QED
  BY <1>1, <1>2, ExecInvariant, PTL DEF Spec, JournalSpec

\* The journal changes only for the orders in work and for what the broker
\* reports at that moment.
THEOREM JournalIsDisciplined ==
    ASSUME NoStraggler
    PROVE  Spec => JournalDiscipline
<1> DEFINE AllReports == {RemoteReport(id) : id \in OrderIds}
           Step == journalVars' # journalVars /\ JournalStep(InWork, AllReports)
<1>1. ASSUME ExecInv, [Next]_vars PROVE [Step]_journalVars
  <2>1. JournalMove
    BY <1>1, JournalMoves DEF ExecInv
  <2>2. CASE JournalStep(InWork, ReportsNow)
    <3>1. ReportsNow \subseteq AllReports
      BY DEF ReportsNow
    <3> HIDE DEF AllReports
    <3> QED BY <2>2, <3>1 DEF JournalStep
  <2>3. ASSUME NEW s \in Symbols, NEW id \in StopIds, MarkProtectiveOrder(s, id)
        PROVE  [Step]_journalVars
    <3>1. RemoteReport(id) \in AllReports /\ RemoteReport(id).id = id
      BY StopParts DEF RemoteReport
    <3> HIDE DEF AllReports
    <3> QED BY <2>3, <3>1 DEF JournalStep
  <2> HIDE DEF AllReports
  <2> QED BY <2>1, <2>2, <2>3 DEF JournalMove
<1>2. Init => JournalInit
  BY DEF Init
<1> QED
  BY <1>1, <1>2, ExecInvariant, PTL DEF Spec, JournalDiscipline

-----------------------------------------------------------------------------
\* What a step does to one intent and its authorization.
LEMMA IntentMoves ==
    ASSUME ExecInv, [Next]_vars, NEW c \in ClientIds
    PROVE  \/ ResetForAccount
           \/ \E o \in Orders : o.id = c /\ ReserveOrder(o)
           \/ /\ Reserved(c)' <=> Reserved(c)
              /\ intents'[c].quantity = intents[c].quantity
              /\ \/ authorized'[c] = authorized[c]
                 \/ \E o \in Orders, n \in 1..MaxExitAttempts, r \in ReportsNow :
                        /\ c = Attempt(o.id[1], n + 1)
                        /\ PrepareRiskExitRetry(o.id[1], n, o.quantity, r)
<1> DEFINE Same == /\ Reserved(c)' <=> Reserved(c)
                   /\ intents'[c].quantity = intents[c].quantity
<1>1. JournalTypeOK /\ InWork \subseteq Orders /\ ReportsNow \subseteq Reports
  BY InWorkOrders, ReportType DEF ReportsNow, ExecInv, TypeOK
<1>2. ASSUME NEW r \in ReportsNow, intents' = WithStatus(r.id, r.status) PROVE Same
  BY <1>1, <1>2, StatusKeepsIntents DEF Reports, Reserved
<1>3. ASSUME NEW o \in Orders, ReserveOrder(o), o.id # c
      PROVE  Same /\ authorized'[c] = authorized[c]
  BY <1>1, <1>3 DEF ReserveOrder, Orders, JournalTypeOK, Reserved
<1>4. ASSUME NEW o \in Orders, NEW n \in 1..MaxExitAttempts, NEW r \in ReportsNow,
             PrepareRiskExitRetry(o.id[1], n, o.quantity, r)
      PROVE  /\ Same
             /\ c # Attempt(o.id[1], n + 1) => authorized'[c] = authorized[c]
  <2>1. r.id \in ClientIds /\ Reserved(r.id) /\ r.status # "absent"
    <3>1. n \in 1..n
      BY DEF MaxExitAttempts
    <3> QED BY <1>4, <3>1, IdParts DEF PrepareRiskExitRetry, IsLatestAttempt, Orders,
                 RetryableStatuses, MaxExitAttempts
  <2>2. Same
    BY <1>1, <1>4, <2>1 DEF PrepareRiskExitRetry, JournalTypeOK, Reserved
  <2>3. c # Attempt(o.id[1], n + 1) => authorized'[c] = authorized[c]
    BY <1>1, <1>4 DEF PrepareRiskExitRetry, JournalTypeOK
  <2> QED BY <2>2, <2>3
<1>5. ASSUME UNCHANGED <<intents, authorized>> PROVE Same /\ authorized'[c] = authorized[c]
  BY <1>5 DEF Reserved
<1> DEFINE Moves == \/ ResetForAccount
                    \/ \E o \in Orders : o.id = c /\ ReserveOrder(o)
                    \/ /\ Same
                       /\ \/ authorized'[c] = authorized[c]
                          \/ \E o \in Orders, n \in 1..MaxExitAttempts, r \in ReportsNow :
                                 /\ c = Attempt(o.id[1], n + 1)
                                 /\ PrepareRiskExitRetry(o.id[1], n, o.quantity, r)
<1>6. ASSUME NEW o \in InWork, ReserveOrder(o) PROVE Moves
  BY <1>1, <1>3, <1>6
<1>7. ASSUME NEW o \in InWork, NEW n \in 1..MaxExitAttempts, NEW r \in ReportsNow,
             PrepareRiskExitRetry(o.id[1], n, o.quantity, r)
      PROVE  Moves
  <2>1. o \in Orders
    BY <1>1
  <2> QED BY <1>4, <1>7, <2>1
<1>8. CASE \/ \E r \in ReportsNow : UpdateOrderStatus(r.id, r.status)
           \/ \E r \in ReportsNow, active \in BOOLEAN :
                  SyncBrokerOrder(r, active) \/ FinishSync(r, active)
  BY <1>2, <1>8 DEF UpdateOrderStatus, SyncBrokerOrder, FinishSync
<1>9. CASE \/ \E r \in ReportsNow : RecordBrokerOrder(r)
           \/ \E s \in Symbols, id \in StopIds : MarkProtectiveOrder(s, id)
           \/ \E s \in Symbols, r \in ReportsNow : r.id \in StopIds /\ MarkProtectiveOrder(s, r.id)
           \/ \E s \in Symbols : ClearProtectiveOrder(s)
           \/ LatchHalt
           \/ \E r \in ReportsNow : InterruptedSync(r)
           \/ InterruptedReset
           \/ UNCHANGED journalVars
  BY <1>5, <1>9 DEF RecordBrokerOrder, MarkProtectiveOrder, ClearProtectiveOrder, LatchHalt,
                    InterruptedSync, InterruptedReset, journalVars
<1>10. JournalMove
  BY JournalMoves DEF ExecInv
<1> QED
  BY <1>6, <1>7, <1>8, <1>9, <1>10 DEF JournalMove, JournalStep

\* A canceled order stays canceled.
LEMMA CanceledStays ==
    ASSUME NEW id \in OrderIds, OrderMove(id), orders[id].status = "canceled"
    PROVE  orders'[id].status = "canceled"
  BY DEF OrderMove, GrownOrder, StatusOnly, NewOrder, NewQuantity, ReplaceableStop, Visible,
         Live, InFlight, ActiveStatuses

\* A retry is prepared from a report of the canceled attempt before it.
LEMMA RetriesInductive ==
    ASSUME ExecInv, RetryAfterDeadAttempt, [Next]_vars
    PROVE  RetryAfterDeadAttempt'
<1> USE DEF ExecInv
<1> SUFFICES ASSUME NEW id \in ClientIds, AttemptOf(id) > 1, Reserved(id)'
             PROVE  orders'[PreviousAttempt(id)].status = "canceled"
  BY DEF RetryAfterDeadAttempt, AttemptOf, PreviousAttempt, Attempt
<1> DEFINE previous == PreviousAttempt(id)
<1>1. previous \in ClientIds /\ previous \in OrderIds
  BY Predecessor, IdParts
<1>2. OrderMove(previous)
  BY <1>1, OrderMoves
<1>3. orders[previous].status = "canceled" => orders'[previous].status = "canceled"
  BY <1>1, <1>2, CanceledStays
<1>4. [JournalNext]_journalVars /\ JournalTypeOK
  BY JournalImplemented DEF TypeOK
<1>5. CASE Reserved(id)
  BY <1>3, <1>5 DEF RetryAfterDeadAttempt
<1>6. CASE ~Reserved(id)
  <2>1. ~ResetForAccount
    BY <1>6 DEF ResetForAccount, Reserved, NoIntent
  <2>2. PICK o \in Orders : o.id = id /\ ReserveOrder(o)
    BY <1>4, <1>6, <2>1, IntentMoves
  <2>3. intents[previous].status \in RetryableStatuses
    <3>1. authorized[id] \in Nat
      BY <1>4, ZeroQuantity DEF JournalTypeOK, Quantities
    <3> QED BY <2>2, <3>1 DEF ReserveOrder, MayReserve, RetryAdmissible, FreshAdmissible
  <2>4. orders[previous].status = intents[previous].status
    BY <1>1, <2>3 DEF JournalTrailsBroker, Tracked, Reserved, TerminalStatuses, RetryableStatuses
  <2>5. orders[previous].status = "canceled"
    BY <1>1, <2>3, <2>4 DEF TypeOK, RetryableStatuses, ActiveStatuses
  <2> QED BY <1>3, <2>5
<1> QED
  BY <1>5, <1>6

\* A retry exists only after the attempt before it was canceled at the broker,
\* so two attempts of one exit are never live together.
THEOREM RetriesFollowDeadAttempts ==
    ASSUME NoStraggler
    PROVE  Spec => []RetryAfterDeadAttempt
<1>1. Init => RetryAfterDeadAttempt
  BY DEF Init, JournalInit, RetryAfterDeadAttempt, Reserved, NoIntent
<1>2. ExecInv /\ RetryAfterDeadAttempt /\ [Next]_vars => RetryAfterDeadAttempt'
  BY RetriesInductive
<1> QED
  BY <1>1, <1>2, ExecInvariant, PTL DEF Spec

-----------------------------------------------------------------------------
\* An entry about to be reserved passed its control check since the last time
\* the file appeared, or before: it is the one entry the pause lets through.
PauseInv ==
    /\ paused => pausedBuys <= 1
    /\ ~paused => pausedBuys = 0
    /\ pc = "reserve" => \A o \in current : IsBuy(o) => pausedBuys = 0

\* How a step comes to a reservation.
LEMMA ReserveAhead ==
    ASSUME MemoryInv, [Next]_vars, pc' = "reserve"
    PROVE  \/ pc = "reserve" /\ current' = current
           \/ BuyControl /\ ~paused /\ UNCHANGED current
           \/ \A p \in current' : IsSell(p)
<1>1. CASE Still
  BY <1>1 DEF Still, memoryVars
<1>2. CASE Left \/ Refused \/ Plans \/ Protects
  <2>1. pc' # "reserve"
    BY <1>2 DEF Refused, RefuseEntry, Plans, BeginCycle, SyncDone, Reconcile, Assess, CancelBuys,
                BuysCanceled, HaltSynced, Plan, Filter, Overtaking, ArchiveJournal, Resetting,
                FilterDone, Protects, ReadPositions, ReadOpenOrders, ChooseStop, KeepStop,
                ReplaceStop, Visited, Leave, Left
  <2> QED BY <2>1
<1>3. CASE Submits
  <2>1. ASSUME NEW o \in current, SellsCanceled(o) PROVE \A p \in current' : IsSell(p)
    <3>1. o \in Orders /\ IsSell(o)
      BY <2>1 DEF SellsCanceled, MemoryInv
    <3> QED BY <2>1, <3>1 DEF SellsCanceled, Orders, IsSell
  <2>2. CASE BuyControl
    BY <2>2 DEF BuyControl, BuyControlRejection, RefuseEntry, memoryVars
  <2>3. CASE \/ \E o \in ready : BeginSell(o) \/ BeginBuy(o)
             \/ \E o \in current : \/ Revalidate(o) /\ ~Refused
                                   \/ Reserve(o) /\ pc' = "lookup"
                                   \/ Lookup(o) /\ ~Left
                                   \/ Send(o) /\ pc' = "record"
                                   \/ RecordSubmission(o)
    <3>1. pc' # "reserve"
      BY <2>3 DEF BeginSell, BeginBuy, Revalidate, Refused, Lookup, Left, Leave, RecordSubmission
    <3> QED BY <3>1
  <2> QED BY <1>3, <2>1, <2>2, <2>3 DEF Submits
<1> QED
  BY StepSplit, <1>1, <1>2, <1>3

\* An entry counted against the pause was the one past its last control check.
LEMMA PauseInductive ==
    ASSUME ExecInv, PauseInv, [Next]_vars
    PROVE  PauseInv'
<1>1. pausedBuys \in Nat /\ MemoryInv
  BY DEF ExecInv, TypeOK
<1>2. CASE UNCHANGED <<paused, pausedBuys>>
  <2>1. CASE pc' = "reserve"
    <3>1. (pc = "reserve" /\ current' = current) \/ ~paused \/ \A p \in current' : IsSell(p)
      BY <1>1, <2>1, ReserveAhead
    <3> QED BY <1>2, <3>1 DEF PauseInv, IsBuy, IsSell
  <2> QED BY <1>2, <2>1 DEF PauseInv
<1>3. CASE SetPaused
  BY <1>3 DEF SetPaused, PauseInv
<1>4. ASSUME NEW o \in current, Reserve(o) PROVE PauseInv'
  <2>1. pc = "reserve" /\ pc' # "reserve" /\ paused' = paused
    BY <1>4 DEF Reserve, RefuseEntry
  <2>2. \/ pausedBuys' = pausedBuys
        \/ paused /\ IsBuy(o) /\ pausedBuys' = pausedBuys + 1
    BY <1>4 DEF Reserve, IsBuy
  <2> QED BY <2>1, <2>2 DEF PauseInv
<1> QED
  BY ControlSplit, <1>2, <1>3, <1>4

\* A pause lets through at most the one entry that had passed its last control
\* check, in every interleaving of the user, the operator and the broker.
THEOREM PauseBounds ==
    ASSUME NoStraggler
    PROVE  Spec => []PauseBoundsBuys
<1>1. Init => PauseInv
  BY DEF Init, PauseInv
<1>2. ExecInv /\ PauseInv /\ [Next]_vars => PauseInv'
  BY PauseInductive
<1>3. PauseInv => PauseBoundsBuys
  BY DEF PauseInv, PauseBoundsBuys
<1> QED
  BY <1>1, <1>2, <1>3, ExecInvariant, PTL DEF Spec

-----------------------------------------------------------------------------
\* While the halt is latched no entry is on its way to the broker whenever an
\* exit is planned or submitted: the cancellation of the entries came first.
HaltInv ==
    /\ halted /\ pc # "send_stop" =>
           \A o \in planned \cup ready \cup current : IsSell(o) => OutstandingBuys = {}
    /\ halted /\ pc \in {"lookup", "send"} => \A o \in current : IsSell(o)
    /\ pc = "plan" => ~halted
    /\ pc \in {"halt_plan", "halt_sync"} => OutstandingBuys = {}
    /\ pc = "await_buys" => \A id \in OutstandingBuys : Live(id)

\* Who changes the halt: a drawdown latches it, archiving the journal ends it.
LEMMA HaltMoves ==
    ASSUME TypeOK, [Next]_vars
    PROVE  \/ halted' = halted
           \/ Assess /\ halted'
           \/ \E o \in current : Revalidate(o) /\ pc' = "cancel_buys" /\ current' = current
                                   /\ ready' = ready /\ planned' = planned
           \/ ArchiveJournal
<1>1. CASE UNCHANGED journalVars
  BY <1>1 DEF journalVars
<1>2. CASE Assess \/ ArchiveJournal
  BY <1>2 DEF Assess, LatchHalt, journalVars
<1>3. CASE \E id \in OrderIds : SyncOrder(id) \/ FinishOrder(id) \/ CrashBetweenWrites(id)
  BY <1>3 DEF SyncOrder, SyncBrokerOrder, FinishOrder, FinishSync, CrashBetweenWrites,
              InterruptedSync
<1>4. CASE \E o \in planned : Filter(o)
  BY <1>4 DEF Filter, PrepareRetry, PrepareRiskExitRetry, DropDuplicate, KeepOrder, journalVars
<1>5. ASSUME NEW o \in current, SellsCanceled(o) \/ Reserve(o) \/ RecordSubmission(o)
      PROVE  halted' = halted
  BY <1>5 DEF SellsCanceled, ClearProtectiveOrder, Reserve, ReserveOrder, RecordSubmission, journalVars
<1>6. ASSUME NEW o \in current, SendStop(o) PROVE halted' = halted
  BY <1>6 DEF SendStop, MarkProtectiveOrder, journalVars
<1>7. ASSUME NEW o \in current, Revalidate(o)
      PROVE  halted' = halted \/ (pc' = "cancel_buys" /\ current' = current /\ ready' = ready
                                    /\ planned' = planned)
  BY <1>7 DEF Revalidate, journalVars
<1>8. ASSUME NEW s \in rows,
             \/ ChooseStop(s)
             \/ \E id \in seen[s] : KeepStop(s, id) \/ ReplaceStop(s, id)
      PROVE  halted' = halted
  BY <1>8 DEF ChooseStop, KeepStop, ReplaceStop, MarkProtectiveOrder, journalVars
<1> QED
  BY <1>1, <1>2, <1>3, <1>4, <1>5, <1>6, <1>7, <1>8, JournalSplit

\* An order is worked on in a step only if it was planned, or being submitted,
\* before the step, or is planned in it.
LEMMA WorkBefore ==
    ASSUME TypeOK, MemoryInv, BuyInv, [Next]_vars, pc' # "send_stop",
           NEW o \in planned' \cup ready' \cup current'
    PROVE  \/ pc \in {"plan", "halt_plan"} /\ Plan
           \/ pc # "send_stop" /\ \E p \in planned \cup ready \cup current : p.id[1] = o.id[1]
<1> DEFINE Before(r) == \E p \in planned \cup ready \cup current : p.id[1] = r.id[1]
<1>1. CASE Still
  <2>1. pc' = pc /\ planned' = planned /\ ready' = ready /\ current' = current
    BY <1>1 DEF Still, memoryVars
  <2> QED BY <2>1
<1>2. CASE Left
  BY <1>2 DEF Left, ResetMemory
<1>3. CASE Refused
  <2>1. planned' = planned /\ ready' = ready /\ current' = {} /\ pc # "send_stop"
    BY <1>3 DEF Refused, RefuseEntry
  <2> QED BY <2>1
<1>4. CASE Plans
  <2>1. CASE Plan
    BY <2>1 DEF Plan
  <2>2. ASSUME NEW p \in planned, Filter(p)
        PROVE  pc # "send_stop" /\ Before(o)
    <3>1. /\ planned' \subseteq planned /\ current' = current /\ pc = "filter"
          /\ \A r \in ready' : r \in ready \/ (r.id[1] = p.id[1])
      BY <2>2, FilteredOrders DEF Filter
    <3> QED BY <3>1
  <2>3. ASSUME NEW p \in planned, Overtaking(p)
        PROVE  pc # "send_stop" /\ Before(o)
    BY <2>3 DEF Overtaking, ArchiveJournal, Resetting
  <2>4. CASE Plans /\ ~Plan /\ ~\E p \in planned : Filter(p) \/ Overtaking(p)
    <3>1. /\ planned' = planned /\ ready' = ready /\ current' \subseteq current
          /\ pc # "send_stop"
      BY <2>4 DEF Plans, BeginCycle, SyncDone, Reconcile, Assess, CancelBuys, AbortCancellation,
                  RefuseEntry, BuysCanceled, HaltSynced, FilterDone, Leave, Left, memoryVars
    <3> QED BY <3>1
  <2> QED BY <1>4, <2>1, <2>2, <2>3, <2>4
<1>5. CASE Submits
  <2>1. ASSUME NEW p \in ready, BeginSell(p) \/ BeginBuy(p)
        PROVE  pc # "send_stop" /\ Before(o)
    BY <2>1 DEF BeginSell, BeginBuy
  <2>2. ASSUME NEW p \in current, SellsCanceled(p) \/ (Revalidate(p) /\ ~Refused)
        PROVE  pc # "send_stop" /\ Before(o)
    <3>1. p \in Orders /\ pc # "send_stop"
      BY <2>2 DEF SellsCanceled, Revalidate, MemoryInv
    <3>2. \A r \in current' : r.id = p.id
      BY <2>2, <3>1 DEF SellsCanceled, Revalidate, Refused, Orders, MemoryInv
    <3>3. planned' = planned /\ ready' = ready
      BY <2>2 DEF SellsCanceled, Revalidate, RefuseEntry
    <3> QED BY <3>1, <3>2, <3>3
  <2>3. CASE \/ \E p \in current : \/ Reserve(p) /\ pc' = "lookup"
                                   \/ Lookup(p) /\ ~Left
                                   \/ Send(p) /\ pc' = "record"
                                   \/ RecordSubmission(p)
             \/ BuyControl /\ pc' = "reserve"
    <3>1. /\ planned' = planned /\ ready' = ready /\ current' \subseteq current
          /\ pc # "send_stop"
      BY <2>3 DEF Reserve, RefuseEntry, Lookup, Left, Leave, Send, SendAccepted, SendUnanswered,
                  SendLost, SendDelayed, RecordSubmission, BuyControl, memoryVars
    <3> QED BY <3>1
  <2> QED BY <1>5, <2>1, <2>2, <2>3 DEF Submits
<1>6. CASE Protects
  <2>1. planned = {} /\ ready = {} /\ current' = {}
    <3>1. pc \in {"read_positions", "read_orders", "protect", "send_stop"}
      BY <1>6 DEF Protects, ReadPositions, ReadOpenOrders, ChooseStop, KeepStop, ReplaceStop, SendStop
    <3>2. planned = {} /\ ready = {} /\ (pc # "send_stop" => current = {})
      BY <3>1 DEF MemoryInv, Submitting, Canceling
    <3> QED BY <1>6, <3>2 DEF Protects, ReadPositions, ReadOpenOrders, ChooseStop, KeepStop,
                 ReplaceStop, SendStop, Visited, SendUnanswered, SendLost, SendDelayed, Leave, Left, ResetMemory
  <2>2. planned' = planned /\ ready' = ready
    <3>1. ASSUME NEW s \in rows,
                 \/ ChooseStop(s)
                 \/ \E id \in seen[s] : KeepStop(s, id) \/ ReplaceStop(s, id),
                 ~Left
          PROVE  planned' = planned /\ ready' = ready
      BY <3>1 DEF ChooseStop, KeepStop, ReplaceStop, Visited, Leave, Left
    <3>2. ASSUME NEW p \in current, SendStop(p), pc' = "protect"
          PROVE  planned' = planned /\ ready' = ready
      BY <3>2 DEF SendStop, SendUnanswered, SendLost, SendDelayed, Leave
    <3>3. CASE ReadPositions \/ ReadOpenOrders
      BY <3>3 DEF ReadPositions, ReadOpenOrders
    <3> QED BY <1>6, <3>1, <3>2, <3>3 DEF Protects
  <2> QED BY <2>1, <2>2
<1> QED
  BY StepSplit, <1>1, <1>2, <1>3, <1>4, <1>5, <1>6

\* Entries on their way only become fewer while the halt is latched, and in every
\* step that sends nothing.
LEMMA BuysShrink ==
    ASSUME ExecInv, HaltInv, halted \/ pc # "send", [Next]_vars
    PROVE  OutstandingBuys' \subseteq OutstandingBuys
<1> USE DEF ExecInv
<1> SUFFICES ASSUME NEW id \in OutstandingBuys' PROVE id \in OutstandingBuys
  OBVIOUS
<1>1. id \in ClientIds /\ SideOf(id) = "buy" /\ Outstanding(id)'
  BY DEF OutstandingBuys
<1>2. id \in OrderIds
  BY <1>1, IdParts
<1>3. Outstanding(id) \/ NewOrder(id)
  BY <1>1, <1>2, OrderMoves, OutstandingBefore
<1>4. CASE NewOrder(id)
  <2>1. pc = "send" /\ \E o \in current : o.id = id
    BY <1>1, <1>4 DEF NewOrder
  <2> QED BY <1>1, <2>1 DEF HaltInv, IsSell
<1> QED
  BY <1>1, <1>3, <1>4 DEF OutstandingBuys

\* How a step comes to the cancellation of entries, to a plan or to a request.
LEMMA HaltAhead ==
    ASSUME [Next]_vars, pc' \in Canceling \cup {"plan", "halt_plan", "lookup", "send"}
    PROVE  \/ pc' = pc /\ current' = current /\ UNCHANGED memoryVars
           \/ Assess
           \/ CancelBuys /\ pc' = "await_buys"
           \/ BuysCanceled
           \/ HaltSynced /\ pc' = "halt_plan"
           \/ \E o \in current : Revalidate(o) /\ pc' = "cancel_buys"
           \/ \E o \in current : Reserve(o) /\ pc' = "lookup" /\ current' = current
           \/ pc = "lookup" /\ pc' = "send" /\ current' = current
<1> USE DEF Canceling
<1>1. CASE Still
  BY <1>1 DEF Still, memoryVars
<1>2. CASE Left \/ Refused \/ Protects
  <2>1. pc' \notin Canceling \cup {"plan", "halt_plan", "lookup", "send"}
    BY <1>2 DEF Refused, RefuseEntry, Protects, ReadPositions, ReadOpenOrders, ChooseStop,
                KeepStop, ReplaceStop, Visited, Leave, Left
  <2> QED BY <2>1
<1>3. CASE Plans
  BY <1>3 DEF Plans, BeginCycle, SyncDone, Reconcile, HaltSynced, Filter, Overtaking,
              ArchiveJournal, Resetting, FilterDone, Leave, Left
<1>4. CASE Submits
  <2>1. CASE \/ \E o \in ready : BeginSell(o) \/ BeginBuy(o)
             \/ \E o \in current : \/ SellsCanceled(o)
                                   \/ Send(o) /\ pc' = "record"
                                   \/ RecordSubmission(o)
             \/ BuyControl /\ pc' = "reserve"
    <3>1. pc' \notin Canceling \cup {"plan", "halt_plan", "lookup", "send"}
      BY <2>1 DEF BeginSell, BeginBuy, SellsCanceled, RecordSubmission
    <3> QED BY <3>1
  <2>2. ASSUME NEW o \in current, Revalidate(o) /\ ~Refused PROVE pc' = "cancel_buys"
    BY <2>2 DEF Revalidate, Refused
  <2>3. ASSUME NEW o \in current, Reserve(o), pc' = "lookup" PROVE current' = current
    BY <2>3 DEF Reserve, RefuseEntry, memoryVars
  <2>4. ASSUME NEW o \in current, Lookup(o), ~Left
        PROVE  pc = "lookup" /\ pc' = "send" /\ current' = current
    BY <2>4 DEF Lookup, Left, Leave, memoryVars
  <2> QED BY <1>4, <2>1, <2>2, <2>3, <2>4 DEF Submits
<1> QED
  BY StepSplit, <1>1, <1>2, <1>3, <1>4

\* Once the cancellation is requested, no entry is still to arrive.
LEMMA CancellationSeesAll ==
    ASSUME NoStraggler, ExecInv, \A id \in UnresolvedBuys : Visible(id)
    PROVE  \A id \in OutstandingBuys : Live(id)
<1> SUFFICES ASSUME NEW id \in OutstandingBuys, ~Live(id) PROVE FALSE
  OBVIOUS
<1>1. id \in ClientIds /\ id \in OrderIds /\ SideOf(id) = "buy" /\ Outstanding(id)
  BY IdParts DEF OutstandingBuys
<1>2. Reserved(id)
  BY <1>1 DEF ExecInv, BrokerInv, KnownInv, NoStraggler, Outstanding
<1>3. orders[id].status \notin TerminalStatuses
  BY <1>1 DEF Outstanding, Live, InFlight, ActiveStatuses, TerminalStatuses, RetryableStatuses
<1>4. intents[id].status \notin TerminalStatuses
  BY <1>1, <1>2, <1>3 DEF ExecInv, JournalTrailsBroker, Tracked
<1>5. id \in UnresolvedBuys
  BY <1>1, <1>2, <1>4 DEF UnresolvedBuys
<1> QED
  BY <1>1, <1>5 DEF Outstanding, InFlight, Visible

\* The halt cancels the entries before it plans the exits.
LEMMA HaltInductive ==
    ASSUME NoStraggler, ExecInv, HaltInv, [Next]_vars
    PROVE  HaltInv'
<1> USE DEF ExecInv
<1>1. JournalTypeOK /\ MemoryInv /\ TypeOK /\ BuyInv
  BY DEF TypeOK
<1>2. ASSUME halted', ~halted
      PROVE  /\ pc' = "cancel_buys"
             /\ \A o \in planned' \cup ready' \cup current' : IsBuy(o)
  <2>1. CASE Assess
    <3>1. pc = "assess" /\ planned' = planned /\ ready' = ready /\ current' = current
      BY <2>1 DEF Assess
    <3>2. planned = {} /\ ready = {} /\ current = {}
      BY <3>1 DEF MemoryInv, Submitting, Canceling
    <3> QED BY <1>2, <2>1, <3>1, <3>2 DEF Assess
  <2>2. ASSUME NEW o \in current, Revalidate(o), pc' = "cancel_buys", current' = current,
               ready' = ready, planned' = planned
        PROVE  /\ pc' = "cancel_buys"
               /\ \A p \in planned' \cup ready' \cup current' : IsBuy(p)
    <3>1. pc = "revalidate"
      BY <2>2 DEF Revalidate
    <3>2. planned = {} /\ \A p \in ready \cup current : IsBuy(p)
      BY <3>1 DEF MemoryInv, Canceling
    <3> QED BY <2>2, <3>2
  <2>3. ~ArchiveJournal
    BY <1>2 DEF ArchiveJournal, ResetForAccount, InterruptedReset, journalVars
  <2> QED BY <1>2, <2>1, <2>2, <2>3, HaltMoves
<1>3. ASSUME halted', pc' # "send_stop", NEW o \in planned' \cup ready' \cup current', IsSell(o)
      PROVE  OutstandingBuys' = {}
  <2>1. halted
    BY <1>2, <1>3 DEF IsBuy, IsSell
  <2>2. CASE pc \in {"plan", "halt_plan"}
    BY <2>1, <2>2, BuysShrink DEF HaltInv
  <2>3. CASE pc # "send_stop" /\ \E p \in planned \cup ready \cup current : p.id[1] = o.id[1]
    <3>1. PICK p \in planned \cup ready \cup current : p.id[1] = o.id[1]
      BY <2>3
    <3>2. IsSell(p)
      BY <1>3, <3>1 DEF IsSell, SideOf
    <3> QED BY <2>1, <2>3, <3>2, BuysShrink DEF HaltInv
  <2> QED BY <1>1, <1>3, <2>2, <2>3, WorkBefore
<1>4. ASSUME halted', pc' \in {"lookup", "send"}, NEW o \in current'
      PROVE  IsSell(o)
  <2>1. halted
    BY <1>2, <1>4
  <2>2. CASE pc \in {"lookup", "send"} /\ current' = current
    BY <2>1, <2>2 DEF HaltInv
  <2>3. ASSUME NEW p \in current, Reserve(p), pc' = "lookup", current' = current
        PROVE  IsSell(o)
    <3>1. MayReserve(p)
      BY <2>3 DEF Reserve, RefuseEntry
    <3>2. o = p
      BY <2>3 DEF MemoryInv
    <3> QED BY <2>1, <3>1, <3>2 DEF MayReserve, IsSell, SideOf
  <2> QED BY <1>4, <2>2, <2>3, HaltAhead DEF Assess, CancelBuys, BuysCanceled, HaltSynced, Canceling
<1>5. ASSUME pc' \in {"halt_plan", "halt_sync"}
      PROVE  OutstandingBuys' = {}
  <2>1. pc \in {"halt_plan", "halt_sync"} \/ BuysCanceled
    BY <1>5, HaltAhead DEF Assess, HaltSynced, Canceling
  <2>2. CASE pc \in {"halt_plan", "halt_sync"}
    BY <2>2, BuysShrink DEF HaltInv
  <2>3. CASE BuysCanceled
    <3>1. pc = "await_buys" /\ OpenBuys = {}
      BY <2>3 DEF BuysCanceled
    <3>2. \A id \in OutstandingBuys : id \in OpenBuys
      <4>1. \A id \in OutstandingBuys : /\ Live(id) /\ SideOf(id) = "buy" /\ id \in OrderIds
                                        /\ SymbolOf(id) \in Symbols
        BY <3>1, IdParts DEF HaltInv, OutstandingBuys
      <4> QED BY <4>1 DEF OpenBuys, OpenOrders
    <3> QED BY <3>1, <3>2, BuysShrink
  <2> QED BY <2>1, <2>2, <2>3
<1>6. ASSUME pc' = "await_buys", NEW id \in OutstandingBuys'
      PROVE  Live(id)'
  <2>1. pc = "await_buys" \/ CancelBuys
    BY <1>6, HaltAhead DEF Assess, BuysCanceled, Canceling
  <2>2. pc \in {"await_buys", "cancel_buys"}
    BY <2>1 DEF CancelBuys
  <2>3. \A i \in OutstandingBuys : Live(i)
    <3>1. CASE CancelBuys
      <4>1. \A i \in UnresolvedBuys : Visible(i)
        BY <1>6, <3>1 DEF CancelBuys, AbortCancellation, RefuseEntry, Leave
      <4> QED BY <4>1, CancellationSeesAll
    <3> QED BY <2>1, <3>1 DEF HaltInv
  <2>4. id \in OutstandingBuys
    BY <1>6, <2>2, BuysShrink
  <2>5. id \in OrderIds /\ OrderMove(id)
    BY <2>4, IdParts, OrderMoves DEF OutstandingBuys
  <2>6. ~InFlight(id)
    BY <2>3, <2>4 DEF Live, InFlight, ActiveStatuses
  <2>7. ~NewOrder(id)
    BY <2>2, <2>4 DEF NewOrder, OutstandingBuys
  <2>8. ~InFlight(id)'
    BY <2>5, <2>6, <2>7, AbsentStays
  <2> QED BY <1>6, <2>8 DEF OutstandingBuys, Outstanding
<1>7. ASSUME pc' = "plan"
      PROVE  ~halted'
  <2>1. pc = "plan" \/ Assess
    BY <1>7, HaltAhead DEF BuysCanceled, Canceling
  <2>2. CASE pc = "plan"
    BY <1>2, <1>7, <2>2 DEF HaltInv
  <2>3. CASE Assess
    BY <1>7, <2>3 DEF Assess
  <2> QED BY <2>1, <2>2, <2>3
<1> QED
  BY <1>3, <1>4, <1>5, <1>6, <1>7 DEF HaltInv

\* No entry is sent while the halt is latched, and no exit while an entry could
\* still execute: the entries were canceled, the cancellation confirmed and the
\* journal synchronized before the exits were planned.
THEOREM HaltBlocksEntries ==
    ASSUME NoStraggler
    PROVE  Spec => HaltedSubmissions
<1> DEFINE Action == \A id \in ClientIds :
                         halted /\ ~Sent(id) /\ Sent(id)' => SideOf(id) = "sell" /\ OpenBuys = {}
<1>1. Init => HaltInv
  BY DEF Init, JournalInit, HaltInv, Canceling
<1>2. ExecInv /\ HaltInv /\ [Next]_vars => HaltInv'
  BY HaltInductive
<1>3. ASSUME ExecInv, HaltInv, [Next]_vars PROVE Action
  <2> SUFFICES ASSUME NEW id \in ClientIds, halted, ~Sent(id), Sent(id)'
               PROVE  SideOf(id) = "sell" /\ OpenBuys = {}
    OBVIOUS
  <2>1. id \in OrderIds /\ OrderMove(id)
    BY <1>3, IdParts, OrderMoves DEF ExecInv
  <2>2. NewOrder(id)
    BY <2>1, AbsentStays
  <2>3. PICK o \in current : o.id = id /\ pc = "send"
    BY <2>2 DEF NewOrder
  <2>4. IsSell(o)
    BY <1>3, <2>3 DEF HaltInv
  <2>5. OutstandingBuys = {}
    BY <1>3, <2>3, <2>4 DEF HaltInv
  <2>6. OpenBuys = {}
    <3>1. \A i \in OpenBuys : i \in ClientIds /\ SideOf(i) = "buy" /\ Live(i)
      BY StopParts DEF OpenBuys, OpenOrders, OrderIds
    <3> QED BY <2>5, <3>1 DEF OutstandingBuys, Outstanding
  <2> QED BY <2>3, <2>4, <2>6 DEF IsSell
<1> HIDE DEF Action
<1>4. Spec => [][Action]_vars
  BY <1>1, <1>2, <1>3, ExecInvariant, PTL DEF Spec
<1> QED
  BY <1>4 DEF HaltedSubmissions, Action

-----------------------------------------------------------------------------
\* The hypothesis of the cap: the journal is never archived, or between the
\* cycles, and the next synchronization sees every closed order.
CountsAll == NoReset \/ (NoLag /\ ResetsApart)

\* A synchronization finds the key of every order sent, even after a reset; an
\* entry in hand is counted, and so is every entry the broker has.
SentInv ==
    /\ \A id \in ClientIds : Sent(id) /\ SideOf(id) = "buy" => AttemptOf(id) = 1
    /\ pc \notin {"idle", "sync"} \/ NoReset =>
           \A id \in ClientIds : Sent(id) => id[1] \in submittedKeys
    /\ pc \in {"lookup", "send"} =>
           \A o \in current : IsBuy(o) => Cardinality(BuyKeys(today)) <= MaxDailyOrders

\* Only archiving the journal forgets a key.
LEMMA KeysGrow ==
    ASSUME [Next]_vars
    PROVE  ArchiveJournal \/ submittedKeys \subseteq submittedKeys'
<1> USE DEF RecordedKeys, SyncedKeys
<1>1. CASE UNCHANGED journalVars
  BY <1>1 DEF journalVars
<1>2. CASE Assess
  BY <1>2 DEF Assess, LatchHalt, journalVars
<1>3. CASE \E id \in OrderIds : SyncOrder(id) \/ FinishOrder(id) \/ CrashBetweenWrites(id)
  BY <1>3 DEF SyncOrder, SyncBrokerOrder, FinishOrder, FinishSync, CrashBetweenWrites,
              InterruptedSync
<1>4. CASE \E o \in planned : Filter(o)
  BY <1>4 DEF Filter, PrepareRetry, PrepareRiskExitRetry, DropDuplicate, KeepOrder, journalVars
<1>5. ASSUME NEW o \in current,
             SellsCanceled(o) \/ Reserve(o) \/ RecordSubmission(o) \/ Revalidate(o)
      PROVE  submittedKeys \subseteq submittedKeys'
  BY <1>5 DEF SellsCanceled, ClearProtectiveOrder, Reserve, ReserveOrder, RecordSubmission,
              Revalidate, LatchHalt, journalVars
<1>6. ASSUME NEW o \in current, SendStop(o) PROVE submittedKeys' = submittedKeys
  BY <1>6 DEF SendStop, MarkProtectiveOrder, journalVars
<1>7. ASSUME NEW s \in rows,
             \/ ChooseStop(s)
             \/ \E id \in seen[s] : KeepStop(s, id) \/ ReplaceStop(s, id)
      PROVE  submittedKeys' = submittedKeys
  BY <1>7 DEF ChooseStop, KeepStop, ReplaceStop, MarkProtectiveOrder, journalVars
<1> QED
  BY <1>1, <1>2, <1>3, <1>4, <1>5, <1>6, <1>7, JournalSplit

\* An entry has one attempt, and its key is counted.
LEMMA BuyIsFirstAttempt ==
    ASSUME ExecInv, NEW id \in ClientIds, Reserved(id), SideOf(id) = "buy"
    PROVE  AttemptOf(id) = 1 /\ id[1] \in submittedKeys
<1>1. /\ id[1] \in Keys /\ AttemptOf(id) \in 1..MaxExitAttempts
      /\ id = Attempt(id[1], AttemptOf(id)) /\ id[1][3] = "buy"
  BY IdParts
<1>2. id[1] \in submittedKeys
  BY DEF ExecInv, CapInv, IntentsHaveKeys
<1>3. AttemptOf(id) \notin 2..MaxExitAttempts
  BY <1>1 DEF ExecInv, ChainInv, ExitChain
<1> QED
  BY <1>1, <1>2, <1>3 DEF MaxExitAttempts

\* A new order of the operator is the one in hand, whose intent is journalled.
LEMMA SentBefore ==
    ASSUME Undisturbed, ExecInv, [Next]_vars, NEW id \in ClientIds, Sent(id)'
    PROVE  Sent(id) \/ (pc = "send" /\ Reserved(id) /\ \E o \in current : o.id = id)
<1>1. id \in OrderIds /\ OrderMove(id)
  BY IdParts, OrderMoves DEF ExecInv
<1>2. CASE NewOrder(id)
  BY <1>2 DEF NewOrder, ExecInv, KnownInv
<1>3. CASE ~NewOrder(id)
  BY <1>1, <1>3, AbsentStays
<1> QED
  BY <1>2, <1>3

\* A completed synchronization has journalled the key of every order sent.
LEMMA SyncFindsKeys ==
    ASSUME Undisturbed, ExecInv, NoLag, AllSynced, NEW id \in ClientIds, Sent(id)
    PROVE  id[1] \in submittedKeys
<1>1. id \in OrderIds /\ id[1] = <<DayOf(id), SymbolOf(id), SideOf(id)>>
  BY DEF ClientIds, Keys, Sides, OrderIds, DayOf, SymbolOf, SideOf
<1>2. CASE InFlight(id)
  <2>1. Reserved(id)
    BY <1>2 DEF ExecInv, KnownInv, Outstanding
  <2> QED BY <2>1 DEF ExecInv, CapInv, IntentsHaveKeys
<1>3. CASE ~InFlight(id)
  <2>1. Visible(id)
    BY <1>3 DEF Visible, Sent, InFlight
  <2>2. SyncedKeys(RemoteReport(id)) \subseteq submittedKeys
    BY <1>1, <2>1 DEF AllSynced, MustSync, NoLag, Synced
  <2>3. orders[id].submitted = DayOf(id)
    BY <1>1 DEF ExecInv, BrokerInv
  <2>4. DatedKey(DayOf(id), id) \in submittedKeys
    BY <2>2, <2>3 DEF SyncedKeys, RemoteReport
  <2> QED BY <1>1, <2>4 DEF DatedKey
<1> QED
  BY <1>2, <1>3

\* A cycle leaves the synchronization when everything is journalled.
LEMMA SyncLeft ==
    ASSUME Undisturbed, RestInv, [Next]_vars,
           pc \in {"idle", "sync"}, pc' \notin {"idle", "sync"}
    PROVE  AllSynced
<1>1. CASE Still \/ Left \/ Refused \/ Submits \/ Protects
  <2>1. ~(Still \/ Left \/ Refused)
    BY DEF Still, Left, Refused
  <2>2. ~Submits
    BY DEF Submits, BeginSell, BeginBuy, SellsCanceled, Revalidate, Reserve, Lookup, Send,
           RecordSubmission, BuyControl
  <2>3. ~Protects
    BY DEF Protects, ReadPositions, ReadOpenOrders, ChooseStop, KeepStop, ReplaceStop, SendStop
  <2> QED BY <1>1, <2>1, <2>2, <2>3
<1>2. CASE Plans
  <2>1. SyncDone
    BY <1>2 DEF Plans, BeginCycle, Reconcile, Assess, CancelBuys, BuysCanceled, HaltSynced,
                Plan, Filter, Overtaking, FilterDone
  <2>2. archived = "no"
    BY DEF RestInv
  <2> QED BY <2>1, <2>2 DEF SyncDone, VisitsDone
<1> QED
  BY StepSplit, <1>1, <1>2

\* What reached the broker is counted before an entry is submitted.
LEMMA SentInductive ==
    ASSUME CountsAll, ExecInv, SentInv, [Next]_vars
    PROVE  SentInv'
<1>1. TypeOK /\ JournalTypeOK /\ MemoryInv /\ RestInv /\ Undisturbed
  BY DEF ExecInv, TypeOK, CountsAll, Undisturbed
<1>2. ASSUME NEW id \in ClientIds, Sent(id)', SideOf(id) = "buy" PROVE AttemptOf(id) = 1
  BY <1>1, <1>2, SentBefore, BuyIsFirstAttempt DEF SentInv
<1>3. ASSUME NEW id \in ClientIds, Sent(id)', pc' \notin {"idle", "sync"} \/ NoReset
      PROVE  id[1] \in submittedKeys'
  <2>1. CASE ArchiveJournal
    BY <1>1, <1>3, <2>1 DEF ArchiveJournal, Resetting, RestInv, NoReset
  <2>2. CASE ~ArchiveJournal
    <3>1. submittedKeys \subseteq submittedKeys'
      BY <2>2, KeysGrow
    <3>2. CASE Sent(id)
      <4>1. CASE pc \notin {"idle", "sync"} \/ NoReset
        BY <3>1, <3>2, <4>1 DEF SentInv
      <4>2. CASE pc \in {"idle", "sync"} /\ ~NoReset
        <5>1. AllSynced
          BY <1>1, <1>3, <4>2, SyncLeft
        <5> QED BY <1>1, <3>1, <3>2, <4>2, <5>1, SyncFindsKeys DEF CountsAll
      <4> QED BY <4>1, <4>2
    <3>3. CASE ~Sent(id)
      <4>1. Reserved(id)
        BY <1>1, <1>3, <3>3, SentBefore
      <4> QED BY <3>1, <4>1 DEF ExecInv, CapInv, IntentsHaveKeys
    <3> QED BY <3>2, <3>3
  <2> QED BY <2>1, <2>2
<1>4. ASSUME pc' \in {"lookup", "send"}, NEW o \in current', IsBuy(o)
      PROVE  Cardinality(BuyKeys(today))' <= MaxDailyOrders
  <2>1. today' = today
    <3>1. pc # "idle"
      BY <1>4, HaltAhead DEF Assess, CancelBuys, BuysCanceled, HaltSynced, Revalidate, Reserve, Canceling
    <3> QED BY <1>1, <3>1, Frame
  <2>2. CASE pc \in {"lookup", "send"} /\ current' = current
    <3>1. submittedKeys' = submittedKeys
      BY <1>1, <1>4, <2>2, JournalSplit DEF journalVars, SyncOrder, FinishOrder,
           CrashBetweenWrites, Leave, ArchiveJournal, Resetting, RestInv, Assess, Filter, SellsCanceled, Revalidate, Reserve, RecordSubmission, SendStop,
           ChooseStop, KeepStop, ReplaceStop
    <3>2. BuyKeys(today)' = BuyKeys(today)
      BY <2>1, <3>1 DEF BuyKeys
    <3> QED BY <1>4, <2>2, <3>2 DEF SentInv
  <2>3. ASSUME NEW p \in current, Reserve(p), pc' = "lookup", current' = current
        PROVE  Cardinality(BuyKeys(today))' <= MaxDailyOrders
    <3>1. o = p /\ o \in Orders /\ o.id[1][1] = today
      BY <1>4, <2>3 DEF ExecInv, MemoryInv, Reserve
    <3>2. ReserveOrder(o)
      BY <2>3, <3>1 DEF Reserve, RefuseEntry
    <3>3. /\ Cardinality(BuyKeys(today)) < MaxDailyOrders
          /\ submittedKeys' = submittedKeys \cup {o.id[1]}
      BY <1>4, <3>1, <3>2 DEF ReserveOrder, MayReserve, IsBuy, DayOf
    <3>4. BuyKeys(today)' \subseteq BuyKeys(today) \cup {o.id[1]}
      BY <2>1, <3>3 DEF BuyKeys
    <3>5. IsFiniteSet(BuyKeys(today))
      BY <1>1, BuyKeysFinite
    <3> DEFINE more == BuyKeys(today) \cup {o.id[1]}
    <3>6. Cardinality(BuyKeys(today)) \in Nat /\ MaxDailyOrders \in Nat
      BY <3>5, FS_CardinalityType, JournalAssumption DEF JournalAssumption
    <3>7. IsFiniteSet(more) /\ Cardinality(more) <= Cardinality(BuyKeys(today)) + 1
      BY <3>5, <3>6, FS_AddElement
    <3>8. Cardinality(more) \in Nat /\ Cardinality(BuyKeys(today)') <= Cardinality(more)
          /\ Cardinality(BuyKeys(today)') \in Nat
      BY <3>4, <3>7, FS_Subset, FS_CardinalityType
    <3> QED BY <3>3, <3>7, <3>8, <3>6
  <2> QED BY <1>4, <2>2, <2>3, HaltAhead DEF Assess, CancelBuys, BuysCanceled, HaltSynced, Canceling
<1> QED
  BY <1>2, <1>3, <1>4 DEF SentInv

\* The entries of a date at the broker.
SentBuys(d) == {id \in ClientIds : DayOf(id) = d /\ SideOf(id) = "buy" /\ Sent(id)}

\* The entries of one date are finitely many, one for a symbol.
LEMMA SentBuysFinite ==
    ASSUME SentInv, NEW d
    PROVE  IsFiniteSet(SentBuys(d))
<1> DEFINE firsts == {Attempt(<<d, s, "buy">>, 1) : s \in Symbols}
           f      == [s \in Symbols |-> Attempt(<<d, s, "buy">>, 1)]
<1>1. IsFiniteSet(Symbols) /\ f \in Surjection(Symbols, firsts)
  BY JournalAssumption DEF JournalAssumption, Surjection
<1>2. IsFiniteSet(firsts)
  BY <1>1, FS_Surjection
<1>3. ASSUME NEW id \in SentBuys(d) PROVE id \in firsts
  <2>1. /\ id \in ClientIds /\ DayOf(id) = d /\ SideOf(id) = "buy" /\ AttemptOf(id) = 1
    BY <1>3 DEF SentBuys, SentInv
  <2>2. id = Attempt(<<d, SymbolOf(id), "buy">>, 1) /\ SymbolOf(id) \in Symbols
    BY <2>1 DEF ClientIds, Keys, Sides, Attempt, AttemptOf, DayOf, SymbolOf, SideOf
  <2> QED BY <2>2
<1> QED
  BY <1>2, <1>3, FS_Subset

\* A request adds one entry at most, of the current date and already counted.
LEMMA CapAtBrokerInductive ==
    ASSUME Undisturbed, ExecInv, SentInv, SentInv', EntryCapAtBroker, [Next]_vars
    PROVE  EntryCapAtBroker'
<1> SUFFICES ASSUME NEW d \in Days PROVE Cardinality(SentBuys(d)') <= MaxDailyOrders
  BY DEF EntryCapAtBroker, SentBuys
<1>1. JournalTypeOK /\ MaxDailyOrders \in Nat
  BY JournalAssumption DEF JournalAssumption, ExecInv, TypeOK
<1>2. CASE SentBuys(d)' \subseteq SentBuys(d)
  <2>1. IsFiniteSet(SentBuys(d)) /\ Cardinality(SentBuys(d)) <= MaxDailyOrders
    BY SentBuysFinite DEF EntryCapAtBroker, SentBuys
  <2>2. /\ Cardinality(SentBuys(d)) \in Nat /\ Cardinality(SentBuys(d)') \in Nat
        /\ Cardinality(SentBuys(d)') <= Cardinality(SentBuys(d))
    BY <1>2, <2>1, FS_Subset, FS_CardinalityType
  <2> QED BY <1>1, <2>1, <2>2
<1>3. ASSUME NEW id \in SentBuys(d)', id \notin SentBuys(d)
      PROVE  Cardinality(SentBuys(d)') <= MaxDailyOrders
  <2>1. id \in ClientIds /\ DayOf(id) = d /\ SideOf(id) = "buy" /\ Sent(id)' /\ ~Sent(id)
    BY <1>3 DEF SentBuys
  <2>2. PICK o \in current : pc = "send" /\ o.id = id
    BY <2>1, SentBefore
  <2>3. IsBuy(o) /\ d = today
    BY <2>1, <2>2 DEF IsBuy, DayOf, ExecInv, MemoryInv
  <2>4. Cardinality(BuyKeys(today)) <= MaxDailyOrders
    BY <2>2, <2>3 DEF SentInv
  <2> DEFINE keys   == BuyKeys(today)
             firsts == {Attempt(k, 1) : k \in keys}
             f      == [k \in keys |-> Attempt(k, 1)]
  <2>5. IsFiniteSet(keys)
    BY <1>1, BuyKeysFinite
  <2>6. f \in Surjection(keys, firsts)
    BY DEF Surjection
  <2> HIDE DEF keys, f
  <2>7. IsFiniteSet(firsts) /\ Cardinality(firsts) <= Cardinality(keys)
    BY <2>5, <2>6, FS_Surjection
  <2>8. ASSUME NEW c \in SentBuys(d)' PROVE c \in firsts
    <3>1. c \in ClientIds /\ DayOf(c) = today /\ SideOf(c) = "buy" /\ Sent(c)'
      BY <2>3, <2>8 DEF SentBuys
    <3>2. AttemptOf(c) = 1
      BY <3>1 DEF SentInv
    <3>3. c[1] \in submittedKeys
      <4>1. CASE Sent(c)
        BY <2>2, <3>1, <4>1 DEF SentInv
      <4>2. CASE ~Sent(c)
        BY <3>1, <4>2, SentBefore DEF ExecInv, CapInv, IntentsHaveKeys
      <4> QED BY <4>1, <4>2
    <3>4. c[1] \in keys /\ c = Attempt(c[1], 1)
      BY <3>1, <3>2, <3>3, IdParts DEF keys, BuyKeys
    <3> QED BY <3>4
  <2>9. /\ Cardinality(firsts) \in Nat /\ Cardinality(keys) \in Nat
        /\ Cardinality(SentBuys(d)') \in Nat
        /\ Cardinality(SentBuys(d)') <= Cardinality(firsts)
    BY <2>5, <2>7, <2>8, FS_Subset, FS_CardinalityType
  <2> QED BY <1>1, <2>4, <2>7, <2>9 DEF keys
<1> QED
  BY <1>2, <1>3

\* The broker never receives more entries of a date than the cap, for any
\* cap and any number of symbols, through crashes, lost and late requests; when
\* the journal may be archived, provided nobody does so while a cycle or a
\* request is on its way and the broker's list of closed orders is complete when
\* it is read. Archived within a cycle, after the synchronization of today's
\* ended entry and before the BUY keys are counted, the journal lets a second
\* entry of the date pass.
THEOREM EntryCapHolds ==
    ASSUME CountsAll
    PROVE  Spec => []EntryCapAtBroker
<1>1. Init => SentInv /\ EntryCapAtBroker
  <2> SUFFICES ASSUME Init PROVE SentInv /\ EntryCapAtBroker
    OBVIOUS
  <2>1. \A id \in ClientIds : ~Sent(id)
    BY IdParts DEF Init, Sent, NoRemote
  <2>2. \A d : SentBuys(d) = {}
    BY <2>1 DEF SentBuys
  <2>3. EntryCapAtBroker
    BY <2>2, FS_EmptySet, JournalAssumption DEF EntryCapAtBroker, SentBuys, JournalAssumption
  <2> QED BY <2>1, <2>3 DEF SentInv, Init
<1>2. Undisturbed /\ NoStraggler
  BY DEF CountsAll, Undisturbed, NoStraggler
<1>3. ExecInv /\ SentInv /\ EntryCapAtBroker /\ [Next]_vars => (SentInv /\ EntryCapAtBroker)'
  BY <1>2, SentInductive, CapAtBrokerInductive
<1> QED
  BY <1>1, <1>2, <1>3, ExecInvariant, PTL DEF Spec

-----------------------------------------------------------------------------
\* What is left of the first attempt: a retry is journalled or authorized for
\* no more than the attempt before it left unsold when it ended.
LeftInv ==
    /\ \A id \in ClientIds : Sent(id) =>
           Reserved(id) /\ orders[id].quantity = intents[id].quantity
    /\ \A key \in Keys, n \in 1..(MaxExitAttempts - 1) :
           /\ Reserved(Attempt(key, n + 1)) =>
                  intents[Attempt(key, n + 1)].quantity
                      <= intents[Attempt(key, n)].quantity - orders[Attempt(key, n)].filled
           /\ authorized[Attempt(key, n + 1)] > 0 =>
                  /\ orders[Attempt(key, n)].status = "canceled"
                  /\ authorized[Attempt(key, n + 1)]
                         <= intents[Attempt(key, n)].quantity - orders[Attempt(key, n)].filled
    /\ pc \in {"lookup", "send"} => \A o \in current : intents[o.id].quantity = o.quantity

\* A canceled order executes no more.
LEMMA CanceledIsFinal ==
    ASSUME NEW id \in OrderIds, OrderMove(id), orders[id].status = "canceled"
    PROVE  orders'[id] = orders[id]
  BY DEF OrderMove, GrownOrder, StatusOnly, NewOrder, NewQuantity, ReplaceableStop, Visible,
         Live, InFlight, ActiveStatuses

\* An attempt and the one that follows it.
LEMMA AttemptPair ==
    ASSUME NEW key \in Keys, NEW n \in 1..(MaxExitAttempts - 1)
    PROVE  /\ n \in 1..MaxExitAttempts /\ n + 1 \in 2..MaxExitAttempts /\ n + 1 \in 1..MaxExitAttempts
           /\ Attempt(key, n) \in ClientIds /\ Attempt(key, n) \in OrderIds
           /\ Attempt(key, n + 1) \in ClientIds
           /\ Attempt(key, n + 1)[1] = key /\ AttemptOf(Attempt(key, n + 1)) = n + 1
           /\ PreviousAttempt(Attempt(key, n + 1)) = Attempt(key, n)
           /\ n + 1 > 1 /\ n + 1 - 1 = n
<1>1. n \in 1..MaxExitAttempts /\ n + 1 \in 2..MaxExitAttempts /\ n + 1 \in 1..MaxExitAttempts
      /\ n + 1 > 1 /\ n + 1 - 1 = n
  BY DEF MaxExitAttempts
<1> QED BY <1>1, IdParts DEF PreviousAttempt

\* A retry asks for no more than its predecessor left unexecuted.
LEMMA LeftInductive ==
    ASSUME NoReset, ExecInv, RetryAfterDeadAttempt, LeftInv, [Next]_vars
    PROVE  LeftInv'
<1> USE DEF ExecInv
<1>1. /\ JournalTypeOK /\ JournalTypeOK' /\ ~ArchiveJournal /\ Undisturbed
      /\ \A id \in OrderIds : OrderMove(id)
  BY JournalImplemented, TypeInductive, OrderMoves
     DEF TypeOK, NoReset, Undisturbed, ArchiveJournal, Resetting
<1>2. \A c \in ClientIds : Reserved(c) =>
          Reserved(c)' /\ intents'[c].quantity = intents[c].quantity
  BY <1>1, IntentsStay
<1>3. ASSUME NEW id \in ClientIds, Sent(id)'
      PROVE  Reserved(id)' /\ orders'[id].quantity = intents'[id].quantity
  <2>1. id \in OrderIds /\ id \notin StopIds
    BY IdParts, StopParts
  <2>2. CASE Sent(id)
    <3>1. orders'[id].quantity = orders[id].quantity
      BY <1>1, <2>1, <2>2 DEF OrderMove, GrownOrder, StatusOnly, NewOrder, NewQuantity, ReplaceableStop
    <3> QED BY <1>2, <2>2, <3>1 DEF LeftInv
  <2>3. CASE ~Sent(id)
    <3>1. NewOrder(id)
      BY <1>1, <1>3, <2>1, <2>3, AbsentStays
    <3>2. PICK o \in current : pc = "send" /\ o.id = id /\ orders'[id].quantity = o.quantity
      BY <3>1 DEF NewOrder
    <3> QED BY <1>1, <1>2, <3>2 DEF LeftInv, KnownInv
  <2> QED BY <2>2, <2>3
<1>4. ASSUME NEW key \in Keys, NEW n \in 1..(MaxExitAttempts - 1)
      PROVE  /\ Reserved(Attempt(key, n + 1))' =>
                    intents'[Attempt(key, n + 1)].quantity
                        <= intents'[Attempt(key, n)].quantity - orders'[Attempt(key, n)].filled
             /\ authorized'[Attempt(key, n + 1)] > 0 =>
                    /\ orders'[Attempt(key, n)].status = "canceled"
                    /\ authorized'[Attempt(key, n + 1)]
                           <= intents'[Attempt(key, n)].quantity - orders'[Attempt(key, n)].filled
  <2> DEFINE id == Attempt(key, n)
             next == Attempt(key, n + 1)
  <2>1. /\ id \in ClientIds /\ id \in OrderIds /\ next \in ClientIds
        /\ n \in 1..MaxExitAttempts /\ n + 1 \in 2..MaxExitAttempts /\ n + 1 \in 1..MaxExitAttempts
        /\ next[1] = key /\ AttemptOf(next) = n + 1 /\ PreviousAttempt(next) = id
        /\ n + 1 > 1 /\ n + 1 - 1 = n
    BY AttemptPair
  <2>2. ASSUME orders[id].status = "canceled" PROVE orders'[id] = orders[id]
    BY <1>1, <2>1, <2>2, CanceledIsFinal
  <2>3. authorized[next] \in Nat /\ authorized'[next] \in Nat
    BY <1>1, <2>1, ZeroQuantity DEF JournalTypeOK, Quantities
  <2>4. ASSUME Reserved(next)
        PROVE  intents'[next].quantity <= intents'[id].quantity - orders'[id].filled
    <3>1. Reserved(id)
      BY <2>1, <2>4 DEF ChainInv, ExitChain
    <3>2. orders[id].status = "canceled"
      BY <2>1, <2>4 DEF RetryAfterDeadAttempt
    <3>3. intents[next].quantity <= intents[id].quantity - orders[id].filled
      BY <2>4 DEF LeftInv
    <3> QED BY <1>2, <2>1, <2>2, <2>4, <3>1, <3>2, <3>3
  <2>5. ASSUME authorized[next] > 0
        PROVE  /\ orders'[id] = orders[id] /\ orders[id].status = "canceled"
               /\ Reserved(id) /\ intents'[id].quantity = intents[id].quantity
               /\ authorized[next] <= intents'[id].quantity - orders'[id].filled
    <3>1. Reserved(id)
      BY <2>1, <2>5 DEF ChainInv, AuthorizationSound
    <3>2. /\ orders[id].status = "canceled"
          /\ authorized[next] <= intents[id].quantity - orders[id].filled
      BY <2>5 DEF LeftInv
    <3> QED BY <1>2, <2>1, <2>2, <3>1, <3>2
  <2>6. CASE ResetForAccount
    BY <2>1, <2>6 DEF ResetForAccount, Reserved, NoIntent
  <2>7. ASSUME NEW o \in Orders, o.id = next, ReserveOrder(o)
        PROVE  /\ intents'[next].quantity <= intents'[id].quantity - orders'[id].filled
               /\ authorized'[next] = 0
    <3>1. authorized[next] > 0 /\ o.quantity <= authorized[next]
      BY <2>1, <2>3, <2>7 DEF ReserveOrder, MayReserve, RetryAdmissible, FreshAdmissible
    <3>2. intents'[next].quantity = o.quantity /\ authorized'[next] = 0
      BY <1>1, <2>1, <2>7 DEF ReserveOrder, JournalTypeOK
    <3>3. /\ o.quantity \in Int /\ authorized[next] \in Int
          /\ intents'[id].quantity \in Int /\ orders'[id].filled \in Int
      <4>1. orders'[id].filled \in Quantities
        BY <2>1, <2>5, <3>1 DEF TypeOK
      <4> QED BY <1>1, <2>1, <2>3, <4>1, ZeroQuantity DEF JournalTypeOK, Quantities, Orders
    <3> QED BY <2>5, <3>1, <3>2, <3>3
  <2>8. ASSUME NEW o \in Orders, NEW m \in 1..MaxExitAttempts, NEW r \in ReportsNow,
               next = Attempt(o.id[1], m + 1),
               PrepareRiskExitRetry(o.id[1], m, o.quantity, r)
        PROVE  /\ orders'[id].status = "canceled"
               /\ authorized'[next] <= intents'[id].quantity - orders'[id].filled
    <3>1. o.id[1] = key /\ m = n
      BY <2>1, <2>8 DEF Attempt
    <3>2. PICK i \in OrderIds : r = RemoteReport(i)
      BY DEF ReportsNow
    <3>3. i = id /\ r.id = id
      BY <2>8, <3>1, <3>2 DEF PrepareRiskExitRetry, RemoteReport
    <3>4. /\ r.quantity = intents[id].quantity
          /\ r.status = orders[id].status /\ r.filled = orders[id].filled
          /\ r.status \in RetryableStatuses
      BY <2>8, <3>2, <3>3 DEF PrepareRiskExitRetry, RemoteReport
    <3>5. orders[id].status = "canceled"
      BY <2>1, <3>4 DEF TypeOK, RetryableStatuses, ActiveStatuses
    <3>6. Reserved(id)
      BY <2>1, <2>8, <3>1 DEF PrepareRiskExitRetry, IsLatestAttempt
    <3>7. authorized'[next] = Authorized(o.quantity, r)
      BY <1>1, <2>1, <2>8, <3>1 DEF PrepareRiskExitRetry, JournalTypeOK
    <3>8. r.quantity \in Int /\ r.filled \in Int /\ o.quantity \in Int
      BY <2>1, <3>2, <3>3, <3>4, ZeroQuantity DEF TypeOK, RemoteReport, Quantities, Orders
    <3>9. Authorized(o.quantity, r) <= r.quantity - r.filled
      BY <3>8 DEF Authorized, Remaining
    <3> QED BY <1>2, <2>1, <2>2, <3>4, <3>5, <3>6, <3>7, <3>9
  <2> HIDE DEF id, next
  <2>9. CASE \E o \in Orders : o.id = next /\ ReserveOrder(o)
    BY <2>3, <2>7, <2>9 DEF id, next
  <2>10. CASE /\ Reserved(next)' <=> Reserved(next)
              /\ intents'[next].quantity = intents[next].quantity
              /\ \/ authorized'[next] = authorized[next]
                 \/ \E o \in Orders, m \in 1..MaxExitAttempts, r \in ReportsNow :
                        /\ next = Attempt(o.id[1], m + 1)
                        /\ PrepareRiskExitRetry(o.id[1], m, o.quantity, r)
    BY <2>4, <2>5, <2>8, <2>10 DEF id, next
  <2> QED BY <2>1, <2>6, <2>9, <2>10, IntentMoves DEF id, next
<1>5. ASSUME pc' \in {"lookup", "send"}, NEW o \in current'
      PROVE  intents'[o.id].quantity = o.quantity
  <2>1. CASE pc \in {"lookup", "send"} /\ current' = current
    BY <1>1, <1>2, <2>1, CurrentIds DEF LeftInv, KnownInv, MemoryInv, Orders
  <2>2. ASSUME NEW p \in current, Reserve(p), pc' = "lookup", current' = current
        PROVE  intents'[o.id].quantity = o.quantity
    <3>1. o = p /\ o \in Orders
      BY <2>2 DEF MemoryInv, Reserve
    <3>2. ReserveOrder(o)
      BY <2>2, <3>1 DEF Reserve, RefuseEntry
    <3> QED BY <1>1, <3>1, <3>2 DEF ReserveOrder, JournalTypeOK, Orders
  <2> QED BY <1>5, <2>1, <2>2, HaltAhead DEF Assess, CancelBuys, BuysCanceled, HaltSynced, Canceling
<1> QED
  BY <1>3, <1>4, <1>5 DEF LeftInv

\* The element that a sum over a set takes next, and the recursive function by
\* which the library defines the sum of the executions of a set of orders.
Pick(s) == CHOOSE x \in s : TRUE

FilledStep(S, iter) ==
    [s \in SUBSET S |-> IF s = {} THEN 0 ELSE orders[Pick(s)].filled + iter[s \ {Pick(s)}]]

FilledTotal(S) == (CHOOSE iter : iter = FilledStep(S, iter))[S]

FilledBy(a, b, c) == orders[a].filled + orders[b].filled + orders[c].filled

\* Such a function exists for three orders, so the chosen one is one.
LEMMA FilledOfThree ==
    ASSUME NEW S, NEW a, NEW b, NEW c, S = {a, b, c}, a # b, a # c, b # c,
           orders[a].filled \in Int, orders[b].filled \in Int, orders[c].filled \in Int
    PROVE  FilledTotal(S) = FilledBy(a, b, c)
<1> DEFINE fold == CHOOSE iter : iter = FilledStep(S, iter)
           V(s) == (IF a \in s THEN orders[a].filled ELSE 0)
                     + (IF b \in s THEN orders[b].filled ELSE 0)
                     + (IF c \in s THEN orders[c].filled ELSE 0)
           W == [s \in SUBSET S |-> V(s)]
<1>1. \A s \in SUBSET S : s # {} => Pick(s) \in s
  BY DEF Pick
<1>2. W = FilledStep(S, W)
  <2>1. ASSUME NEW s \in SUBSET S, s # {}
        PROVE  V(s) = orders[Pick(s)].filled + W[s \ {Pick(s)}]
    <3>1. Pick(s) \in s /\ s \ {Pick(s)} \in SUBSET S
      BY <1>1, <2>1
    <3>2. W[s \ {Pick(s)}] = V(s \ {Pick(s)})
      BY <3>1
    <3> HIDE DEF W
    <3>3. Pick(s) \in {a, b, c}
      BY <3>1
    <3>4. CASE Pick(s) = a
      BY <3>1, <3>2, <3>4
    <3>5. CASE Pick(s) = b
      BY <3>1, <3>2, <3>5
    <3>6. CASE Pick(s) = c
      BY <3>1, <3>2, <3>6
    <3> QED BY <3>3, <3>4, <3>5, <3>6
  <2>2. V({}) = 0
    OBVIOUS
  <2> HIDE DEF V
  <2> QED BY <2>1, <2>2 DEF FilledStep
<1> HIDE DEF W
<1>3. fold = FilledStep(S, fold)
  BY <1>2
<1>4. FilledTotal(S) = fold[S]
  BY DEF FilledTotal
<1> HIDE DEF fold
<1>5. \A s \in SUBSET S : fold[s] = IF s = {} THEN 0
                                    ELSE orders[Pick(s)].filled + fold[s \ {Pick(s)}]
  BY <1>3 DEF FilledStep
<1>6. fold[{}] = 0
  BY <1>5
<1>7. ASSUME NEW x \in S PROVE fold[{x}] = orders[x].filled
  <2>1. Pick({x}) = x /\ {x} \ {x} = {} /\ {x} \in SUBSET S /\ {x} # {}
    BY DEF Pick
  <2>2. fold[{x}] = orders[x].filled + fold[{}]
    BY <1>5, <2>1
  <2>3. orders[x].filled \in Int
    OBVIOUS
  <2> QED BY <1>6, <2>2, <2>3
<1>8. ASSUME NEW x \in S, NEW y \in S, x # y
      PROVE  fold[{x, y}] = orders[x].filled + orders[y].filled
  <2>1. /\ Pick({x, y}) \in {x, y} /\ {x, y} \ {x} = {y} /\ {x, y} \ {y} = {x}
        /\ {x, y} \in SUBSET S /\ {x, y} # {}
    BY <1>1, <1>8
  <2>2. fold[{x, y}] = orders[Pick({x, y})].filled + fold[{x, y} \ {Pick({x, y})}]
    BY <1>5, <2>1
  <2>3. /\ orders[x].filled \in Int /\ orders[y].filled \in Int
        /\ fold[{x}] = orders[x].filled /\ fold[{y}] = orders[y].filled
    BY <1>7
  <2>4. CASE Pick({x, y}) = x
    BY <2>1, <2>2, <2>3, <2>4
  <2>5. CASE Pick({x, y}) = y
    <3>1. fold[{x, y}] = orders[y].filled + fold[{x}]
      BY <2>1, <2>2, <2>5
    <3>2. fold[{x, y}] = orders[y].filled + orders[x].filled
      BY <2>3, <3>1
    <3> QED BY <2>3, <3>2
  <2> QED BY <2>1, <2>4, <2>5
<1>9. fold[S] = orders[Pick(S)].filled + fold[S \ {Pick(S)}] /\ Pick(S) \in {a, b, c}
  BY <1>1, <1>5
<1>10. S \ {a} = {b, c} /\ S \ {b} = {a, c} /\ S \ {c} = {a, b}
  OBVIOUS
<1>11. /\ fold[{b, c}] = orders[b].filled + orders[c].filled
       /\ fold[{a, c}] = orders[a].filled + orders[c].filled
       /\ fold[{a, b}] = orders[a].filled + orders[b].filled
  BY <1>8
<1>12. \/ fold[S] = orders[a].filled + (orders[b].filled + orders[c].filled)
       \/ fold[S] = orders[b].filled + (orders[a].filled + orders[c].filled)
       \/ fold[S] = orders[c].filled + (orders[a].filled + orders[b].filled)
  <2>1. CASE Pick(S) = a
    BY <1>9, <1>10, <1>11, <2>1
  <2>2. CASE Pick(S) = b
    BY <1>9, <1>10, <1>11, <2>2
  <2>3. CASE Pick(S) = c
    BY <1>9, <1>10, <1>11, <2>3
  <2> QED BY <1>9, <2>1, <2>2, <2>3
<1>13. fold[S] = orders[a].filled + orders[b].filled + orders[c].filled
  BY <1>12
<1> QED
  BY <1>4, <1>13 DEF FilledBy

\* The executions of three attempts add up to no more than the first asked for.
LEMMA ChainTotal ==
    ASSUME ExecInv, LeftInv, NEW s \in Symbols, NEW d \in Days
    PROVE  MapThenSumSet(LAMBDA id : orders[id].filled, Exits(<<d, s, "sell">>))
               <= intents[Attempt(<<d, s, "sell">>, 1)].quantity
<1> DEFINE key == <<d, s, "sell">>
           first == Attempt(key, 1)
           second == Attempt(key, 2)
           third == Attempt(key, 3)
<1>1. key \in Keys
  BY DEF Keys, Sides
<1>2. /\ first \in ClientIds /\ second \in ClientIds /\ third \in ClientIds
      /\ first \in OrderIds /\ second \in OrderIds /\ third \in OrderIds
  BY <1>1, IdParts DEF MaxExitAttempts
<1>3. first # second /\ first # third /\ second # third
  BY DEF Attempt
<1>4. Exits(key) = {first, second, third}
  BY DEF Exits, MaxExitAttempts
<1>5. MapThenSumSet(LAMBDA id : orders[id].filled, Exits(key)) = FilledTotal(Exits(key))
  BY DEF MapThenSumSet, MapThenFoldSet, FilledTotal, FilledStep, Pick
<1> HIDE DEF key
<1>6. /\ Reserved(second) => intents[second].quantity <= intents[first].quantity - orders[first].filled
      /\ Reserved(third) => intents[third].quantity <= intents[second].quantity - orders[second].filled
  <2>1. 1 \in 1..(MaxExitAttempts - 1) /\ 2 \in 1..(MaxExitAttempts - 1) /\ 1 + 1 = 2 /\ 2 + 1 = 3
    BY DEF MaxExitAttempts
  <2> QED BY <1>1, <2>1 DEF LeftInv
<1>7. Reserved(third) => Reserved(second)
  BY <1>1, <1>2 DEF ExecInv, ChainInv, ExitChain, MaxExitAttempts
<1> HIDE DEF first, second, third
<1>8. \A id \in {first, second, third} : /\ orders[id].filled \in Nat /\ orders[id].quantity \in Nat
                            /\ intents[id].quantity \in Nat
  BY <1>2, ZeroQuantity DEF ExecInv, TypeOK, JournalTypeOK, Quantities
<1>9. orders[first].filled \in Int /\ orders[second].filled \in Int /\ orders[third].filled \in Int
  BY <1>8
<1>10. FilledTotal(Exits(key)) = orders[first].filled + orders[second].filled + orders[third].filled
  <2>1. FilledTotal(Exits(key)) = FilledBy(first, second, third)
    BY <1>3, <1>4, <1>9, FilledOfThree
  <2> QED BY <2>1 DEF FilledBy
<1>11. ASSUME NEW id \in {first, second, third}
       PROVE  /\ ~Reserved(id) => orders[id].filled = 0
              /\ orders[id].filled <= intents[id].quantity
  <2>1. id \in ClientIds /\ id \in OrderIds
    BY <1>2
  <2>2. CASE Sent(id)
    BY <1>8, <2>1, <2>2 DEF LeftInv, ExecInv, BrokerInv
  <2>3. CASE ~Sent(id)
    BY <1>8, <2>1, <2>3 DEF Sent, ExecInv, BrokerInv
  <2> QED BY <2>2, <2>3
<1>12. orders[first].filled + orders[second].filled + orders[third].filled <= intents[first].quantity
  BY <1>8, <1>11, <1>6, <1>7
<1> QED
  BY <1>5, <1>10, <1>12 DEF key, first

\* All attempts of one exit together never sell more than its first attempt was
\* for, for any quantities and however executions race the cancellations.
THEOREM ChainNeverOversells ==
    ASSUME NoReset
    PROVE  Spec => []ChainWithinFirstAttempt
<1>1. Init => RetryAfterDeadAttempt /\ LeftInv
  <2> SUFFICES ASSUME Init PROVE RetryAfterDeadAttempt /\ LeftInv
    OBVIOUS
  <2>1. \A id \in ClientIds : ~Sent(id) /\ ~Reserved(id) /\ authorized[id] = 0
    BY IdParts DEF Init, JournalInit, Sent, Reserved, NoRemote, NoIntent
  <2>2. \A key \in Keys, n \in 1..(MaxExitAttempts - 1) : Attempt(key, n + 1) \in ClientIds
    BY AttemptPair
  <2> QED BY <2>1, <2>2 DEF RetryAfterDeadAttempt, LeftInv, Init
<1>2. ExecInv /\ RetryAfterDeadAttempt /\ LeftInv /\ [Next]_vars
          => (RetryAfterDeadAttempt /\ LeftInv)'
  BY RetriesInductive, LeftInductive
<1>3. ExecInv /\ LeftInv => ChainWithinFirstAttempt
  BY ChainTotal DEF ChainWithinFirstAttempt
<1>4. NoStraggler
  BY DEF NoStraggler, Undisturbed
<1> QED
  BY <1>1, <1>2, <1>3, <1>4, ExecInvariant, PTL DEF Spec

-----------------------------------------------------------------------------
\* At most one sell order of a symbol is open, for no more than is held; what
\* the operator is about to sell is held and on no other order; and what the
\* protection read is still held unless the order it read has executed.
CustodyInv ==
    /\ \A id \in OrderIds : ~InFlight(id)
    /\ \A s \in Symbols :
           /\ position[s] >= 0
           /\ \A id, other \in OpenSells(s) : id = other
           /\ \A id \in OpenSells(s) : orders[id].quantity - orders[id].filled <= position[s]
    /\ pc \in {"reserve", "lookup", "send"} => \A o \in current : IsSell(o) =>
           OpenSells(SymbolOf(o.id)) = {} /\ o.quantity <= position[SymbolOf(o.id)]
    /\ pc \in {"read_positions", "read_orders"} => view = position
    /\ pc \in {"protect", "send_stop"} => \A s \in rows :
           /\ seen[s] = {} => OpenSells(s) = {} /\ view[s] <= position[s]
           /\ \A id \in seen[s] :
                  /\ OpenSells(s) \subseteq {id}
                  /\ orders[id].filled = 0 => view[s] <= position[s]
    /\ pc = "send_stop" => \A o \in current :
           /\ SymbolOf(o.id) \in rows /\ seen[SymbolOf(o.id)] = {}
           /\ o.quantity = view[SymbolOf(o.id)]

\* How the protection comes to its steps.
LEMMA ProtectAhead ==
    ASSUME [Next]_vars
    PROVE  /\ pc' \in {"read_positions", "read_orders"} =>
                  \/ view' = position /\ UNCHANGED <<orders, position>>
                  \/ pc \in {"read_positions", "read_orders"} /\ view' = view
           /\ pc' \in {"protect", "send_stop"} =>
                  \/ ReadOpenOrders
                  \/ /\ pc \in {"protect", "send_stop"} /\ view' = view /\ seen' = seen
                     /\ rows' \subseteq rows
                     /\ pc = "send_stop" /\ pc' = "protect" =>
                            \E o \in current : rows' = rows \ {SymbolOf(o.id)}
           /\ pc' = "send_stop" =>
                  \/ pc = "send_stop" /\ current' = current /\ rows' = rows
                  \/ \E s \in rows : ChooseStop(s)
<1>1. CASE Still
  BY <1>1 DEF Still, memoryVars
<1>2. CASE Left \/ Refused \/ Submits
  <2>1. pc' \notin {"read_positions", "read_orders", "protect", "send_stop"}
    BY <1>2 DEF Refused, RefuseEntry, Submits, BeginSell, BeginBuy, SellsCanceled, Revalidate,
                BuyControl, Lookup, RecordSubmission, Leave, Left
  <2> QED BY <2>1
<1>3. CASE Plans
  BY <1>3 DEF Plans, BeginCycle, SyncDone, Reconcile, RefreshView, Assess, CancelBuys, BuysCanceled,
              HaltSynced, Plan, Filter, Overtaking, ArchiveJournal, Resetting, FilterDone, Leave,
              Left, brokerVars
<1>4. CASE Protects
  <2>1. CASE ReadPositions
    BY <2>1 DEF ReadPositions
  <2>2. CASE ReadOpenOrders
    BY <2>2 DEF ReadOpenOrders
  <2>3. ASSUME NEW s \in rows, ChooseStop(s), ~Left
        PROVE  /\ pc = "protect" /\ pc' \in {"protect", "send_stop"}
               /\ view' = view /\ seen' = seen /\ rows' \subseteq rows
    BY <2>3 DEF ChooseStop, Visited, Leave, Left
  <2>4. ASSUME NEW s \in rows, NEW id \in seen[s], KeepStop(s, id) \/ ReplaceStop(s, id), ~Left
        PROVE  /\ pc = "protect" /\ pc' = "protect"
               /\ view' = view /\ seen' = seen /\ rows' \subseteq rows
    BY <2>4 DEF KeepStop, ReplaceStop, Visited, Leave, Left
  <2>5. ASSUME NEW o \in current, SendStop(o), pc' = "protect"
        PROVE  /\ pc = "send_stop" /\ view' = view /\ seen' = seen
               /\ rows' = rows \ {SymbolOf(o.id)}
    BY <2>5 DEF SendStop, SendUnanswered, SendLost, SendDelayed, Leave
  <2> QED BY <1>4, <2>1, <2>2, <2>3, <2>4, <2>5 DEF Protects
<1> QED
  BY StepSplit, <1>1, <1>2, <1>3, <1>4

\* An exit about to be reserved or sent was sized when no sell order was open.
LEMMA ExitAhead ==
    ASSUME MemoryInv, [Next]_vars, pc' \in {"reserve", "lookup", "send"},
           NEW o \in current', IsSell(o)
    PROVE  \/ /\ pc \in {"reserve", "lookup", "send"} /\ current' = current
              /\ pc = "send" => pc' = "send"
           \/ \E p \in current : SellsCanceled(p)
<1>1. CASE Still
  BY <1>1 DEF Still, memoryVars
<1>2. CASE Left \/ Refused \/ Plans \/ Protects
  <2>1. pc' \notin {"reserve", "lookup", "send"}
    BY <1>2 DEF Refused, RefuseEntry, Plans, BeginCycle, SyncDone, Reconcile, Assess, CancelBuys,
                BuysCanceled, HaltSynced, Plan, Filter, Overtaking, ArchiveJournal, Resetting,
                FilterDone, Protects, ReadPositions, ReadOpenOrders, ChooseStop, KeepStop,
                ReplaceStop, Visited, Leave, Left
  <2> QED BY <2>1
<1>3. CASE Submits
  <2>1. CASE BuyControl
    <3>1. pc = "buy_control" /\ current' = current
      BY <2>1 DEF BuyControl, RefuseEntry, memoryVars
    <3> QED BY <3>1 DEF MemoryInv, IsBuy, IsSell
  <2>2. CASE \/ \E p \in ready : BeginSell(p) \/ BeginBuy(p)
             \/ \E p \in current : \/ Revalidate(p) /\ ~Refused
                                   \/ Send(p) /\ pc' = "record"
                                   \/ RecordSubmission(p)
    <3>1. pc' \notin {"reserve", "lookup", "send"}
      BY <2>2 DEF BeginSell, BeginBuy, Revalidate, Refused, RecordSubmission
    <3> QED BY <3>1
  <2>3. ASSUME NEW p \in current, (Reserve(p) /\ pc' = "lookup") \/ (Lookup(p) /\ ~Left)
        PROVE  pc \in {"reserve", "lookup"} /\ current' = current
    BY <2>3 DEF Reserve, RefuseEntry, Lookup, Left, Leave, memoryVars
  <2> QED BY <1>3, <2>1, <2>2, <2>3 DEF Submits
<1> QED
  BY StepSplit, <1>1, <1>2, <1>3

\* No order executes while the protection reads positions and orders.
LEMMA ReadsAreStill ==
    ASSUME TypeOK, MemoryInv, BrokerInv, KnownInv, BuyInv, NoRace, [Next]_vars,
           pc \in {"read_positions", "read_orders"}
    PROVE  UNCHANGED position
  BY PositionMoves DEF Fill, NoRace

\* An open sell order was open before the step, or is the one being sent.
LEMMA SellBefore ==
    ASSUME CustodyInv, NEW s \in Symbols, NEW id \in OpenSells(s)', OrderMove(id)
    PROVE  /\ id \in OrderIds /\ SideOf(id) = "sell" /\ SymbolOf(id) = s
           /\ id \in OpenSells(s) \/ NewOrder(id)
<1>1. id \in OrderIds /\ SideOf(id) = "sell" /\ SymbolOf(id) = s /\ Live(id)'
  BY DEF OpenSells, OpenOrders
<1>2. Live(id) \/ NewOrder(id)
  BY <1>1, OutstandingBefore DEF Outstanding, CustodyInv
<1> QED
  BY <1>1, <1>2 DEF OpenSells, OpenOrders

\* A sell order is sent only when none is open, for shares that are held.
LEMMA NewSell ==
    ASSUME ExecInv, CustodyInv, NEW id \in OrderIds, NewOrder(id), SideOf(id) = "sell"
    PROVE  /\ OpenSells(SymbolOf(id)) = {}
           /\ orders'[id].quantity <= position[SymbolOf(id)]
           /\ \A o \in current : o.id = id
<1>1. PICK o \in current : o.id = id /\ orders'[id].quantity = o.quantity
  BY DEF NewOrder
<1>2. \A p \in current : p = o
  BY DEF ExecInv, MemoryInv
<1>3. CASE pc = "send"
  BY <1>1, <1>2, <1>3 DEF CustodyInv, IsSell
<1>4. CASE pc = "send_stop"
  BY <1>1, <1>2, <1>4 DEF CustodyInv
<1> QED
  BY <1>1, <1>3, <1>4 DEF NewOrder

\* What one step does to the holding and the open sell orders of a symbol.
LEMMA HoldingMoves ==
    ASSUME ExecInv, CustodyInv, [Next]_vars, NEW s \in Symbols
    PROVE  /\ position[s] \in Int /\ position'[s] \in Int
           /\ \/ position'[s] >= position[s] /\ \A id \in OpenSells(s) : ~GrownOrder(id)
              \/ \E id \in OpenSells(s) :
                     /\ GrownOrder(id) /\ position'[s] = position[s] - 1
                     /\ \A i \in OrderIds : i # id => orders'[i] = orders[i]
<1> USE DEF ExecInv
<1>1. /\ position \in [Symbols -> Int] /\ position' \in [Symbols -> Int]
      /\ \A i \in OrderIds : orders[i].filled \in Int
  BY PositionMoves, ZeroQuantity DEF TypeOK, Quantities
<1>2. CASE UNCHANGED position /\ \A i \in OrderIds : ~GrownOrder(i)
  BY <1>1, <1>2 DEF OpenSells, OpenOrders
<1>3. ASSUME NEW id \in OrderIds, Fill(id), GrownOrder(id),
             \A i \in OrderIds : i # id => orders'[i] = orders[i],
             position'[s] = IF s # SymbolOf(id) THEN position[s]
                            ELSE IF SideOf(id) = "buy" THEN position[s] + 1 ELSE position[s] - 1
      PROVE  \/ position'[s] >= position[s] /\ \A i \in OpenSells(s) : ~GrownOrder(i)
             \/ \E i \in OpenSells(s) :
                     /\ GrownOrder(i) /\ position'[s] = position[s] - 1
                     /\ \A j \in OrderIds : j # i => orders'[j] = orders[j]
  <2>1. CASE id \in OpenSells(s)
    BY <1>3, <2>1 DEF OpenSells, OpenOrders
  <2>2. CASE id \notin OpenSells(s)
    <3>1. s # SymbolOf(id) \/ SideOf(id) = "buy"
      BY <1>3, <2>2 DEF OpenSells, OpenOrders, GrownOrder, SideOf
    <3>2. position'[s] >= position[s]
      BY <1>1, <1>3, <3>1
    <3>3. ASSUME NEW i \in OpenSells(s), GrownOrder(i) PROVE FALSE
      <4>1. i \in OrderIds /\ i # id
        BY <2>2 DEF OpenSells, OpenOrders
      <4>2. orders'[i].filled = orders[i].filled /\ orders[i].filled \in Int
        BY <1>1, <1>3, <4>1
      <4> QED BY <3>3, <4>2 DEF GrownOrder
    <3> QED BY <3>2, <3>3
  <2> QED BY <2>1, <2>2
<1> QED
  BY <1>1, <1>2, <1>3, PositionMoves

\* The holding and the open sell orders of a symbol stay within each other.
LEMMA OpenSellsInductive ==
    ASSUME ExecInv, CustodyInv, NoLate, [Next]_vars
    PROVE  /\ \A id \in OrderIds : ~InFlight(id)'
           /\ \A s \in Symbols :
                  /\ position'[s] >= 0
                  /\ \A id, other \in OpenSells(s)' : id = other
                  /\ \A id \in OpenSells(s)' :
                         orders'[id].quantity - orders'[id].filled <= position'[s]
<1> USE DEF ExecInv
<1>1. /\ orders \in [OrderIds -> OrderRecord] /\ orders' \in [OrderIds -> OrderRecord]
      /\ \A id \in OrderIds : OrderMove(id)
      /\ position \in [Symbols -> Int] /\ position' \in [Symbols -> Int]
  BY OrderMoves, PositionMoves DEF TypeOK, OrderRecord
<1>2. \A id \in OrderIds : /\ orders[id].quantity \in Int /\ orders[id].filled \in Int
                           /\ orders'[id].quantity \in Int /\ orders'[id].filled \in Int
  BY <1>1, ZeroQuantity DEF OrderRecord, Quantities
<1>3. ASSUME NEW id \in OrderIds PROVE ~InFlight(id)'
  <2>1. OrderMove(id) /\ ~InFlight(id)
    BY <1>1 DEF CustodyInv
  <2> QED BY <2>1 DEF OrderMove, InFlight, Live, GrownOrder, StatusOnly, NewOrder, NewQuantity,
                      NoLate, ActiveStatuses
<1>4. ASSUME NEW s \in Symbols PROVE position'[s] >= 0
  <2>1. position[s] \in Int /\ position'[s] \in Int /\ position[s] >= 0
    BY <1>1 DEF CustodyInv
  <2>2. ASSUME NEW id \in OpenSells(s) PROVE position[s] >= 1
    <3>1. id \in OrderIds /\ orders[id].filled < orders[id].quantity
      BY DEF OpenSells, OpenOrders, BrokerInv, Outstanding
    <3>2. orders[id].quantity - orders[id].filled <= position[s]
      BY DEF CustodyInv
    <3> QED BY <1>2, <2>1, <3>1, <3>2
  <2> QED BY <2>1, <2>2, HoldingMoves
<1>5. ASSUME NEW s \in Symbols, NEW id \in OpenSells(s)', NEW other \in OpenSells(s)'
      PROVE  id = other
  <2>1. /\ id \in OrderIds /\ SideOf(id) = "sell" /\ SymbolOf(id) = s
        /\ other \in OrderIds /\ SideOf(other) = "sell" /\ SymbolOf(other) = s
        /\ id \in OpenSells(s) \/ NewOrder(id)
        /\ other \in OpenSells(s) \/ NewOrder(other)
    <3>1. id \in OrderIds /\ other \in OrderIds
      BY DEF OpenSells, OpenOrders
    <3> QED BY <1>1, <3>1, SellBefore
  <2>2. CASE NewOrder(id) \/ NewOrder(other)
    <3>1. NewOrder(id) /\ NewOrder(other)
      BY <2>1, <2>2, NewSell
    <3>2. PICK o \in current : o.id = id
      BY <3>1 DEF NewOrder
    <3> QED BY <2>1, <3>1, <3>2, NewSell
  <2>3. CASE id \in OpenSells(s) /\ other \in OpenSells(s)
    BY <2>3 DEF CustodyInv
  <2> QED BY <2>1, <2>2, <2>3
<1>6. ASSUME NEW s \in Symbols, NEW id \in OpenSells(s)'
      PROVE  orders'[id].quantity - orders'[id].filled <= position'[s]
  <2>1. /\ id \in OrderIds /\ SideOf(id) = "sell" /\ SymbolOf(id) = s
        /\ id \in OpenSells(s) \/ NewOrder(id)
        /\ OrderMove(id)
    <3>1. id \in OrderIds
      BY DEF OpenSells, OpenOrders
    <3> QED BY <1>1, <3>1, SellBefore
  <2>2. /\ orders[id].quantity \in Int /\ orders[id].filled \in Int
        /\ orders'[id].quantity \in Int /\ orders'[id].filled \in Int
        /\ position[s] \in Int /\ position'[s] \in Int
    BY <1>1, <1>2, <2>1
  <2>3. CASE NewOrder(id)
    <3>1. OpenSells(s) = {} /\ orders'[id].quantity <= position[s] /\ orders'[id].filled = 0
      BY <2>1, <2>3, NewSell DEF NewOrder
    <3>2. position'[s] >= position[s]
      BY <3>1, HoldingMoves
    <3> QED BY <2>2, <3>1, <3>2
  <2>4. CASE id \in OpenSells(s) /\ ~NewOrder(id)
    <3>1. /\ \A other \in OpenSells(s) : other = id
          /\ orders[id].quantity - orders[id].filled <= position[s]
      BY <2>4 DEF CustodyInv
    <3>2. CASE GrownOrder(id)
      <4>1. position'[s] = position[s] - 1 \/ position'[s] >= position[s]
        BY <2>2, HoldingMoves
      <4>2. ~(position'[s] >= position[s] /\ \A i \in OpenSells(s) : ~GrownOrder(i))
        BY <2>4, <3>2
      <4>3. position'[s] = position[s] - 1
        BY <4>1, <4>2, HoldingMoves
      <4>4. orders'[id].quantity = orders[id].quantity /\ orders'[id].filled = orders[id].filled + 1
        BY <3>2 DEF GrownOrder
      <4> QED BY <2>2, <3>1, <4>3, <4>4
    <3>3. CASE ~GrownOrder(id)
      <4>1. position'[s] >= position[s]
        BY <3>1, <3>3, HoldingMoves
      <4>2. CASE NewQuantity(id)
        <5>1. PICK r \in rows : id \in seen[r] /\ orders'[id].quantity = view[r]
          BY <4>2 DEF NewQuantity
        <5>2. pc = "protect" /\ orders[id].filled = 0 /\ orders'[id].filled = 0
          BY <4>2 DEF NewQuantity, ReplaceableStop
        <5>3. r = s
          BY <2>1, <5>1, <5>2 DEF MemoryInv
        <5>4. view[s] <= position[s]
          BY <5>1, <5>2, <5>3 DEF CustodyInv
        <5> QED BY <2>2, <4>1, <5>1, <5>2, <5>3, <5>4
      <4>3. CASE ~NewQuantity(id)
        <5>1. orders'[id].quantity = orders[id].quantity /\ orders'[id].filled = orders[id].filled
          BY <2>1, <2>4, <3>3, <4>3 DEF OrderMove, StatusOnly
        <5> QED BY <2>2, <3>1, <4>1, <5>1
      <4> QED BY <4>2, <4>3
    <3> QED BY <3>2, <3>3
  <2> QED BY <2>1, <2>3, <2>4
<1> QED
  BY <1>3, <1>4, <1>5, <1>6

\* An order the protection sends belongs to a symbol whose order it has listed
\* none of, and leaves that symbol behind.
LEMMA NewStop ==
    ASSUME ExecInv, CustodyInv, [Next]_vars, NEW s \in rows', NEW id \in OrderIds,
           NewOrder(id), SideOf(id) = "sell", SymbolOf(id) = s, pc' \in {"protect", "send_stop"}
    PROVE  FALSE
<1>1. pc \in {"send", "send_stop"} /\ pc' = "protect"
  BY DEF NewOrder
<1>2. ~ReadOpenOrders
  BY <1>1 DEF ReadOpenOrders
<1>3. PICK o \in current : pc = "send_stop" /\ rows' = rows \ {SymbolOf(o.id)}
  BY <1>1, <1>2, ProtectAhead
<1>4. o.id = id
  BY NewSell
<1> QED
  BY <1>3, <1>4

\* What the protection read stays true while it acts on it.
LEMMA ReadInductive ==
    ASSUME ExecInv, CustodyInv, NoLate, NoRace, [Next]_vars,
           pc' \in {"protect", "send_stop"}, NEW s \in rows'
    PROVE  /\ seen'[s] = {} => OpenSells(s)' = {} /\ view'[s] <= position'[s]
           /\ \A id \in seen'[s] :
                  /\ OpenSells(s)' \subseteq {id}
                  /\ orders'[id].filled = 0 => view'[s] <= position'[s]
<1> USE DEF ExecInv
<1>1. /\ \A id \in OrderIds : OrderMove(id)
      /\ position \in [Symbols -> Int] /\ position' \in [Symbols -> Int]
      /\ view' \in [Symbols -> Int] /\ s \in Symbols
  BY OrderMoves, PositionMoves, StepsKeepType, Frame DEF TypeOK, Refreshed
<1>2. CASE ReadOpenOrders
  <2>1. /\ view = position /\ UNCHANGED <<orders, position, view>> /\ s \in rows
        /\ Listing(s, seen'[s])
    BY <1>1, <1>2 DEF ReadOpenOrders, brokerVars, CustodyInv
  <2>2. OpenSells(s)' = OpenSells(s)
    BY <2>1 DEF OpenSells, OpenOrders, Live
  <2>3. \A id, other \in OpenSells(s) : id = other
    BY <1>1 DEF CustodyInv
  <2> QED BY <1>1, <2>1, <2>2, <2>3 DEF Listing
<1>3. CASE pc \in {"protect", "send_stop"} /\ view' = view /\ seen' = seen /\ rows' \subseteq rows
  <2>1. /\ s \in rows
        /\ seen[s] = {} => OpenSells(s) = {} /\ view[s] <= position[s]
        /\ \A id \in seen[s] :
               /\ OpenSells(s) \subseteq {id}
               /\ orders[id].filled = 0 => view[s] <= position[s]
    BY <1>3 DEF CustodyInv
  <2>2. OpenSells(s)' \subseteq OpenSells(s)
    <3> SUFFICES ASSUME NEW id \in OpenSells(s)' PROVE id \in OpenSells(s)
      OBVIOUS
    <3>1. id \in OrderIds /\ OrderMove(id)
      BY <1>1 DEF OpenSells, OpenOrders
    <3> QED BY <1>1, <3>1, SellBefore, NewStop
  <2>3. /\ position[s] \in Int /\ position'[s] \in Int /\ view[s] \in Int
    BY <1>1 DEF TypeOK
  <2>4. CASE seen[s] = {}
    <3>1. position'[s] >= position[s]
      BY <1>1, <2>1, <2>4, HoldingMoves
    <3> QED BY <1>3, <2>1, <2>2, <2>3, <2>4, <3>1
  <2>5. ASSUME NEW id \in seen[s], orders'[id].filled = 0
        PROVE  view[s] <= position'[s]
    <3>1. id \in OrderIds /\ OrderMove(id) /\ orders[id].filled \in Int
      BY <1>1, ZeroQuantity DEF TypeOK, Quantities
    <3>2. ~GrownOrder(id)
      <4>1. orders[id].filled >= 0
        BY <3>1, ZeroQuantity DEF TypeOK, Quantities
      <4> QED BY <2>5, <3>1, <4>1 DEF GrownOrder
    <3>3. orders[id].filled = 0
      BY <2>5, <3>1, <3>2 DEF OrderMove, StatusOnly, NewQuantity, ReplaceableStop, NewOrder,
                              Visible, BrokerInv
    <3>4. \A i \in OpenSells(s) : ~GrownOrder(i)
      BY <2>1, <3>2
    <3>5. position'[s] >= position[s]
      BY <1>1, <3>4, HoldingMoves
    <3> QED BY <2>1, <2>3, <3>3, <3>5
  <2> QED BY <1>3, <2>1, <2>2, <2>4, <2>5
<1> QED
  BY <1>2, <1>3, ProtectAhead

\* Every step keeps the shares in custody.
LEMMA CustodyInductive ==
    ASSUME ExecInv, CustodyInv, NoLate, NoRace, [Next]_vars
    PROVE  CustodyInv'
<1> USE DEF ExecInv
<1>1. /\ \A id \in OrderIds : OrderMove(id)
      /\ \A s \in Symbols : position[s] \in Int /\ position'[s] \in Int
      /\ MemoryInv /\ TypeOK
  BY OrderMoves, PositionMoves DEF TypeOK
<1>2. ASSUME pc' \in {"reserve", "lookup", "send"}, NEW o \in current', IsSell(o)
      PROVE  OpenSells(SymbolOf(o.id))' = {} /\ o.quantity <= position'[SymbolOf(o.id)]
  <2> DEFINE s == SymbolOf(o.id)
  <2>1. ASSUME NEW p \in current, SellsCanceled(p)
        PROVE  OpenSells(s)' = {} /\ o.quantity <= position'[s]
    <3>1. p \in Orders /\ p.id \in OrderIds /\ SymbolOf(p.id) \in Symbols
      BY <1>1, <2>1, CurrentIds, IdParts DEF SellsCanceled, MemoryInv
    <3>2. /\ UNCHANGED <<orders, position>> /\ OpenSells(SymbolOf(p.id)) = {}
          /\ o = [p EXCEPT !.quantity = LesserOf(p.quantity, position[SymbolOf(p.id)])]
      BY <1>2, <2>1 DEF SellsCanceled, brokerVars
    <3>3. o.id = p.id /\ o.quantity = LesserOf(p.quantity, position[SymbolOf(p.id)])
      BY <3>1, <3>2 DEF Orders
    <3>4. p.quantity \in Int /\ position[SymbolOf(p.id)] \in Int
      BY <1>1, <3>1 DEF Orders
    <3>5. o.quantity <= position[SymbolOf(p.id)]
      BY <3>3, <3>4 DEF LesserOf
    <3>6. OpenSells(s)' = OpenSells(s)
      BY <3>2 DEF OpenSells, OpenOrders, Live
    <3> QED BY <3>2, <3>3, <3>5, <3>6
  <2>2. CASE /\ pc \in {"reserve", "lookup", "send"} /\ current' = current
             /\ pc = "send" => pc' = "send"
    <3>1. OpenSells(s) = {} /\ o.quantity <= position[s]
      BY <1>2, <2>2 DEF CustodyInv
    <3>2. o \in Orders /\ s \in Symbols
      BY <2>2, CurrentIds, IdParts DEF MemoryInv
    <3>3. position'[s] >= position[s]
      BY <3>1, <3>2, HoldingMoves
    <3>4. ASSUME NEW id \in OpenSells(s)' PROVE FALSE
      <4>1. id \in OrderIds /\ OrderMove(id)
        BY <1>1 DEF OpenSells, OpenOrders
      <4>2. NewOrder(id)
        BY <3>1, <3>2, <4>1, SellBefore
      <4> QED BY <1>2, <2>2, <4>2 DEF NewOrder
    <3>5. o.quantity \in Int /\ position[s] \in Int /\ position'[s] \in Int
      BY <1>1, <3>2 DEF Orders
    <3> QED BY <3>1, <3>3, <3>4, <3>5
  <2> QED BY <1>1, <1>2, <2>1, <2>2, ExitAhead
<1>3. ASSUME pc' \in {"read_positions", "read_orders"} PROVE view' = position'
  BY <1>1, <1>3, ProtectAhead, ReadsAreStill DEF CustodyInv
<1>4. ASSUME pc' = "send_stop", NEW o \in current'
      PROVE  /\ SymbolOf(o.id) \in rows' /\ seen'[SymbolOf(o.id)] = {}
             /\ o.quantity = view'[SymbolOf(o.id)]
  <2>1. CASE pc = "send_stop" /\ current' = current /\ rows' = rows
    <3>1. view' = view /\ seen' = seen
      BY <1>4, <2>1, ProtectAhead DEF ReadOpenOrders
    <3> QED BY <2>1, <3>1 DEF CustodyInv
  <2>2. ASSUME NEW s \in rows, ChooseStop(s)
        PROVE  SymbolOf(o.id) \in rows' /\ seen'[SymbolOf(o.id)] = {}
               /\ o.quantity = view'[SymbolOf(o.id)]
    <3>1. PICK n \in 1..MaxStopAttempts :
              /\ o = [id |-> StopId(s, n), quantity |-> view[s], risk |-> TRUE]
              /\ seen[s] = {} /\ UNCHANGED <<rows, view, seen>>
      BY <1>4, <2>2 DEF ChooseStop, Visited, Leave
    <3>2. SymbolOf(o.id) = s
      BY <3>1 DEF StopId, SymbolOf
    <3> QED BY <3>1, <3>2
  <2> QED BY <1>4, <2>1, <2>2, ProtectAhead
<1> QED
  BY <1>2, <1>3, <1>4, OpenSellsInductive, ReadInductive DEF CustodyInv

\* The invariant holds of every execution.
LEMMA CustodyInvariant ==
    ASSUME NoLate, NoRace
    PROVE  Spec => []CustodyInv
<1>1. Init => CustodyInv
  <2> SUFFICES ASSUME Init PROVE CustodyInv
    OBVIOUS
  <2>1. \A id \in OrderIds : orders[id].status = "absent"
    BY DEF Init, NoRemote
  <2>2. \A s \in Symbols : OpenSells(s) = {} /\ position[s] >= 0
    BY <2>1, ExecutionAssumption, ZeroQuantity DEF Init, OpenSells, OpenOrders, Live, ActiveStatuses,
       Quantities, ExecutionAssumption
  <2> QED BY <2>1, <2>2 DEF Init, CustodyInv, InFlight
<1>2. ExecInv /\ CustodyInv /\ [Next]_vars => CustodyInv'
  BY CustodyInductive
<1>3. NoStraggler
  BY DEF NoStraggler
<1> QED
  BY <1>1, <1>2, <1>3, ExecInvariant, PTL DEF Spec

\* The recursive function by which the library defines what is left to execute
\* of a set of orders, and its value for one order or none.
LeftOf(id) == orders[id].quantity - orders[id].filled

LeftStep(S, iter) ==
    [s \in SUBSET S |-> IF s = {} THEN 0 ELSE LeftOf(Pick(s)) + iter[s \ {Pick(s)}]]

LeftTotal(S) == (CHOOSE iter : iter = LeftStep(S, iter))[S]

LEMMA LeftOfOne ==
    ASSUME NEW S, NEW id, S = {id}, LeftOf(id) \in Int
    PROVE  LeftTotal(S) = LeftOf(id)
<1> DEFINE fold == CHOOSE iter : iter = LeftStep(S, iter)
           W    == [s \in SUBSET S |-> IF s = {} THEN 0 ELSE LeftOf(id)]
<1>1. \A s \in SUBSET S : s # {} => s = S /\ Pick(s) = id /\ s \ {Pick(s)} = {}
  BY DEF Pick
<1>2. W[{}] = 0
  OBVIOUS
<1>3. \A s \in SUBSET S : W[s] = IF s = {} THEN 0 ELSE LeftOf(Pick(s)) + W[s \ {Pick(s)}]
  <2> SUFFICES ASSUME NEW s \in SUBSET S, s # {}
               PROVE  W[s] = LeftOf(Pick(s)) + W[s \ {Pick(s)}]
    OBVIOUS
  <2>1. W[s \ {Pick(s)}] = 0 /\ Pick(s) = id /\ W[s] = LeftOf(id)
    BY <1>1, <1>2
  <2> HIDE DEF W
  <2> QED BY <2>1
<1>4. W = [s \in SUBSET S |-> W[s]]
  OBVIOUS
<1> HIDE DEF W
<1>5. W = LeftStep(S, W)
  BY <1>3, <1>4 DEF LeftStep
<1>6. fold = LeftStep(S, fold)
  BY <1>5
<1>7. LeftTotal(S) = fold[S]
  BY DEF LeftTotal
<1> HIDE DEF fold
<1>8. \A s \in SUBSET S : fold[s] = IF s = {} THEN 0 ELSE LeftOf(Pick(s)) + fold[s \ {Pick(s)}]
  BY <1>6 DEF LeftStep
<1>9. fold[{}] = 0
  BY <1>8
<1>10. fold[S] = LeftOf(id) + fold[{}]
  <2>1. S \in SUBSET S /\ S # {}
    OBVIOUS
  <2> QED BY <1>1, <1>8, <2>1
<1> QED
  BY <1>7, <1>9, <1>10

LEMMA LeftOfNone == LeftTotal({}) = 0
<1> DEFINE fold == CHOOSE iter : iter = LeftStep({}, iter)
           W    == [s \in SUBSET {} |-> 0]
<1>1. W = LeftStep({}, W)
  BY DEF LeftStep
<1> HIDE DEF W
<1>2. fold = LeftStep({}, fold)
  BY <1>1
<1>3. LeftTotal({}) = fold[{}]
  BY DEF LeftTotal
<1> HIDE DEF fold
<1> QED
  BY <1>2, <1>3 DEF LeftStep

\* The shares under sell orders never exceed the shares held, whatever is lost,
\* unanswered or listed late, in every interleaving with the executions.
THEOREM ExitsAreHeld ==
    ASSUME NoLate, NoRace
    PROVE  Spec => []ExitsWithinHoldings
<1>1. ASSUME ExecInv, CustodyInv, NEW s \in Symbols PROVE CommittedToSell(s) <= position[s]
  <2> DEFINE S == {id \in OrderIds : /\ SideOf(id) = "sell" /\ SymbolOf(id) = s
                                     /\ Live(id) \/ orders[id].status = "in_flight"}
  <2>1. CommittedToSell(s) = LeftTotal(S)
    BY DEF CommittedToSell, MapThenSumSet, MapThenFoldSet, LeftTotal, LeftStep, LeftOf, Pick
  <2>2. S = OpenSells(s)
    BY <1>1 DEF CustodyInv, InFlight, OpenSells, OpenOrders
  <2> HIDE DEF S
  <2>3. position[s] \in Int /\ position[s] >= 0
    BY <1>1 DEF CustodyInv, ExecInv, TypeOK
  <2>4. CASE S = {}
    BY <2>1, <2>3, <2>4, LeftOfNone
  <2>5. ASSUME NEW id \in S PROVE CommittedToSell(s) <= position[s]
    <3>1. S = {id} /\ LeftOf(id) <= position[s]
      BY <1>1, <2>2, <2>5 DEF CustodyInv, LeftOf
    <3>2. id \in OrderIds
      BY <2>2 DEF OpenSells, OpenOrders
    <3>3. LeftOf(id) \in Int
      BY <1>1, <3>2, ZeroQuantity DEF LeftOf, ExecInv, TypeOK, Quantities
    <3> QED BY <2>1, <3>1, <3>3, LeftOfOne
  <2> QED BY <2>4, <2>5
<1>2. ExecInv /\ CustodyInv => ExitsWithinHoldings
  BY <1>1 DEF ExitsWithinHoldings
<1>3. NoStraggler
  BY DEF NoStraggler
<1> QED
  BY <1>2, <1>3, ExecInvariant, CustodyInvariant, PTL

\* What the abstraction sees of a symbol: its open sell orders and what is left
\* of each.
Offered(s) == {[id |-> id, left |-> LeftOf(id)] : id \in LiveSells(s)}

\* With no request on its way, these are the open sell orders.
LEMMA LiveSellsAreOpen ==
    ASSUME CustodyInv, NEW s \in Symbols
    PROVE  LiveSells(s) = OpenSells(s)
  BY DEF LiveSells, OpenSells, OpenOrders, CustodyInv, InFlight

LEMMA LiveSellsStayOpen ==
    ASSUME CustodyInv', NEW s \in Symbols
    PROVE  LiveSells(s)' = OpenSells(s)'
  BY DEF LiveSells, OpenSells, OpenOrders, CustodyInv, InFlight

\* A step that changes no sell order of a symbol but in its status among the
\* active ones changes nothing that is offered.
LEMMA SameOffers ==
    ASSUME NEW s \in Symbols,
           \A id \in OrderIds : SideOf(id) = "sell" /\ SymbolOf(id) = s =>
               \/ orders'[id] = orders[id]
               \/ Live(id) /\ StatusOnly(id, "pending_cancel")
    PROVE  Offered(s)' = Offered(s)
<1>1. LiveSells(s)' = LiveSells(s)
  BY DEF LiveSells, Live, StatusOnly, ActiveStatuses
<1>2. \A id \in LiveSells(s) : LeftOf(id)' = LeftOf(id)
  BY DEF LiveSells, LeftOf, StatusOnly
<1> QED
  BY <1>1, <1>2 DEF Offered

\* The steps of the custody, in terms of what is offered of one symbol.
OfferMove(s) ==
    \/ /\ \E id \in OrderIds, n \in 1..position[s] :
              /\ SideOf(id) = "sell"
              /\ Offered(s) = {} /\ Offered(s)' = {[id |-> id, left |-> n]}
       /\ UNCHANGED position
    \/ \E id \in OrderIds, left \in Nat \ {0} :
           /\ Offered(s) = {[id |-> id, left |-> left]}
           /\ \/ /\ \E n \in 1..position[s] : Offered(s)' = {[id |-> id, left |-> n]}
                 /\ UNCHANGED position
              \/ /\ Offered(s)' = {}
                 /\ UNCHANGED position
              \/ /\ Offered(s)' = IF left = 1 THEN {} ELSE {[id |-> id, left |-> left - 1]}
                 /\ position' = [position EXCEPT ![s] = position[s] - 1]

\* An open sell order is the only one of its symbol.
LEMMA SoleOffer ==
    ASSUME ExecInv, CustodyInv, NEW s \in Symbols, NEW id \in OpenSells(s)
    PROVE  /\ OpenSells(s) = {id} /\ Offered(s) = {[id |-> id, left |-> LeftOf(id)]}
           /\ LeftOf(id) \in Nat \ {0}
<1>1. OpenSells(s) = {id} /\ id \in OrderIds /\ Live(id)
  BY DEF CustodyInv, OpenSells, OpenOrders
<1>2. /\ orders[id].quantity \in Nat /\ orders[id].filled \in Nat
      /\ orders[id].filled < orders[id].quantity
  BY <1>1, ZeroQuantity DEF ExecInv, TypeOK, Quantities, BrokerInv, Outstanding
<1>3. Offered(s) = {[id |-> id, left |-> LeftOf(id)]}
  BY <1>1, LiveSellsAreOpen DEF Offered
<1> QED
  BY <1>1, <1>2, <1>3 DEF LeftOf

\* The same after a step.
LEMMA SoleOfferNext ==
    ASSUME CustodyInv', NEW s \in Symbols, NEW id \in OpenSells(s)'
    PROVE  Offered(s)' = {[id |-> id, left |-> LeftOf(id)']}
<1>1. OpenSells(s)' = {id}
  BY DEF CustodyInv
<1> QED
  BY <1>1, LiveSellsStayOpen DEF Offered

\* Every step leaves the offers alone, or changes those of one symbol.
LEMMA OffersMove ==
    ASSUME ExecInv, CustodyInv, CustodyInv', NoLate, [Next]_vars
    PROVE  \/ UNCHANGED position /\ \A s \in Symbols : Offered(s)' = Offered(s)
           \/ \E s \in Symbols :
                  /\ position' = [position EXCEPT ![s] = position[s] + 1]
                  /\ \A r \in Symbols : Offered(r)' = Offered(r)
           \/ \E s \in Symbols :
                  OfferMove(s) /\ \A r \in Symbols : r # s => Offered(r)' = Offered(r)
<1> USE DEF ExecInv
<1>1. /\ orders \in [OrderIds -> OrderRecord] /\ orders' \in [OrderIds -> OrderRecord]
      /\ \A id \in OrderIds : OrderMove(id) /\ SymbolOf(id) \in Symbols
      /\ position \in [Symbols -> Int] /\ position' \in [Symbols -> Int]
  BY OrderMoves, PositionMoves, IdParts DEF TypeOK, OrderRecord
<1>2. ASSUME NEW id \in OrderIds, \A i \in OrderIds : i # id => orders'[i] = orders[i]
      PROVE  /\ \A r \in Symbols : r # SymbolOf(id) => Offered(r)' = Offered(r)
             /\ SideOf(id) = "buy" => \A r \in Symbols : Offered(r)' = Offered(r)
  BY <1>2, SameOffers
<1>3. ASSUME NEW id \in OrderIds, Fill(id) PROVE
          \/ \E s \in Symbols :
                 /\ position' = [position EXCEPT ![s] = position[s] + 1]
                 /\ \A r \in Symbols : Offered(r)' = Offered(r)
          \/ \E s \in Symbols :
                 OfferMove(s) /\ \A r \in Symbols : r # s => Offered(r)' = Offered(r)
  <2> DEFINE s == SymbolOf(id)
  <2>1. /\ GrownOrder(id) /\ \A i \in OrderIds : i # id => orders'[i] = orders[i]
        /\ s \in Symbols
    BY <1>1, <1>3, FillGrows
  <2>2. position' = [position EXCEPT ![s] = IF SideOf(id) = "buy" THEN position[s] + 1
                                            ELSE position[s] - 1]
    BY <1>1, <1>3 DEF Fill
  <2> HIDE DEF s
  <2>3. CASE SideOf(id) = "buy"
    BY <1>2, <2>1, <2>2, <2>3
  <2>4. CASE SideOf(id) # "buy"
    <3>1. SideOf(id) = "sell" /\ id \in OpenSells(s)
      BY <2>1, <2>4 DEF SideOf, OpenSells, OpenOrders, GrownOrder, s
    <3>2. /\ Offered(s) = {[id |-> id, left |-> LeftOf(id)]} /\ LeftOf(id) \in Nat \ {0}
          /\ OpenSells(s) = {id}
      BY <2>1, <3>1, SoleOffer
    <3>3. /\ orders[id].quantity \in Int /\ orders[id].filled \in Int
      BY <1>1, ZeroQuantity DEF OrderRecord, Quantities
    <3>4. LeftOf(id)' = LeftOf(id) - 1
      BY <2>1, <3>3 DEF LeftOf, GrownOrder
    <3>5. OpenSells(s)' \subseteq {id}
      <4>1. \A i \in OrderIds : i # id => (i \in OpenSells(s)' => i \in OpenSells(s))
        BY <2>1 DEF OpenSells, OpenOrders, Live
      <4> QED BY <3>2, <4>1 DEF OpenSells, OpenOrders
    <3>6. id \in OpenSells(s)' <=> LeftOf(id) # 1
      <4>1. orders[id].filled + 1 = orders[id].quantity <=> LeftOf(id) = 1
        BY <3>3 DEF LeftOf
      <4>2. Live(id)' <=> LeftOf(id) # 1
        BY <2>1, <4>1 DEF GrownOrder, Live, ActiveStatuses
      <4> QED BY <3>1, <4>2 DEF OpenSells, OpenOrders
    <3>7. Offered(s)' = IF LeftOf(id) = 1 THEN {} ELSE {[id |-> id, left |-> LeftOf(id) - 1]}
      <4>1. CASE LeftOf(id) = 1
        <5>1. LiveSells(s)' = {}
          BY <2>1, <3>5, <3>6, <4>1, LiveSellsStayOpen
        <5> QED BY <4>1, <5>1 DEF Offered
      <4>2. CASE LeftOf(id) # 1
        BY <2>1, <3>4, <3>6, <4>2, SoleOfferNext
      <4> QED BY <4>1, <4>2
    <3>8. position' = [position EXCEPT ![s] = position[s] - 1]
      BY <2>2, <2>4
    <3>9. OfferMove(s)
      BY <3>2, <3>7, <3>8 DEF OfferMove
    <3> QED BY <1>2, <2>1, <3>9 DEF s
  <2> QED BY <2>3, <2>4
<1>4. ASSUME NEW id \in OrderIds, EndOrder(id) PROVE
          \/ UNCHANGED position /\ \A s \in Symbols : Offered(s)' = Offered(s)
          \/ \E s \in Symbols :
                 OfferMove(s) /\ \A r \in Symbols : r # s => Offered(r)' = Offered(r)
  <2> DEFINE s == SymbolOf(id)
  <2>1. /\ UNCHANGED position /\ \A i \in OrderIds : i # id => orders'[i] = orders[i]
        /\ s \in Symbols /\ Live(id) /\ ~Live(id)'
    BY <1>1, <1>4 DEF EndOrder, Live, ActiveStatuses
  <2> HIDE DEF s
  <2>2. CASE SideOf(id) = "buy"
    BY <1>2, <2>1, <2>2
  <2>3. CASE SideOf(id) # "buy"
    <3>1. id \in OpenSells(s)
      BY <2>1, <2>3 DEF SideOf, OpenSells, OpenOrders, s
    <3>2. /\ Offered(s) = {[id |-> id, left |-> LeftOf(id)]} /\ LeftOf(id) \in Nat \ {0}
          /\ OpenSells(s) = {id}
      BY <2>1, <3>1, SoleOffer
    <3>3. OpenSells(s)' = {}
      <4>1. \A i \in OrderIds : i # id => (i \in OpenSells(s)' => i \in OpenSells(s))
        BY <2>1 DEF OpenSells, OpenOrders, Live
      <4> QED BY <2>1, <3>2, <4>1 DEF OpenSells, OpenOrders
    <3>4. Offered(s)' = {}
      BY <2>1, <3>3, LiveSellsStayOpen DEF Offered
    <3>5. OfferMove(s)
      BY <2>1, <3>2, <3>4 DEF OfferMove
    <3> QED BY <1>2, <2>1, <3>5 DEF s
  <2> QED BY <2>2, <2>3
<1>5. ASSUME NEW id \in OrderIds PROVE ~Arrive(id)
  BY DEF Arrive, CustodyInv, InFlight
<1>6. ASSUME NEW ids \in SUBSET OrderIds, orders' = CancelRequested(ids), UNCHANGED position
      PROVE  UNCHANGED position /\ \A s \in Symbols : Offered(s)' = Offered(s)
  <2>1. \A id \in OrderIds : \/ orders'[id] = orders[id]
                             \/ Live(id) /\ StatusOnly(id, "pending_cancel")
    BY <1>1, <1>6 DEF CancelRequested, StatusOnly, OrderRecord
  <2> QED BY <1>6, <2>1, SameOffers
<1>7. ASSUME NEW id \in OrderIds, NewOrder(id), SideOf(id) = "sell", UNCHANGED position
      PROVE  OfferMove(SymbolOf(id))
  <2> DEFINE s == SymbolOf(id)
  <2>1. /\ s \in Symbols /\ OpenSells(s) = {} /\ orders'[id].quantity <= position[s]
        /\ orders'[id].status = "new" /\ orders'[id].filled = 0
    BY <1>1, <1>7, NewSell DEF NewOrder, NoLate
  <2>2. orders'[id].quantity \in 1..position[s]
    <3>1. orders'[id].quantity \in 1..MaxQuantity
      BY <1>7, CurrentIds DEF NewOrder
    <3> QED BY <1>1, <2>1, <3>1, ZeroQuantity
  <2>3. Offered(s) = {}
    BY <2>1, LiveSellsAreOpen DEF Offered
  <2>4. id \in OpenSells(s)'
    BY <1>7, <2>1 DEF OpenSells, OpenOrders, Live, ActiveStatuses
  <2>5. LeftOf(id)' = orders'[id].quantity
    BY <2>1, <2>2 DEF LeftOf
  <2>6. Offered(s)' = {[id |-> id, left |-> orders'[id].quantity]}
    BY <2>1, <2>4, <2>5, SoleOfferNext
  <2> QED BY <1>7, <2>2, <2>3, <2>6 DEF OfferMove
<1>8. ASSUME NEW o \in current, NEW status \in {"new", "in_flight"}, Requested(o, status)
      PROVE  \/ UNCHANGED position /\ \A s \in Symbols : Offered(s)' = Offered(s)
             \/ \E s \in Symbols :
                    OfferMove(s) /\ \A r \in Symbols : r # s => Offered(r)' = Offered(r)
  <2>1. /\ o.id \in OrderIds /\ UNCHANGED position
        /\ \A i \in OrderIds : i # o.id => orders'[i] = orders[i]
    BY <1>8, CurrentIds DEF Requested
  <2>2. CASE NewOrder(o.id) /\ SideOf(o.id) = "sell"
    BY <1>1, <1>2, <1>7, <2>1, <2>2
  <2>3. CASE SideOf(o.id) # "sell"
    BY <1>2, <2>1, <2>3 DEF SideOf
  <2>4. CASE ~NewOrder(o.id) /\ SideOf(o.id) = "sell"
    <3>1. /\ orders'[o.id].status \in {"new", "in_flight"} /\ pc \in {"send", "send_stop"}
          /\ ~Visible(o.id) \/ pc = "send"
      BY <1>8, <2>1 DEF Requested, TypeOK
    <3>2. pc = "send" => ~Sent(o.id)
      BY DEF KnownInv
    <3>3. orders'[o.id] = orders[o.id]
      BY <1>1, <2>1, <2>4, <3>1, <3>2 DEF OrderMove, GrownOrder, StatusOnly, NewQuantity,
                                          ReplaceableStop, Live, InFlight, Visible, Sent,
                                          CustodyInv, ActiveStatuses
    <3> QED BY <2>1, <3>3, SameOffers
  <2> QED BY <2>2, <2>3, <2>4
<1>9. ASSUME NEW q \in rows, NEW id \in seen[q], Replaced(q, id)
      PROVE  \E s \in Symbols :
                 OfferMove(s) /\ \A r \in Symbols : r # s => Offered(r)' = Offered(r)
  <2>1. /\ id \in StopIds /\ id \in OrderIds /\ SideOf(id) = "sell" /\ SymbolOf(id) = q
        /\ orders[id].status = "new" /\ orders[id].filled = 0 /\ q \in Symbols
        /\ view[q] > 0 /\ view[q] <= position[q] /\ pc = "protect"
    BY <1>9, StopParts DEF Replaced, ReplaceableStop, MemoryInv, CustodyInv
  <2>2. /\ UNCHANGED position /\ \A i \in OrderIds : i # id => orders'[i] = orders[i]
        /\ orders'[id].status = "new" /\ orders'[id].filled = 0
        /\ orders'[id].quantity = view[q]
    BY <1>1, <1>9, <2>1 DEF Replaced, OrderRecord
  <2>3. id \in OpenSells(q) /\ id \in OpenSells(q)'
    BY <2>1, <2>2 DEF OpenSells, OpenOrders, Live, ActiveStatuses
  <2>4. view[q] \in 1..position[q]
    BY <1>1, <2>1 DEF TypeOK
  <2>5. LeftOf(id)' = view[q]
    BY <2>2, <2>4 DEF LeftOf
  <2>6. Offered(q)' = {[id |-> id, left |-> view[q]]}
    BY <2>1, <2>3, <2>5, SoleOfferNext
  <2>7. OfferMove(q)
    BY <2>1, <2>2, <2>3, <2>4, <2>6, SoleOffer DEF OfferMove
  <2> QED BY <1>2, <2>1, <2>2, <2>7
<1>10. CASE UNCHANGED <<orders, position>>
  BY <1>10, SameOffers
<1> QED
  BY <1>3, <1>4, <1>5, <1>6, <1>8, <1>9, <1>10, OrderSplit

\* The offers of one symbol change as the custody allows.
LEMMA OffersImplemented ==
    ASSUME ExecInv, CustodyInv, CustodyInv', NoLate, [Next]_vars
    PROVE  [Custody!Next]_Custody!vars
<1> DEFINE offers == [s \in Symbols |->
                         {[id |-> id, left |-> orders[id].quantity - orders[id].filled] :
                              id \in LiveSells(s)}]
           Sells  == {id \in OrderIds : SideOf(id) = "sell"}
<1>1. /\ position \in [Symbols -> Int] /\ position' \in [Symbols -> Int]
      /\ \A s \in Symbols : offers[s] = Offered(s) /\ offers'[s] = Offered(s)'
      /\ offers = [s \in Symbols |-> offers[s]] /\ offers' = [s \in Symbols |-> offers'[s]]
  BY PositionMoves DEF ExecInv, TypeOK, Offered, LeftOf
<1> SUFFICES ASSUME <<position', offers'>> # <<position, offers>>
             PROVE  \E s \in Symbols : Custody!SymbolStep(s)
  BY DEF Custody!Next, Custody!vars
<1>2. CASE UNCHANGED position /\ \A s \in Symbols : Offered(s)' = Offered(s)
  <2> HIDE DEF offers
  <2> QED BY <1>1, <1>2
<1>3. ASSUME NEW s \in Symbols, position' = [position EXCEPT ![s] = position[s] + 1],
             \A r \in Symbols : Offered(r)' = Offered(r)
      PROVE  Custody!Acquire(s)
  <2>1. offers' = offers
    <3> HIDE DEF offers
    <3> QED BY <1>1, <1>3
  <2> QED BY <1>3, <2>1 DEF Custody!Acquire
<1>4. ASSUME NEW s \in Symbols, OfferMove(s),
             \A r \in Symbols : r # s => Offered(r)' = Offered(r)
      PROVE  Custody!SymbolStep(s)
  <2>1. offers' = [offers EXCEPT ![s] = Offered(s)'] /\ offers[s] = Offered(s)
    <3> HIDE DEF offers
    <3> QED BY <1>1, <1>4
  <2>2. position[s] \in Int
    BY <1>1
  <2>3. ASSUME NEW id \in Sells, NEW n \in 1..position[s], Offered(s) = {},
               Offered(s)' = {[id |-> id, left |-> n]}, UNCHANGED position
        PROVE  Custody!Offer(s, id, n)
    BY <2>1, <2>3 DEF Custody!Offer
  <2>4. ASSUME NEW id \in OrderIds, NEW left \in Nat \ {0}, NEW n \in 1..position[s],
               Offered(s) = {[id |-> id, left |-> left]},
               Offered(s)' = {[id |-> id, left |-> n]}, UNCHANGED position
        PROVE  Custody!Amend(s, [id |-> id, left |-> left], n)
    <3> DEFINE o == [id |-> id, left |-> left]
    <3>1. [o EXCEPT !.left = n] = [id |-> id, left |-> n] /\ o \in offers[s]
      BY <2>1, <2>4
    <3>2. offers' = [offers EXCEPT ![s] = {[o EXCEPT !.left = n]}]
      BY <2>1, <2>4, <3>1
    <3> QED BY <2>4, <3>1, <3>2 DEF Custody!Amend
  <2>5. ASSUME NEW id \in OrderIds, NEW left \in Nat \ {0},
               Offered(s) = {[id |-> id, left |-> left]},
               Offered(s)' = {}, UNCHANGED position
        PROVE  Custody!Withdraw(s, [id |-> id, left |-> left])
    BY <2>1, <2>5 DEF Custody!Withdraw
  <2>6. ASSUME NEW id \in OrderIds, NEW left \in Nat \ {0},
               Offered(s) = {[id |-> id, left |-> left]},
               Offered(s)' = IF left = 1 THEN {} ELSE {[id |-> id, left |-> left - 1]},
               position' = [position EXCEPT ![s] = position[s] - 1]
        PROVE  Custody!Execute(s, [id |-> id, left |-> left])
    <3> DEFINE o    == [id |-> id, left |-> left]
               next == [o EXCEPT !.left = o.left - 1]
    <3>1. next = [id |-> id, left |-> left - 1] /\ next.left = left - 1
      OBVIOUS
    <3>2. Offered(s)' = (Offered(s) \ {o}) \cup {r \in {next} : r.left > 0}
      BY <2>6, <3>1
    <3> HIDE DEF next
    <3>3. offers' = [offers EXCEPT ![s] = (offers[s] \ {o}) \cup {r \in {next} : r.left > 0}]
      BY <2>1, <3>2
    <3>4. o \in offers[s]
      BY <2>1, <2>6
    <3> QED BY <2>6, <3>3, <3>4 DEF Custody!Execute, next
  <2>7. CASE /\ \E id \in OrderIds, n \in 1..position[s] :
                    /\ SideOf(id) = "sell"
                    /\ Offered(s) = {} /\ Offered(s)' = {[id |-> id, left |-> n]}
             /\ UNCHANGED position
    BY <2>3, <2>7 DEF Custody!SymbolStep
  <2>8. ASSUME NEW id \in OrderIds, NEW left \in Nat \ {0},
               Offered(s) = {[id |-> id, left |-> left]},
               \/ /\ \E n \in 1..position[s] : Offered(s)' = {[id |-> id, left |-> n]}
                  /\ UNCHANGED position
               \/ /\ Offered(s)' = {}
                  /\ UNCHANGED position
               \/ /\ Offered(s)' = IF left = 1 THEN {} ELSE {[id |-> id, left |-> left - 1]}
                  /\ position' = [position EXCEPT ![s] = position[s] - 1]
        PROVE  Custody!SymbolStep(s)
    <3>1. [id |-> id, left |-> left] \in offers[s]
      BY <2>1, <2>8
    <3> QED BY <2>4, <2>5, <2>6, <2>8, <3>1 DEF Custody!SymbolStep
  <2> QED BY <1>4, <2>7, <2>8 DEF OfferMove
<1>5. \A s \in Symbols : Custody!Acquire(s) => Custody!SymbolStep(s)
  BY DEF Custody!SymbolStep
<1> QED
  BY <1>2, <1>3, <1>4, <1>5, OffersMove

\* Operator and broker together keep the custody: at any time a stop, the exit
\* that replaces it and every retry are one offer.
THEOREM CustodyIsKept ==
    ASSUME NoLate, NoRace
    PROVE  Spec => SharesInCustody
<1>1. Init => Custody!Init
  BY DEF Init, NoRemote, Custody!Init, LiveSells, Live, ActiveStatuses
<1>2. ExecInv /\ CustodyInv /\ CustodyInv' /\ [Next]_vars => [Custody!Next]_Custody!vars
  BY OffersImplemented
<1>3. NoStraggler
  BY DEF NoStraggler
<1> QED
  BY <1>1, <1>2, <1>3, ExecInvariant, CustodyInvariant, PTL DEF Spec, SharesInCustody, Custody!Spec

-----------------------------------------------------------------------------
(* What the promise is worth                                               *)

\* No step of the custody offers shares twice, or shares that are not held.
LEMMA CustodyStep ==
    ASSUME Custody!TypeOK, Custody!OneOfferWithinHoldings, [Custody!Next]_Custody!vars
    PROVE  (Custody!TypeOK /\ Custody!OneOfferWithinHoldings)'
<1> DEFINE offers == [s \in Symbols |->
                         {[id |-> id, left |-> orders[id].quantity - orders[id].filled] :
                              id \in LiveSells(s)}]
           Offers == [id : {id \in OrderIds : SideOf(id) = "sell"}, left : Nat \ {0}]
           Safe(held, o) ==
               /\ held \in [Symbols -> Nat] /\ o \in [Symbols -> SUBSET Offers]
               /\ \A s \in Symbols : /\ \A x, y \in o[s] : x = y
                                     /\ \A x \in o[s] : x.left <= held[s]
<1>1. /\ Custody!TypeOK /\ Custody!OneOfferWithinHoldings <=> Safe(position, offers)
      /\ (Custody!TypeOK /\ Custody!OneOfferWithinHoldings)' <=> Safe(position', offers')
  BY DEF Custody!TypeOK, Custody!OneOfferWithinHoldings, Custody!Offers
<1>2. \/ UNCHANGED position /\ offers' = offers
      \/ \E s \in Symbols :
            \/ /\ position' = [position EXCEPT ![s] = @ + 1]
               /\ offers' = offers
            \/ /\ \E id \in {id \in OrderIds : SideOf(id) = "sell"}, n \in 1..position[s] :
                     offers' = [offers EXCEPT ![s] = {[id |-> id, left |-> n]}]
               /\ UNCHANGED position
            \/ \E o \in offers[s] :
                  \/ /\ position' = [position EXCEPT ![s] = @ - 1]
                     /\ offers' = [offers EXCEPT ![s] = (@ \ {o}) \cup
                                      {r \in {[o EXCEPT !.left = @ - 1]} : r.left > 0}]
                  \/ offers' = [offers EXCEPT ![s] = @ \ {o}] /\ UNCHANGED position
                  \/ \E n \in 1..position[s] :
                        /\ offers' = [offers EXCEPT ![s] = {[o EXCEPT !.left = n]}]
                        /\ UNCHANGED position
  BY DEF Custody!Next, Custody!vars, Custody!SymbolStep, Custody!Acquire, Custody!Offer,
         Custody!Execute, Custody!Withdraw, Custody!Amend
<1> HIDE DEF offers
<1> SUFFICES Safe(position', offers')
  BY <1>1
<1>3. Safe(position, offers)
  BY <1>1
<1>4. ASSUME NEW s \in Symbols, NEW n \in Nat \ {0}, n <= position[s], UNCHANGED position,
             NEW o \in Offers, o.left = n, offers' = [offers EXCEPT ![s] = {o}]
      PROVE  Safe(position', offers')
  BY <1>3, <1>4
<1>5. ASSUME NEW s \in Symbols, NEW o \in offers[s],
             position' = [position EXCEPT ![s] = @ - 1],
             offers' = [offers EXCEPT ![s] = (@ \ {o}) \cup
                           {r \in {[o EXCEPT !.left = @ - 1]} : r.left > 0}]
      PROVE  Safe(position', offers')
  <2>1. /\ o \in Offers /\ offers[s] \ {o} = {}
        /\ o.left \in Nat \ {0} /\ position[s] \in Nat /\ o.left <= position[s]
    BY <1>3
  <2> DEFINE rest == {r \in {[o EXCEPT !.left = @ - 1]} : r.left > 0}
  <2>2. \A r \in rest : r \in Offers /\ r.left = o.left - 1
    BY <2>1
  <2>3. \A r, q \in rest : r = q
    OBVIOUS
  <2>4. position' = [position EXCEPT ![s] = position[s] - 1] /\ offers' = [offers EXCEPT ![s] = rest]
    BY <1>5, <2>1
  <2> HIDE DEF rest, Offers
  <2>5. position' \in [Symbols -> Nat] /\ offers' \in [Symbols -> SUBSET Offers]
    BY <1>3, <2>1, <2>2, <2>4
  <2>6. \A q \in Symbols : /\ \A r, u \in offers'[q] : r = u
                           /\ \A r \in offers'[q] : r.left <= position'[q]
    <3> TAKE q \in Symbols
    <3>1. CASE q = s
      BY <1>3, <3>1, <2>1, <2>2, <2>3, <2>4
    <3>2. CASE q # s
      BY <1>3, <3>2, <2>4
    <3> QED BY <3>1, <3>2
  <2> QED
    BY <2>5, <2>6
<1>6. ASSUME NEW s \in Symbols, position' = [position EXCEPT ![s] = @ + 1], offers' = offers
      PROVE  Safe(position', offers')
  BY <1>3, <1>6
<1>7. ASSUME NEW s \in Symbols, NEW o \in offers[s], UNCHANGED position,
             offers' = [offers EXCEPT ![s] = @ \ {o}]
      PROVE  Safe(position', offers')
  BY <1>3, <1>7
<1>8. ASSUME NEW s \in Symbols, NEW id \in {id \in OrderIds : SideOf(id) = "sell"},
             NEW n \in 1..position[s], UNCHANGED position,
             offers' = [offers EXCEPT ![s] = {[id |-> id, left |-> n]}]
      PROVE  Safe(position', offers')
  BY <1>3, <1>4, <1>8
<1>9. ASSUME NEW s \in Symbols, NEW o \in offers[s], NEW n \in 1..position[s], UNCHANGED position,
             offers' = [offers EXCEPT ![s] = {[o EXCEPT !.left = n]}]
      PROVE  Safe(position', offers')
  <2> DEFINE amended == [o EXCEPT !.left = n]
  <2>1. amended \in Offers /\ amended.left = n /\ n \in Nat \ {0} /\ n <= position[s]
    BY <1>3
  <2> HIDE DEF amended, Safe, Offers
  <2> QED BY <1>4, <1>9, <2>1 DEF amended
<1> QED
  <2> HIDE DEF Safe
  <2> QED BY <1>2, <1>3, <1>5, <1>6, <1>7, <1>8, <1>9

\* Whatever keeps the custody never has two sell orders of a symbol on offer,
\* nor one for more shares than are held, so that no holding becomes negative.
THEOREM CustodyIsSafe ==
    SharesInCustody => [](Custody!TypeOK /\ Custody!OneOfferWithinHoldings)
<1>1. Custody!Init => Custody!TypeOK /\ Custody!OneOfferWithinHoldings
  BY ExecutionAssumption DEF Custody!Init, Custody!TypeOK, Custody!OneOfferWithinHoldings, Quantities
<1>2. /\ Custody!TypeOK /\ Custody!OneOfferWithinHoldings /\ [Custody!Next]_Custody!vars
      => (Custody!TypeOK /\ Custody!OneOfferWithinHoldings)'
  BY CustodyStep
<1> QED
  BY <1>1, <1>2, PTL DEF SharesInCustody, Custody!Spec

\* The operator and the broker do.
COROLLARY OneOfferAtATime ==
    ASSUME NoLate, NoRace
    PROVE  Spec => [](Custody!TypeOK /\ Custody!OneOfferWithinHoldings)
BY CustodyIsKept, CustodyIsSafe, PTL

=============================================================================
