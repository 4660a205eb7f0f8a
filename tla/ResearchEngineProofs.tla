------------------------ MODULE ResearchEngineProofs ------------------------
(***************************************************************************)
(* Proofs about ResearchEngine, for any symbols, bars, signals, limits,    *)
(* sizes, dividends and splits.                                            *)
(*                                                                         *)
(* The engine folds over lists: the orders of an open, the candidates of a *)
(* plan, the positions a split touches.  Each fold is read as a chain of   *)
(* states, one for every prefix of its list (Together), and one lemma per  *)
(* fold says what the whole chain keeps (OnlyChain, PlanChain, SplitChain, *)
(* ExecuteChain, StopChain).  What an account is worth is a sum over       *)
(* symbols, of which a trade or a split moves one term.                    *)
(*                                                                         *)
(* EngineInv joins the types with what the phases pass on: a plan has its  *)
(* sells first, a close is reached without orders and with marks, and a    *)
(* dividend is owed once.  HaltedHoldingsOnSale is inductive beside it.    *)
(* The limits need Prudent, carried from one order of an open to the next: *)
(* a fill makes the account worth no more, and an order that was sized at  *)
(* a limit leaves it kept when the next one is filled.  The last part      *)
(* compares the two engines phase by phase: TradingEngine has operators of *)
(* its own through INSTANCE, which are equal to these by their bodies.     *)
(***************************************************************************)
EXTENDS ResearchEngine, FiniteSetTheorems, WellFoundedInduction, TLAPS

-----------------------------------------------------------------------------
(* Folds over lists                                                        *)

\* Induction over the natural numbers, for a set instead of a predicate.
LEMMA Induction ==
  ASSUME NEW S, 0 \in S, \A n \in Nat : n \in S => n + 1 \in S
  PROVE  Nat \subseteq S
<1> DEFINE T == Nat \ S
           R == OpToRel(<, Nat)
<1>1. SUFFICES ASSUME T # {} PROVE FALSE
  OBVIOUS
<1>2. IsWellFoundedOn(R, Nat)
  BY NatLessThanWellFounded
<1> HIDE DEF R
<1>3. PICK x \in T : \A y \in T : <<y, x>> \notin R
  BY <1>1, <1>2, WFMin
<1>4. x # 0 /\ x - 1 \in Nat
  OBVIOUS
<1>5. <<x - 1, x>> \in R
  BY <1>4 DEF R, OpToRel
<1>6. x - 1 \in S
  BY <1>3, <1>4, <1>5
<1> QED
  BY <1>4, <1>6

\* The same up to a bound.
LEMMA InductionUpTo ==
  ASSUME NEW n \in Nat, NEW S, 0 \in S, \A i \in 1..n : i - 1 \in S => i \in S
  PROVE  0..n \subseteq S
<1> DEFINE T == {i \in Nat : i <= n => i \in S}
<1>1. 0 \in T
  OBVIOUS
<1>2. ASSUME NEW i \in Nat, i \in T PROVE i + 1 \in T
  <2>1. i + 1 <= n => i + 1 \in 1..n /\ (i + 1) - 1 = i
    OBVIOUS
  <2> QED
    BY <1>2, <2>1
<1> HIDE DEF T
<1>3. Nat \subseteq T
  BY <1>1, <1>2, Induction
<1> QED
  BY <1>3 DEF T

\* The recursive function behind a fold whose steps are given by a function.
Iter(it, base, step, n) ==
  it = [s \in SUBSET (1..n) |-> IF s = {} THEN base ELSE step[Max(s)][it[s \ {Max(s)}]]]

LEMMA MaxOfPrefix ==
  ASSUME NEW n \in Nat, NEW s \in SUBSET (1..(n + 1)), n + 1 \in s
  PROVE  Max(s) = n + 1
<1>1. n + 1 \in s /\ \A y \in s : y \in Nat /\ n + 1 >= y
  OBVIOUS
<1>2. \A x \in s : (\A y \in s : x >= y) => x = n + 1
  BY <1>1
<1> QED
  BY <1>1, <1>2 DEF Max

LEMMA MaxInside ==
  ASSUME NEW n \in Nat, NEW s \in SUBSET (1..n), s # {}
  PROVE  Max(s) \in s
<1> DEFINE S == {m \in 0..n : \A t \in SUBSET (1..m) : t # {} => \E x \in t : \A y \in t : x >= y}
<1>1. 0 \in S
  <2>1. 0 \in 0..n /\ 1..0 = {}
    OBVIOUS
  <2> QED
    BY <2>1
<1>2. ASSUME NEW m \in 1..n, m - 1 \in S PROVE m \in S
  <2> SUFFICES ASSUME NEW t \in SUBSET (1..m), t # {} PROVE \E x \in t : \A y \in t : x >= y
    OBVIOUS
  <2>1. CASE m \in t
    BY <2>1
  <2>2. CASE m \notin t
    <3>1. t \in SUBSET (1..(m - 1))
      <4> SUFFICES ASSUME NEW e \in t PROVE e \in 1..(m - 1)
        OBVIOUS
      <4> QED
        BY <2>2
    <3> QED
      BY <1>2, <3>1
  <2> QED
    BY <2>1, <2>2
<1> HIDE DEF S
<1>3. 0..n \subseteq S
  BY <1>1, <1>2, InductionUpTo
<1>4. \E x \in s : \A y \in s : x >= y
  <2>1. n \in S
    BY <1>3
  <2> QED
    BY <2>1 DEF S
<1> QED
  BY <1>4 DEF Max

\* It exists, for lists of any length and values of any set closed under the steps.
LEMMA FoldExists ==
  ASSUME NEW n \in Nat, NEW X, NEW base \in X, NEW step \in [1..n -> [X -> X]]
  PROVE  \E it \in [SUBSET (1..n) -> X] : Iter(it, base, step, n)
<1> DEFINE S == {m \in Nat : \E it \in [SUBSET (1..m) -> X] : Iter(it, base, step, m)}
<1>1. 0 \in S
  <2> DEFINE zero == [s \in SUBSET (1..0) |-> base]
  <2>1. zero \in [SUBSET (1..0) -> X] /\ Iter(zero, base, step, 0)
    BY DEF Iter
  <2> QED
    BY <2>1
<1>2. ASSUME NEW i \in 1..n, i - 1 \in S PROVE i \in S
  <2> DEFINE m == i - 1
  <2>1. m \in Nat /\ i = m + 1 /\ step[i] \in [X -> X]
    OBVIOUS
  <2> HIDE DEF m
  <2>2. PICK it \in [SUBSET (1..m) -> X] : Iter(it, base, step, m)
    BY <1>2 DEF m
  <2> DEFINE next == [s \in SUBSET (1..i) |->
                        IF i \in s THEN step[i][it[s \ {i}]] ELSE it[s]]
  <2>3. \A s \in SUBSET (1..m) :
          it[s] = IF s = {} THEN base ELSE step[Max(s)][it[s \ {Max(s)}]]
    BY <2>2 DEF Iter
  <2>4. \A s \in SUBSET (1..m) : i \notin s /\ s \in SUBSET (1..i) /\ next[s] = it[s]
    BY <2>1
  <2>5. \A s \in SUBSET (1..i) : s \ {i} \in SUBSET (1..m) /\ (i \notin s => s \in SUBSET (1..m))
    <3> SUFFICES ASSUME NEW s \in SUBSET (1..i), NEW e \in s, e # i PROVE e \in 1..m
      OBVIOUS
    <3> QED
      BY <2>1
  <2>6. next \in [SUBSET (1..i) -> X]
    BY <2>1, <2>2, <2>5
  <2>7. ASSUME NEW s \in SUBSET (1..i)
        PROVE  next[s] = IF s = {} THEN base ELSE step[Max(s)][next[s \ {Max(s)}]]
    <3>1. CASE i \in s
      <4>1. Max(s) = i
        BY <2>1, <3>1, MaxOfPrefix
      <4>2. next[s \ {i}] = it[s \ {i}]
        BY <2>4, <2>5
      <4> QED
        BY <3>1, <4>1, <4>2
    <3>2. CASE i \notin s
      <4>1. s \in SUBSET (1..m) /\ s \ {Max(s)} \in SUBSET (1..m)
        BY <2>5, <3>2
      <4> HIDE DEF next
      <4> QED
        BY <2>3, <2>4, <4>1
    <3> QED
      BY <3>1, <3>2
  <2>8. Iter(next, base, step, i)
    BY <2>7 DEF Iter
  <2>9. i \in Nat /\ \E t \in [SUBSET (1..i) -> X] : Iter(t, base, step, i)
    <3> HIDE DEF next
    <3> QED
      BY <2>6, <2>8
  <2> QED
    BY <2>9
<1> HIDE DEF S
<1>3. 0..n \subseteq S
  BY <1>1, <1>2, InductionUpTo
<1>4. n \in S
  BY <1>3
<1> QED
  BY <1>4 DEF S

\* The values that a fold passes through.
Chain(states, base, step, n, X) ==
  /\ states \in [0..n -> X]
  /\ states[0] = base
  /\ \A i \in 1..n : states[i] = step[i][states[i - 1]]

\* What is known of a fold: its equation, where its values are in X.
Unfolds(fold, base, step, n, X) ==
  /\ fold[{}] = base
  /\ \A s \in SUBSET (1..n) :
       s # {} /\ fold[s \ {Max(s)}] \in X => fold[s] = step[Max(s)][fold[s \ {Max(s)}]]

LEMMA FoldChain ==
  ASSUME NEW n \in Nat, NEW X, NEW base \in X, NEW step \in [1..n -> [X -> X]],
         NEW fold, Unfolds(fold, base, step, n, X)
  PROVE  Chain([i \in 0..n |-> fold[1..i]], base, step, n, X)
<1> DEFINE S == {i \in 0..n : fold[1..i] \in X}
<1>1. fold[1..0] = base
  <2>1. 1..0 = {}
    OBVIOUS
  <2> QED
    BY <2>1 DEF Unfolds
<1>2. ASSUME NEW i \in 1..n, fold[1..(i - 1)] \in X
      PROVE  fold[1..i] = step[i][fold[1..(i - 1)]]
  <2>1. /\ i \in 1..i /\ 1..i \in SUBSET (1..n) /\ (1..i) \ {i} = 1..(i - 1)
        /\ i - 1 \in Nat /\ (i - 1) + 1 = i
    OBVIOUS
  <2>2. Max(1..i) = i
    BY <2>1, MaxOfPrefix
  <2> QED
    BY <1>2, <2>1, <2>2 DEF Unfolds
<1>3. 0 \in S
  BY <1>1
<1>4. ASSUME NEW i \in 1..n, i - 1 \in S PROVE i \in S
  <2>1. fold[1..(i - 1)] \in X /\ step[i] \in [X -> X] /\ i \in 0..n
    BY <1>4
  <2> QED
    BY <1>2, <2>1
<1> HIDE DEF S
<1>5. 0..n \subseteq S
  BY <1>3, <1>4, InductionUpTo
<1>6. \A i \in 0..n : fold[1..i] \in X
  BY <1>5 DEF S
<1> DEFINE states == [i \in 0..n |-> fold[1..i]]
<1>7. states \in [0..n -> X] /\ states[0] = base
  BY <1>1, <1>6
<1>8. ASSUME NEW i \in 1..n PROVE states[i] = step[i][states[i - 1]]
  <2>1. i \in 0..n /\ i - 1 \in 0..n
    OBVIOUS
  <2> QED
    BY <1>2, <1>6, <2>1
<1> HIDE DEF states
<1>9. Chain(states, base, step, n, X)
  BY <1>7, <1>8 DEF Chain
<1> QED
  BY <1>9 DEF states

LEMMA FoldStates ==
  ASSUME NEW n \in Nat, NEW X, NEW base \in X, NEW step \in [1..n -> [X -> X]],
         NEW fold, Unfolds(fold, base, step, n, X)
  PROVE  \E states : Chain(states, base, step, n, X) /\ fold[1..n] = states[n]
<1> DEFINE states == [i \in 0..n |-> fold[1..i]]
<1>1. Chain(states, base, step, n, X)
  BY FoldChain
<1>2. fold[1..n] = states[n]
  OBVIOUS
<1> HIDE DEF states
<1> QED
  BY <1>1, <1>2

\* Two chains that start and continue alike.
Together(a, b, n) ==
  a[0] = b[0] /\ \A i \in 1..n : a[i - 1] = b[i - 1] => a[i] = b[i]

LEMMA ChainUnique ==
  ASSUME NEW n \in Nat, NEW a, NEW b, Together(a, b, n)
  PROVE  \A i \in 0..n : a[i] = b[i]
<1> DEFINE S == {i \in 0..n : a[i] = b[i]}
<1>1. 0 \in S
  BY DEF Together
<1>2. ASSUME NEW i \in 1..n, i - 1 \in S PROVE i \in S
  BY <1>2 DEF Together
<1> HIDE DEF S
<1>3. 0..n \subseteq S
  BY <1>1, <1>2, InductionUpTo
<1> QED
  BY <1>3 DEF S

-----------------------------------------------------------------------------
(* Filtered lists                                                          *)

\* The lists that Only passes through.
Keeps(kept, list, set, E) ==
  /\ kept \in [0..Len(list) -> Seq(E)]
  /\ kept[0] = <<>>
  /\ \A i \in 1..Len(list) :
       kept[i] = IF list[i] \in set THEN Append(kept[i - 1], list[i]) ELSE kept[i - 1]
  /\ Only(list, set) = kept[Len(list)]

LEMMA OnlyChain ==
  ASSUME NEW E, NEW list \in Seq(E), NEW set
  PROVE  \E kept : Keeps(kept, list, set, E)
<1> DEFINE n == Len(list)
           X == Seq(E)
           O(kept, x) == IF x \in set THEN Append(kept, x) ELSE kept
           step == [i \in 1..n |-> [kept \in X |-> O(kept, list[i])]]
           F(it) == [s \in SUBSET (1..n) |->
                       IF s = {} THEN <<>> ELSE O(it[s \ {Max(s)}], list[Max(s)])]
           fold == CHOOSE it : it = F(it)
<1>1. n \in Nat /\ DOMAIN list = 1..n /\ \A i \in 1..n : list[i] \in E
  OBVIOUS
<1>2. <<>> \in X /\ step \in [1..n -> [X -> X]]
  BY <1>1
<1>3. Only(list, set) = fold[1..n]
  <2>1. Only(list, set) =
          (CHOOSE it : it = [s \in SUBSET (DOMAIN list) |->
              IF s = {} THEN <<>> ELSE O(it[s \ {Max(s)}], list[Max(s)])])[DOMAIN list]
    BY DEF Only, FoldLeft, MapThenFoldSet
  <2> QED
    BY <1>1, <2>1
<1>4. fold = F(fold)
  <2>1. PICK it \in [SUBSET (1..n) -> X] : Iter(it, <<>>, step, n)
    BY <1>1, <1>2, FoldExists
  <2>2. it = F(it)
    <3>1. ASSUME NEW s \in SUBSET (1..n), s # {}
          PROVE  step[Max(s)][it[s \ {Max(s)}]] = O(it[s \ {Max(s)}], list[Max(s)])
      <4>1. Max(s) \in 1..n /\ it[s \ {Max(s)}] \in X
        BY <1>1, <3>1, MaxInside
      <4> QED
        BY <4>1
    <3> QED
      BY <2>1, <3>1 DEF Iter
  <2> HIDE DEF F
  <2> QED
    BY <2>2
<1> HIDE DEF fold
<1>5. Unfolds(fold, <<>>, step, n, X)
  <2>1. fold[{}] = <<>>
    BY <1>4
  <2>2. ASSUME NEW s \in SUBSET (1..n), s # {}, fold[s \ {Max(s)}] \in X
        PROVE  fold[s] = step[Max(s)][fold[s \ {Max(s)}]]
    <3>1. Max(s) \in 1..n
      BY <1>1, <2>2, MaxInside
    <3> QED
      BY <1>4, <2>2, <3>1
  <2> HIDE DEF step, X
  <2> QED
    BY <2>1, <2>2 DEF Unfolds
<1> DEFINE kept == [i \in 0..n |-> fold[1..i]]
<1>6. Chain(kept, <<>>, step, n, X)
  <2> HIDE DEF step, X
  <2> QED
    BY <1>1, <1>2, <1>5, FoldChain
<1>7. kept[n] = fold[1..n]
  BY <1>1
<1> HIDE DEF kept
<1>8. ASSUME NEW i \in 1..n
      PROVE  kept[i] = IF list[i] \in set THEN Append(kept[i - 1], list[i]) ELSE kept[i - 1]
  <2>1. i - 1 \in 0..n
    BY <1>1
  <2>2. kept[i - 1] \in X /\ kept[i] = step[i][kept[i - 1]]
    <3> HIDE DEF step, X
    <3> QED
      BY <1>6, <2>1 DEF Chain
  <2> QED
    BY <2>2
<1> QED
  BY <1>3, <1>6, <1>7, <1>8 DEF Keeps, Chain

\* A filtered list has the entries of the list that are in the set, and no others.
LEMMA OnlyMembers ==
  ASSUME NEW E, NEW list \in Seq(E), NEW set
  PROVE  /\ Only(list, set) \in Seq(E)
         /\ \A j \in DOMAIN Only(list, set) :
              /\ Only(list, set)[j] \in set
              /\ \E i \in DOMAIN list : list[i] = Only(list, set)[j]
         /\ \A i \in DOMAIN list :
              list[i] \in set => \E j \in DOMAIN Only(list, set) : Only(list, set)[j] = list[i]
<1> DEFINE n == Len(list)
<1>1. n \in Nat /\ DOMAIN list = 1..n /\ \A i \in 1..n : list[i] \in E
  OBVIOUS
<1>2. PICK kept : Keeps(kept, list, set, E)
  BY OnlyChain
<1> DEFINE From(k, m) == \A j \in DOMAIN k : k[j] \in set /\ \E i \in 1..m : list[i] = k[j]
           All(k, m) == \A i \in 1..m : list[i] \in set => \E j \in DOMAIN k : k[j] = list[i]
           S == {m \in 0..n : From(kept[m], m) /\ All(kept[m], m)}
<1>3. 0 \in S
  <2>1. kept[0] = <<>> /\ 1..0 = {} /\ 0 \in 0..n
    BY <1>1, <1>2 DEF Keeps
  <2> QED
    BY <2>1
<1>4. ASSUME NEW m \in 1..n, m - 1 \in S PROVE m \in S
  <2> DEFINE k == kept[m - 1]
             x == list[m]
  <2>1. m - 1 \in 0..n /\ m \in 0..n /\ x \in E
    BY <1>1
  <2>2. k \in Seq(E) /\ kept[m] = IF x \in set THEN Append(k, x) ELSE k
    BY <1>2, <2>1 DEF Keeps
  <2>3. From(k, m - 1) /\ All(k, m - 1)
    BY <1>4
  <2>4. \A i \in 1..m : i = m \/ i \in 1..(m - 1)
    BY <1>1
  <2>5. \A i \in 1..(m - 1) : i \in 1..m
    BY <1>1
  <2>6. m \in 1..m
    BY <1>1
  <2> HIDE DEF k
  <2>7. CASE x \in set
    <3> DEFINE a == Append(k, x)
    <3>1. /\ a \in Seq(E) /\ DOMAIN k \subseteq DOMAIN a /\ Len(k) + 1 \in DOMAIN a
          /\ \A j \in DOMAIN a : j \in DOMAIN k \/ j = Len(k) + 1
          /\ \A j \in DOMAIN k : a[j] = k[j]
          /\ a[Len(k) + 1] = x
      BY <2>1, <2>2
    <3>2. kept[m] = a
      BY <2>2, <2>7
    <3> HIDE DEF a
    <3>3. From(a, m)
      BY <2>3, <2>5, <2>6, <2>7, <3>1
    <3>4. All(a, m)
      BY <2>3, <2>4, <3>1
    <3> QED
      BY <2>1, <3>2, <3>3, <3>4
  <2>8. CASE x \notin set
    <3>1. kept[m] = k
      BY <2>2, <2>8
    <3> QED
      BY <2>1, <2>3, <2>4, <2>5, <2>8, <3>1
  <2> QED
    BY <2>7, <2>8
<1> HIDE DEF S
<1>5. 0..n \subseteq S /\ n \in 0..n
  <2>1. 0..n \subseteq S
    BY <1>1, <1>3, <1>4, InductionUpTo
  <2> QED
    BY <1>1, <2>1
<1>6. Only(list, set) = kept[n] /\ kept[n] \in Seq(E)
  BY <1>2, <1>5 DEF Keeps
<1>7. From(kept[n], n) /\ All(kept[n], n)
  BY <1>5 DEF S
<1> QED
  BY <1>1, <1>6, <1>7

\* Nothing is dropped from a list whose entries are all in the set.
LEMMA OnlyAll ==
  ASSUME NEW E, NEW list \in Seq(E), NEW set, \A i \in DOMAIN list : list[i] \in set
  PROVE  Only(list, set) = list
<1> DEFINE n == Len(list)
           First(m) == SubSeq(list, 1, m)
<1>1. n \in Nat /\ DOMAIN list = 1..n /\ \A i \in 1..n : list[i] \in E
  OBVIOUS
<1>2. PICK kept : Keeps(kept, list, set, E)
  BY OnlyChain
<1>3. First(0) = <<>> /\ First(n) = list
  BY <1>1
<1>4. ASSUME NEW m \in 1..n, kept[m - 1] = First(m - 1) PROVE kept[m] = First(m)
  <2>1. kept[m] = Append(First(m - 1), list[m])
    BY <1>1, <1>2, <1>4 DEF Keeps
  <2>2. Append(First(m - 1), list[m]) = First(m)
    BY <1>1
  <2> QED
    BY <2>1, <2>2
<1> DEFINE first == [m \in 0..n |-> First(m)]
<1>5. \A m \in 0..n : first[m] = First(m)
  OBVIOUS
<1>6. kept[0] = first[0] /\ \A m \in 1..n : kept[m - 1] = first[m - 1] => kept[m] = first[m]
  <2>1. kept[0] = <<>> /\ 0 \in 0..n /\ \A m \in 1..n : m \in 0..n /\ m - 1 \in 0..n
    BY <1>1, <1>2 DEF Keeps
  <2> HIDE DEF first, First
  <2> QED
    BY <1>3, <1>4, <1>5, <2>1
<1> HIDE DEF first
<1>7. \A m \in 0..n : kept[m] = first[m]
  <2>1. Together(kept, first, n) /\ n \in Nat
    BY <1>1, <1>6 DEF Together
  <2> HIDE DEF n
  <2> QED
    BY <2>1, ChainUnique
<1> QED
  BY <1>1, <1>2, <1>3, <1>5, <1>7 DEF Keeps

\* A plan lists its sells ahead of its buys, and keeps them so when orders are dropped.
SellsFirst(orders) ==
  \A i, j \in DOMAIN orders : i < j /\ orders[j].side = "sell" => orders[i].side = "sell"

LEMMA OnlySellsFirst ==
  ASSUME NEW E, NEW list \in Seq(E), NEW set, SellsFirst(list)
  PROVE  SellsFirst(Only(list, set))
<1> DEFINE n == Len(list)
<1>1. n \in Nat /\ DOMAIN list = 1..n /\ \A i \in 1..n : list[i] \in E
  OBVIOUS
<1>2. PICK kept : Keeps(kept, list, set, E)
  BY OnlyChain
<1> DEFINE From(k, m) == \A j \in DOMAIN k : \E i \in 1..m : list[i] = k[j]
           S == {m \in 0..n : From(kept[m], m) /\ SellsFirst(kept[m])}
<1>3. 0 \in S
  <2>1. kept[0] = <<>> /\ 1..0 = {} /\ 0 \in 0..n
    BY <1>1, <1>2 DEF Keeps
  <2> QED
    BY <2>1 DEF SellsFirst
<1>4. ASSUME NEW m \in 1..n, m - 1 \in S PROVE m \in S
  <2> DEFINE k == kept[m - 1]
             x == list[m]
  <2>1. m - 1 \in 0..n /\ m \in 0..n /\ x \in E
    BY <1>1
  <2>2. k \in Seq(E) /\ kept[m] = IF x \in set THEN Append(k, x) ELSE k
    BY <1>2, <2>1 DEF Keeps
  <2>3. From(k, m - 1) /\ SellsFirst(k)
    BY <1>4
  <2>4. \A i \in 1..(m - 1) : i \in 1..m /\ i < m /\ i \in 1..n
    BY <1>1
  <2>5. m \in 1..m
    BY <1>1
  <2> HIDE DEF k
  <2>6. CASE x \in set
    <3> DEFINE a == Append(k, x)
    <3>1. /\ a \in Seq(E) /\ DOMAIN k \subseteq DOMAIN a /\ Len(k) + 1 \in DOMAIN a
          /\ \A j \in DOMAIN a : j \in DOMAIN k \/ j = Len(k) + 1
          /\ \A j \in DOMAIN k : a[j] = k[j] /\ j \in Nat /\ j < Len(k) + 1
          /\ a[Len(k) + 1] = x /\ Len(k) \in Nat
      BY <2>1, <2>2
    <3>2. kept[m] = a
      BY <2>2, <2>6
    <3> HIDE DEF a
    <3>3. From(a, m)
      BY <2>3, <2>4, <2>5, <2>6, <3>1
    <3>4. ASSUME NEW i \in DOMAIN a, NEW j \in DOMAIN a, i < j, a[j].side = "sell"
          PROVE  a[i].side = "sell"
      <4>1. i \in DOMAIN k
        BY <3>1, <3>4
      <4>2. CASE j \in DOMAIN k
        BY <2>3, <3>1, <3>4, <4>1, <4>2 DEF SellsFirst
      <4>3. CASE j = Len(k) + 1
        <5>1. x.side = "sell" /\ \E p \in 1..(m - 1) : list[p] = k[i]
          BY <2>3, <3>1, <3>4, <4>1, <4>3
        <5>2. \A p \in 1..(m - 1) : list[p].side = "sell"
          BY <1>1, <2>4, <5>1 DEF SellsFirst
        <5> QED
          BY <3>1, <4>1, <5>1, <5>2
      <4> QED
        BY <3>1, <4>2, <4>3
    <3> QED
      BY <2>1, <3>2, <3>3, <3>4 DEF SellsFirst
  <2>7. CASE x \notin set
    <3>1. kept[m] = k
      BY <2>2, <2>7
    <3> QED
      BY <2>1, <2>3, <2>4, <3>1
  <2> QED
    BY <2>6, <2>7
<1> HIDE DEF S
<1>5. 0..n \subseteq S
  BY <1>1, <1>3, <1>4, InductionUpTo
<1>6. Only(list, set) = kept[n] /\ n \in S
  BY <1>1, <1>2, <1>5 DEF Keeps
<1> QED
  BY <1>6 DEF S

-----------------------------------------------------------------------------
(* Sums over finite sets                                                   *)

\* Induction over the subsets of a finite set.
LEMMA FiniteInduction ==
  ASSUME NEW S, IsFiniteSet(S), NEW T, {} \in T,
         \A A \in SUBSET S : \A x \in S \ A : A \in T => A \cup {x} \in T
  PROVE  SUBSET S \subseteq T
<1> DEFINE N == {n \in Nat : \A A \in SUBSET S : Cardinality(A) = n => A \in T}
<1>1. \A A \in SUBSET S : /\ IsFiniteSet(A) /\ Cardinality(A) \in Nat
                          /\ (Cardinality(A) = 0 <=> A = {})
  BY FS_Subset, FS_CardinalityType, FS_EmptySet
<1>2. 0 \in N
  BY <1>1
<1>3. ASSUME NEW n \in Nat, n \in N PROVE n + 1 \in N
  <2> SUFFICES ASSUME NEW A \in SUBSET S, Cardinality(A) = n + 1 PROVE A \in T
    OBVIOUS
  <2>1. PICK x : x \in A
    BY <1>1
  <2>2. A \ {x} \in SUBSET S /\ x \in S \ (A \ {x}) /\ (A \ {x}) \cup {x} = A
    BY <2>1
  <2>3. Cardinality(A \ {x}) = n
    <3>1. Cardinality(A \ {x}) = Cardinality(A) - 1
      BY <1>1, <2>1, FS_RemoveElement
    <3> QED
      BY <3>1
  <2> QED
    BY <1>3, <2>2, <2>3
<1> HIDE DEF N
<1>4. Nat \subseteq N
  BY <1>2, <1>3, Induction
<1>5. ASSUME NEW A \in SUBSET S PROVE A \in T
  <2>1. Cardinality(A) \in N
    BY <1>1, <1>4
  <2> QED
    BY <2>1 DEF N
<1> QED
  BY <1>5

\* The sum of a function over a set, taken as MapThenSumSet takes it.
Pick(s)   == CHOOSE x \in s : TRUE
Sum(f, S) == MapThenSumSet(LAMBDA x : f[x], S)

Folds(fold, f, S) ==
  \A s \in SUBSET S : fold[s] = IF s = {} THEN 0 ELSE f[Pick(s)] + fold[s \ {Pick(s)}]

\* The recursive function behind the sum, on the sets of at most n elements.
Adds(it, f, S, n) ==
  \A s \in SUBSET S :
    Cardinality(s) <= n => it[s] = IF s = {} THEN 0 ELSE f[Pick(s)] + it[s \ {Pick(s)}]

LEMMA AddsExists ==
  ASSUME NEW f, NEW S, IsFiniteSet(S)
  PROVE  \A n \in Nat : \E it : Adds(it, f, S, n)
<1> DEFINE T == {n \in Nat : \E it : Adds(it, f, S, n)}
<1>1. \A s \in SUBSET S : /\ IsFiniteSet(s) /\ Cardinality(s) \in Nat
                          /\ (Cardinality(s) = 0 <=> s = {})
                          /\ s # {} => Pick(s) \in s
  BY FS_Subset, FS_CardinalityType, FS_EmptySet DEF Pick
<1>2. 0 \in T
  <2> DEFINE zero == [s \in SUBSET S |-> 0]
  <2>1. Adds(zero, f, S, 0)
    BY <1>1 DEF Adds
  <2> QED
    BY <2>1
<1>3. ASSUME NEW n \in Nat, n \in T PROVE n + 1 \in T
  <2>1. PICK it : Adds(it, f, S, n)
    BY <1>3
  <2> DEFINE V(s) == IF s = {} THEN 0 ELSE f[Pick(s)] + it[s \ {Pick(s)}]
             next == [s \in SUBSET S |-> IF Cardinality(s) <= n THEN it[s] ELSE V(s)]
  <2>2. ASSUME NEW s \in SUBSET S, Cardinality(s) <= n + 1
        PROVE  next[s] = IF s = {} THEN 0 ELSE f[Pick(s)] + next[s \ {Pick(s)}]
    <3>1. next[s] = V(s)
      BY <2>1 DEF Adds
    <3>2. CASE s = {}
      BY <3>1, <3>2
    <3>3. CASE s # {}
      <4>1. Pick(s) \in s
        BY <1>1, <3>3
      <4>2. s \ {Pick(s)} \in SUBSET S /\ Cardinality(s \ {Pick(s)}) <= n
        <5>1. Cardinality(s \ {Pick(s)}) = Cardinality(s) - 1
          BY <1>1, <4>1, FS_RemoveElement
        <5> QED
          BY <1>1, <2>2, <5>1
      <4>3. next[s \ {Pick(s)}] = it[s \ {Pick(s)}]
        BY <4>2
      <4> HIDE DEF next
      <4> QED
        BY <3>1, <3>3, <4>3
    <3> QED
      BY <3>2, <3>3
  <2> HIDE DEF next
  <2>3. Adds(next, f, S, n + 1)
    BY <2>2 DEF Adds
  <2> QED
    BY <2>3
<1> HIDE DEF T
<1>4. Nat \subseteq T
  BY <1>2, <1>3, Induction
<1> QED
  BY <1>4 DEF T

\* A sum is the value of such a function.
LEMMA SumFolds ==
  ASSUME NEW f, NEW S, IsFiniteSet(S)
  PROVE  \E fold : Folds(fold, f, S) /\ Sum(f, S) = fold[S]
<1> DEFINE F(it) == [s \in SUBSET S |-> IF s = {} THEN 0 ELSE f[Pick(s)] + it[s \ {Pick(s)}]]
           fold == CHOOSE it : it = F(it)
<1>1. Sum(f, S) = fold[S]
  BY DEF Sum, MapThenSumSet, MapThenFoldSet, Pick
<1>2. fold = F(fold)
  <2>1. Cardinality(S) \in Nat /\ \A s \in SUBSET S : Cardinality(s) <= Cardinality(S)
    BY FS_CardinalityType, FS_Subset
  <2>2. PICK it : Adds(it, f, S, Cardinality(S))
    BY <2>1, AddsExists
  <2> DEFINE total == [s \in SUBSET S |-> it[s]]
  <2>3. total = F(total)
    BY <2>1, <2>2 DEF Adds
  <2> HIDE DEF F, total
  <2> QED
    BY <2>3
<1> HIDE DEF fold
<1>3. Folds(fold, f, S)
  BY <1>2 DEF Folds
<1> QED
  BY <1>1, <1>3

\* The values of a function are integers on a set.
Integral(f, S) == \A x \in S : f[x] \in Int

Additive(fold, f, S) ==
  \A s \in SUBSET S : fold[s] \in Int /\ \A x \in s : fold[s] = f[x] + fold[s \ {x}]

\* The order in which a sum takes the elements does not matter.
LEMMA FoldsAdditive ==
  ASSUME NEW S, IsFiniteSet(S), NEW f, Integral(f, S), NEW fold, Folds(fold, f, S)
  PROVE  Additive(fold, f, S)
<1> DEFINE Fine(s) == fold[s] \in Int /\ \A x \in s : fold[s] = f[x] + fold[s \ {x}]
           T == {n \in Nat : \A s \in SUBSET S : Cardinality(s) <= n => Fine(s)}
<1>1. \A s \in SUBSET S : /\ IsFiniteSet(s) /\ Cardinality(s) \in Nat
                          /\ (Cardinality(s) = 0 <=> s = {})
                          /\ s # {} => Pick(s) \in s
  BY FS_Subset, FS_CardinalityType, FS_EmptySet DEF Pick
<1>2. 0 \in T
  BY <1>1 DEF Folds
<1>3. ASSUME NEW n \in Nat, n \in T PROVE n + 1 \in T
  <2>1. SUFFICES ASSUME NEW s \in SUBSET S, Cardinality(s) <= n + 1 PROVE Fine(s)
    OBVIOUS
  <2>2. CASE s = {}
    <3>1. fold[s] = 0
      BY <2>2 DEF Folds
    <3> QED
      BY <2>2, <3>1
  <2>3. CASE s # {}
    <3> DEFINE y == Pick(s)
               r == s \ {y}
    <3>1. y \in s /\ r \in SUBSET S
      BY <1>1, <2>3
    <3>2. \A t \in SUBSET S : Cardinality(t) <= n => Fine(t)
      BY <1>3
    <3>3. ASSUME NEW x \in s PROVE s \ {x} \in SUBSET S /\ Fine(s \ {x})
      <4>1. Cardinality(s \ {x}) = Cardinality(s) - 1
        BY <1>1, FS_RemoveElement
      <4>2. s \ {x} \in SUBSET S /\ Cardinality(s \ {x}) <= n
        BY <1>1, <2>1, <4>1
      <4> HIDE DEF Fine
      <4> QED
        BY <3>2, <4>2
    <3>4. fold[s] = f[y] + fold[r] /\ f[y] \in Int /\ fold[r] \in Int
      BY <2>3, <3>1, <3>3 DEF Folds, Integral
    <3>5. ASSUME NEW x \in s, x # y PROVE fold[s] = f[x] + fold[s \ {x}]
      <4> DEFINE q == (s \ {x}) \ {y}
      <4>1. /\ q = r \ {x} /\ x \in r /\ y \in s \ {x} /\ f[x] \in Int
            /\ q \in SUBSET S
        BY <3>1, <3>5 DEF Integral
      <4>2. fold[r] = f[x] + fold[q]
        BY <3>1, <3>3, <4>1
      <4>3. fold[s \ {x}] = f[y] + fold[q]
        BY <3>3, <4>1
      <4>4. fold[q] \in Int
        <5>1. Cardinality(r) = Cardinality(s) - 1
          BY <1>1, <3>1, FS_RemoveElement
        <5>2. Cardinality(r \ {x}) = Cardinality(r) - 1
          <6>1. r \in SUBSET S
            BY <3>1
          <6> HIDE DEF r
          <6> QED
            BY <1>1, <4>1, <6>1, FS_RemoveElement
        <5>3. Cardinality(q) <= n
          <6>1. Cardinality(q) = Cardinality(r \ {x}) /\ Cardinality(s) \in Nat
            BY <1>1, <4>1
          <6> HIDE DEF q, r
          <6> QED
            BY <2>1, <5>1, <5>2, <6>1
        <5> HIDE DEF q
        <5> QED
          BY <3>2, <4>1, <5>3
      <4> HIDE DEF q, r, y
      <4> QED
        BY <3>4, <4>1, <4>2, <4>3, <4>4
    <3>6. fold[s] \in Int
      <4> HIDE DEF r, y
      <4> QED
        BY <3>4
    <3>7. \A x \in s : fold[s] = f[x] + fold[s \ {x}]
      BY <3>4, <3>5
    <3> QED
      BY <3>6, <3>7
  <2> QED
    BY <2>2, <2>3
<1> HIDE DEF T
<1>4. Nat \subseteq T
  BY <1>2, <1>3, Induction
<1>5. ASSUME NEW s \in SUBSET S PROVE Fine(s)
  <2>1. Cardinality(s) \in T /\ Cardinality(s) \in Nat
    BY <1>1, <1>4
  <2> QED
    BY <2>1 DEF T
<1> QED
  BY <1>5 DEF Additive

\* Two such functions agree where both are sums of the same values.
LEMMA AdditiveUnique ==
  ASSUME NEW S, IsFiniteSet(S), NEW f, NEW g, \A x \in S : f[x] = g[x],
         NEW a, NEW b, a[{}] = b[{}], Additive(a, f, S), Additive(b, g, S)
  PROVE  \A s \in SUBSET S : a[s] = b[s]
<1> DEFINE T == {s \in SUBSET S : a[s] = b[s]}
<1>1. {} \in T
  OBVIOUS
<1>2. ASSUME NEW A \in SUBSET S, NEW x \in S \ A, A \in T PROVE A \cup {x} \in T
  <2> DEFINE B == A \cup {x}
  <2>1. B \in SUBSET S /\ x \in B /\ B \ {x} = A
    OBVIOUS
  <2> HIDE DEF B
  <2>2. a[B] = f[x] + a[A] /\ b[B] = g[x] + b[A]
    BY <2>1 DEF Additive
  <2>3. a[A] = b[A]
    BY <1>2
  <2>4. B \in T
    BY <2>1, <2>2, <2>3
  <2> QED
    BY <2>4 DEF B
<1> HIDE DEF T
<1>3. SUBSET S \subseteq T
  BY <1>1, <1>2, FiniteInduction
<1> QED
  BY <1>3 DEF T

\* What the other lemmas need of a sum: its type, the empty sum, one element taken out.
LEMMA SumBasics ==
  ASSUME NEW S, IsFiniteSet(S), NEW f, Integral(f, S)
  PROVE  /\ Sum(f, {}) = 0
         /\ Sum(f, S) \in Int
         /\ \A x \in S : Sum(f, S) = f[x] + Sum(f, S \ {x})
<1>1. Sum(f, {}) = 0
  <2>1. PICK fold : Folds(fold, f, {}) /\ Sum(f, {}) = fold[{}]
    BY FS_EmptySet, SumFolds
  <2> QED
    BY <2>1 DEF Folds
<1>2. PICK fold : Folds(fold, f, S) /\ Sum(f, S) = fold[S]
  BY SumFolds
<1>3. Additive(fold, f, S)
  BY <1>2, FoldsAdditive
<1>4. ASSUME NEW x \in S PROVE Sum(f, S) = f[x] + Sum(f, S \ {x})
  <2> DEFINE R == S \ {x}
  <2>1. IsFiniteSet(R) /\ Integral(f, R) /\ R \in SUBSET S
    BY FS_Subset DEF Integral
  <2>2. PICK rest : Folds(rest, f, R) /\ Sum(f, R) = rest[R]
    BY <2>1, SumFolds
  <2> HIDE DEF R
  <2>3. Additive(rest, f, R) /\ Additive(fold, f, R)
    BY <1>3, <2>1, <2>2, FoldsAdditive DEF Additive
  <2>4. rest[{}] = fold[{}]
    BY <1>2, <2>2 DEF Folds
  <2>5. rest[R] = fold[R]
    BY <2>1, <2>3, <2>4, AdditiveUnique
  <2>6. fold[S] = f[x] + fold[R]
    BY <1>3 DEF Additive, R
  <2> QED
    BY <1>2, <2>2, <2>5, <2>6 DEF R
<1> QED
  BY <1>1, <1>2, <1>3, <1>4 DEF Additive

\* One element more.
Cumulative(f, S) ==
  \A A \in SUBSET S : \A x \in S \ A :
     /\ A \cup {x} \in SUBSET S
     /\ f[x] \in Int /\ Sum(f, A) \in Int
     /\ Sum(f, A \cup {x}) = f[x] + Sum(f, A)

LEMMA SumAdd ==
  ASSUME NEW S, IsFiniteSet(S), NEW f, Integral(f, S)
  PROVE  Cumulative(f, S)
<1> SUFFICES ASSUME NEW A \in SUBSET S, NEW x \in S \ A
             PROVE  /\ A \cup {x} \in SUBSET S
                    /\ f[x] \in Int /\ Sum(f, A) \in Int
                    /\ Sum(f, A \cup {x}) = f[x] + Sum(f, A)
  BY DEF Cumulative
<1> DEFINE B == A \cup {x}
<1>1. B \in SUBSET S /\ x \in B /\ B \ {x} = A
  OBVIOUS
<1>2. IsFiniteSet(B) /\ IsFiniteSet(A) /\ Integral(f, B) /\ Integral(f, A) /\ f[x] \in Int
  BY <1>1, FS_Subset DEF Integral
<1> HIDE DEF B
<1>3. Sum(f, B) = f[x] + Sum(f, B \ {x}) /\ Sum(f, A) \in Int
  BY <1>1, <1>2, SumBasics
<1>4. B \in SUBSET S /\ f[x] \in Int /\ Sum(f, A) \in Int /\ Sum(f, B) = f[x] + Sum(f, A)
  BY <1>1, <1>2, <1>3
<1> QED
  BY <1>4 DEF B

LEMMA SumEmpty ==
  ASSUME NEW f
  PROVE  Sum(f, {}) = 0
BY FS_EmptySet, SumBasics DEF Integral

\* A sum of numbers is a number, and depends only on the values.
LEMMA SumNat ==
  ASSUME NEW S, IsFiniteSet(S), NEW f, \A x \in S : f[x] \in Nat
  PROVE  Sum(f, S) \in Nat
<1> DEFINE T == {A \in SUBSET S : Sum(f, A) \in Nat}
<1>1. Integral(f, S)
  BY DEF Integral
<1>2. {} \in T
  BY SumEmpty
<1>3. ASSUME NEW A \in SUBSET S, NEW x \in S \ A, A \in T PROVE A \cup {x} \in T
  BY <1>1, <1>3, SumAdd DEF Cumulative
<1> HIDE DEF T
<1>4. SUBSET S \subseteq T
  BY <1>2, <1>3, FiniteInduction
<1> QED
  BY <1>4 DEF T

LEMMA SumEqual ==
  ASSUME NEW S, IsFiniteSet(S), NEW f, Integral(f, S), NEW g, \A x \in S : g[x] = f[x]
  PROVE  Sum(g, S) = Sum(f, S)
<1> DEFINE T == {A \in SUBSET S : Sum(g, A) = Sum(f, A)}
<1>1. Integral(g, S)
  BY DEF Integral
<1>2. {} \in T
  BY SumEmpty
<1>3. ASSUME NEW A \in SUBSET S, NEW x \in S \ A, A \in T PROVE A \cup {x} \in T
  <2>1. Sum(f, A \cup {x}) = f[x] + Sum(f, A) /\ Sum(g, A \cup {x}) = g[x] + Sum(g, A)
    BY <1>1, SumAdd DEF Cumulative
  <2> QED
    BY <1>3, <2>1
<1> HIDE DEF T
<1>4. SUBSET S \subseteq T
  BY <1>2, <1>3, FiniteInduction
<1> QED
  BY <1>4 DEF T

\* A sum whose value changes at one element.
LEMMA SumPoint ==
  ASSUME NEW S, IsFiniteSet(S), NEW f, NEW g, Integral(f, S), Integral(g, S),
         NEW x \in S, \A y \in S : y # x => g[y] = f[y]
  PROVE  Sum(g, S) = Sum(f, S) - f[x] + g[x]
<1> DEFINE R == S \ {x}
<1>1. IsFiniteSet(R) /\ Integral(f, R) /\ \A y \in R : g[y] = f[y]
  BY FS_Subset DEF Integral
<1>2. Sum(f, S) = f[x] + Sum(f, R) /\ Sum(g, S) = g[x] + Sum(g, R)
  BY SumBasics
<1>3. f[x] \in Int /\ g[x] \in Int
  BY DEF Integral
<1> HIDE DEF R
<1>4. Sum(g, R) = Sum(f, R) /\ Sum(f, R) \in Int
  BY <1>1, SumEqual, SumBasics
<1> QED
  BY <1>2, <1>3, <1>4

\* The sum over two sets that share no element.
LEMMA SumUnion ==
  ASSUME NEW A, NEW B, IsFiniteSet(A), IsFiniteSet(B), A \cap B = {},
         NEW f, Integral(f, A \cup B)
  PROVE  /\ Sum(f, A) \in Int /\ Sum(f, B) \in Int
         /\ Sum(f, A \cup B) = Sum(f, A) + Sum(f, B)
<1> DEFINE S == A \cup B
           T == {C \in SUBSET A : Sum(f, C \cup B) = Sum(f, C) + Sum(f, B)}
<1>1. IsFiniteSet(S) /\ A \in SUBSET S /\ B \in SUBSET S
  BY FS_Union
<1>2. Integral(f, S) /\ Integral(f, A) /\ Integral(f, B)
  BY DEF Integral
<1>3. Sum(f, A) \in Int /\ Sum(f, B) \in Int
  BY <1>2, SumBasics
<1>4. {} \in T
  BY <1>3, SumEmpty
<1>5. ASSUME NEW C \in SUBSET A, NEW x \in A \ C, C \in T PROVE C \cup {x} \in T
  <2>1. C \cup B \in SUBSET S /\ x \in S \ (C \cup B) /\ (C \cup {x}) \cup B = (C \cup B) \cup {x}
    OBVIOUS
  <2> DEFINE D == C \cup B
             E == C \cup {x}
  <2>2. Sum(f, D) = Sum(f, C) + Sum(f, B)
    BY <1>5
  <2>3. D \in SUBSET S /\ x \in S \ D
    BY <2>1
  <2> HIDE DEF S, T, D
  <2>4. Sum(f, D \cup {x}) = f[x] + Sum(f, D) /\ f[x] \in Int
    <3>1. Cumulative(f, S)
      BY <1>1, <1>2, SumAdd
    <3> QED
      BY <2>3, <3>1 DEF Cumulative
  <2>5. C \in SUBSET A /\ x \in A \ C
    OBVIOUS
  <2>6. Sum(f, C \cup {x}) = f[x] + Sum(f, C) /\ Sum(f, C) \in Int
    <3>1. Cumulative(f, A)
      BY <1>2, SumAdd
    <3> QED
      BY <2>5, <3>1 DEF Cumulative
  <2>7. E \cup B = D \cup {x} /\ E \in SUBSET A
    BY <2>1 DEF D
  <2>8. Sum(f, E) = f[x] + Sum(f, C)
    BY <2>6
  <2> HIDE DEF E
  <2>9. Sum(f, E \cup B) = Sum(f, E) + Sum(f, B)
    <3>1. Sum(f, E \cup B) = Sum(f, D \cup {x})
      BY <2>7
    <3> QED
      BY <1>3, <2>2, <2>4, <2>6, <2>8, <3>1
  <2>10. E \in T
    BY <2>7, <2>9 DEF T
  <2> QED
    BY <2>10 DEF E
<1> HIDE DEF T
<1>6. SUBSET A \subseteq T
  BY <1>4, <1>5, FiniteInduction
<1>7. A \in T
  BY <1>6
<1> QED
  BY <1>3, <1>7 DEF T

\* Elements of no value may be left out.
LEMMA SumZero ==
  ASSUME NEW S, IsFiniteSet(S), NEW f, \A x \in S : f[x] = 0
  PROVE  Sum(f, S) = 0
<1> DEFINE T == {A \in SUBSET S : Sum(f, A) = 0}
<1>1. Integral(f, S)
  BY DEF Integral
<1>2. {} \in T
  BY SumEmpty
<1>3. ASSUME NEW A \in SUBSET S, NEW x \in S \ A, A \in T PROVE A \cup {x} \in T
  BY <1>1, <1>3, SumAdd DEF Cumulative
<1> HIDE DEF T
<1>4. SUBSET S \subseteq T
  BY <1>2, <1>3, FiniteInduction
<1> QED
  BY <1>4 DEF T

LEMMA SumSupport ==
  ASSUME NEW S, IsFiniteSet(S), NEW f, Integral(f, S), NEW A \in SUBSET S,
         \A x \in S \ A : f[x] = 0
  PROVE  Sum(f, S) = Sum(f, A)
<1> DEFINE R == S \ A
           U == A \cup R
<1>1. /\ IsFiniteSet(A) /\ IsFiniteSet(R) /\ U = S /\ A \cap R = {} /\ Integral(f, U)
      /\ \A x \in R : f[x] = 0
  BY FS_Subset DEF Integral
<1> HIDE DEF R
<1>2. Sum(f, R) = 0
  BY <1>1, SumZero
<1>3. Sum(f, U) = Sum(f, A) + Sum(f, R) /\ Sum(f, A) \in Int
  BY <1>1, SumUnion
<1> HIDE DEF U
<1> QED
  BY <1>1, <1>2, <1>3

\* A sum over the values of a function that are all different.
LEMMA SumImage ==
  ASSUME NEW S, IsFiniteSet(S), NEW F, \A x, y \in S : F[x] = F[y] => x = y,
         NEW f, NEW g, Integral(f, S), \A x \in S : g[F[x]] = f[x]
  PROVE  IsFiniteSet({F[x] : x \in S}) /\ Sum(g, {F[x] : x \in S}) = Sum(f, S)
<1> DEFINE Image(A) == {F[x] : x \in A}
           T == {A \in SUBSET S : IsFiniteSet(Image(A)) /\ Sum(g, Image(A)) = Sum(f, A)}
<1>1. {} \in T
  <2>1. Image({}) = {}
    OBVIOUS
  <2> QED
    BY <2>1, SumEmpty, FS_EmptySet
<1>2. ASSUME NEW A \in SUBSET S, NEW x \in S \ A, A \in T PROVE A \cup {x} \in T
  <2> DEFINE I == Image(A)
             J == I \cup {F[x]}
  <2>1. Image(A \cup {x}) = J /\ F[x] \notin I
    OBVIOUS
  <2>2. IsFiniteSet(I) /\ Sum(g, I) = Sum(f, A)
    BY <1>2
  <2>3. Integral(g, J)
    BY DEF Integral
  <2>4. I \in SUBSET J /\ F[x] \in J \ I
    BY <2>1
  <2> HIDE DEF I
  <2>5. IsFiniteSet(J)
    BY <2>2, FS_AddElement
  <2> HIDE DEF J
  <2>6. Sum(g, I \cup {F[x]}) = g[F[x]] + Sum(g, I)
    BY <2>3, <2>4, <2>5, SumAdd DEF Cumulative
  <2>7. Sum(f, A \cup {x}) = f[x] + Sum(f, A) /\ A \cup {x} \in SUBSET S
    BY SumAdd DEF Cumulative
  <2>8. Sum(g, J) = Sum(f, A \cup {x})
    BY <2>2, <2>6, <2>7 DEF J
  <2> QED
    BY <2>1, <2>5, <2>7, <2>8
<1> HIDE DEF T
<1>3. SUBSET S \subseteq T
  BY <1>1, <1>2, FiniteInduction
<1>4. S \in T
  BY <1>3
<1> QED
  BY <1>4 DEF T

-----------------------------------------------------------------------------
(* The account and its trades                                              *)

Quantities == [Symbols -> Nat]
Accounts   == [cash : Nat, quantity : Quantities, cost : Quantities, exit : Quantities]
Orders     == [symbol : Symbols, side : {"buy", "sell"}, quantity : Nat \ {0}]
States     == [account : Accounts, highs : Quantities]
Items      == [symbol : Symbols, ex : Nat, due : Nat, amount : Nat]

\* Products and quotients of numbers.
LEMMA Products ==
  /\ \A x, y \in Nat : x * y \in Nat
  /\ \A x, y, z \in Nat : x <= y => x * z <= y * z /\ z * x <= z * y
  /\ \A x \in Nat, y \in Nat \ {0} : x \div y \in Nat /\ (x \div y) * y <= x /\ y * (x \div y) <= x
<1>1. \A x, y \in Nat : x * y \in Nat
  OBVIOUS
<1>2. \A x, y, z \in Nat : x <= y => x * z <= y * z /\ z * x <= z * y
  <2> SUFFICES ASSUME NEW x \in Nat, NEW y \in Nat, NEW z \in Nat, x <= y
               PROVE  x * z <= y * z /\ z * x <= z * y
    OBVIOUS
  <2>1. (y - x) * z \in Nat /\ (y - x) * z = y * z - x * z /\ z * x = x * z /\ z * y = y * z
    OBVIOUS
  <2> QED
    BY <2>1
<1>3. \A x \in Nat, y \in Nat \ {0} : x \div y \in Nat /\ (x \div y) * y <= x /\ y * (x \div y) <= x
  OBVIOUS
<1> QED
  BY <1>1, <1>2, <1>3

\* A buy pays no less than the price and a sell receives no more.
LEMMA Prices ==
  ASSUME NEW price \in Nat \ {0}
  PROVE  /\ BuyPrice(price) \in Nat \ {0} /\ BuyPrice(price) >= price
         /\ SellPrice(price) \in Nat /\ SellPrice(price) <= price
<1> DEFINE slip == (price * SlippageBps) \div 10000
           product == price * SlippageBps
<1>1. SlippageBps \in Nat /\ SlippageBps <= 10000
  BY AccountAssumption DEF ValidConfig
<1>2. product \in Nat /\ product <= price * 10000
  BY <1>1, Products
<1>3. slip = product \div 10000
  OBVIOUS
<1> HIDE DEF product, slip
<1>4. slip \in Nat /\ slip <= price
  BY <1>2, <1>3
<1> QED
  BY <1>4 DEF BuyPrice, SellPrice, slip

\* What each position is worth at some prices; equity is their sum and the cash.
Value(acc, prices) == [s \in Symbols |-> acc.quantity[s] * prices[s]]

LEMMA EquityIs ==
  ASSUME NEW acc \in Accounts, NEW prices \in Quantities
  PROVE  /\ \A s \in Symbols : Value(acc, prices)[s] \in Nat
         /\ Integral(Value(acc, prices), Symbols)
         /\ Sum(Value(acc, prices), Symbols) \in Nat
         /\ Equity(acc, prices) = acc.cash + Sum(Value(acc, prices), Symbols)
         /\ Equity(acc, prices) \in Nat
<1> DEFINE f == Value(acc, prices)
           H == Held(acc)
           F(it) == [s \in SUBSET H |->
                       IF s = {} THEN 0
                       ELSE acc.quantity[Pick(s)] * prices[Pick(s)] + it[s \ {Pick(s)}]]
           G(it) == [s \in SUBSET H |-> IF s = {} THEN 0 ELSE f[Pick(s)] + it[s \ {Pick(s)}]]
<1>1. \A it : F(it) = G(it)
  <2> SUFFICES ASSUME NEW it, NEW s \in SUBSET H PROVE F(it)[s] = G(it)[s]
    OBVIOUS
  <2>1. s # {} => Pick(s) \in Symbols
    BY DEF Pick, Held
  <2> QED
    BY <2>1 DEF Value
<1>2. Equity(acc, prices) = acc.cash + (CHOOSE it : it = F(it))[H]
  BY DEF Equity, MapThenSumSet, MapThenFoldSet, Pick
<1>3. Sum(f, H) = (CHOOSE it : it = G(it))[H]
  BY DEF Sum, MapThenSumSet, MapThenFoldSet, Pick
<1>4. (CHOOSE it : it = F(it)) = (CHOOSE it : it = G(it))
  <2> HIDE DEF F, G
  <2> QED
    BY <1>1
<1>5. IsFiniteSet(Symbols) /\ H \in SUBSET Symbols
  BY AccountAssumption DEF ValidConfig, Held
<1>6. \A s \in Symbols : f[s] \in Nat
  BY Products DEF Value, Accounts, Quantities
<1>7. \A s \in Symbols \ H : f[s] = 0
  <2> SUFFICES ASSUME NEW s \in Symbols \ H PROVE f[s] = 0
    OBVIOUS
  <2>1. acc.quantity[s] = 0 /\ prices[s] \in Nat
    BY DEF Held, Accounts, Quantities
  <2> QED
    BY <2>1 DEF Value
<1> HIDE DEF f, H, F, G
<1>8. Integral(f, Symbols)
  BY <1>6 DEF Integral
<1>9. Sum(f, Symbols) = Sum(f, H)
  BY <1>5, <1>7, <1>8, SumSupport
<1>10. Sum(f, Symbols) \in Nat
  BY <1>5, <1>6, SumNat
<1>11. acc.cash \in Nat
  BY DEF Accounts
<1>12. Equity(acc, prices) = acc.cash + Sum(f, Symbols)
  BY <1>2, <1>3, <1>4, <1>9
<1>13. Equity(acc, prices) \in Nat
  BY <1>10, <1>11, <1>12
<1> QED
  BY <1>6, <1>8, <1>10, <1>12, <1>13 DEF f

\* What a set of dividends comes to.
Amounts(items) == [item \in items |-> item.amount]

LEMMA AmountsAre ==
  ASSUME NEW items
  PROVE  MapThenSumSet(LAMBDA item : item.amount, items) = Sum(Amounts(items), items)
<1> DEFINE f == Amounts(items)
           F(it) == [s \in SUBSET items |->
                       IF s = {} THEN 0 ELSE Pick(s).amount + it[s \ {Pick(s)}]]
           G(it) == [s \in SUBSET items |-> IF s = {} THEN 0 ELSE f[Pick(s)] + it[s \ {Pick(s)}]]
<1>1. \A it : F(it) = G(it)
  <2> SUFFICES ASSUME NEW it, NEW s \in SUBSET items PROVE F(it)[s] = G(it)[s]
    OBVIOUS
  <2>1. s # {} => Pick(s) \in items
    BY DEF Pick
  <2> QED
    BY <2>1 DEF Amounts
<1>2. MapThenSumSet(LAMBDA item : item.amount, items) = (CHOOSE it : it = F(it))[items]
  BY DEF MapThenSumSet, MapThenFoldSet, Pick
<1>3. Sum(f, items) = (CHOOSE it : it = G(it))[items]
  BY DEF Sum, MapThenSumSet, MapThenFoldSet, Pick
<1>4. (CHOOSE it : it = F(it)) = (CHOOSE it : it = G(it))
  <2> HIDE DEF F, G
  <2> QED
    BY <1>1
<1> QED
  BY <1>2, <1>3, <1>4

\* A purchase that max_buy_quantity admits, or any smaller one, is within each limit.
Affords(size, price, equity, cash, held) ==
  /\ 100 * (size * BuyPrice(price)) + 100 * Commission <= 100 * cash - equity * TargetCashPct
  /\ 100 * (size * BuyPrice(price)) + 100 * Commission <= equity * PositionPct - 100 * held * price

LEMMA BuyLimits ==
  ASSUME NEW price \in Nat \ {0}, NEW equity \in Nat, NEW cash \in Int, NEW held \in Nat
  PROVE  /\ MaxBuyQuantity(price, equity, cash, held) \in Nat
         /\ \A size \in 1..MaxBuyQuantity(price, equity, cash, held) :
              Affords(size, price, equity, cash, held)
<1> DEFINE a == equity * OrderPct
           b == 100 * cash - equity * TargetCashPct
           c == equity * PositionPct - 100 * held * price
           p == BuyPrice(price)
           k == Commission
           budget == Least(a, Least(Greatest(0, b), Greatest(0, c)))
           room == Greatest(0, budget - 100 * k)
           q == room \div (100 * p)
<1>1. a \in Int /\ b \in Int /\ c \in Int /\ k \in Nat /\ OrderPct \in Nat /\ MinTradeValue \in Nat
  BY AccountAssumption DEF ValidConfig
<1>2. p \in Nat \ {0}
  BY Prices
<1>3. MaxBuyQuantity(price, equity, cash, held) = IF q * price >= MinTradeValue THEN q ELSE 0
  BY DEF MaxBuyQuantity, Budget
<1>4. \A size : 100 * (size * p) + 100 * k <= b /\ 100 * (size * p) + 100 * k <= c
                => Affords(size, price, equity, cash, held)
  BY DEF Affords
<1> HIDE DEF a, b, c, p, k
<1>5. room \in Nat /\ 100 * p \in Nat \ {0} /\ q \in Nat
  <2>1. budget \in Int
    BY <1>1 DEF Least, Greatest
  <2> HIDE DEF budget
  <2>2. room \in Nat /\ 100 * p \in Nat \ {0}
    BY <1>1, <1>2, <2>1 DEF Greatest
  <2> QED
    BY <2>2, Products
<1>6. ASSUME NEW size \in 1..q
      PROVE  100 * (size * p) + 100 * k <= b /\ 100 * (size * p) + 100 * k <= c
  <2>1. size \in Nat \ {0} /\ size <= q
    BY <1>5
  <2>2. size * (100 * p) <= q * (100 * p) /\ q * (100 * p) <= room
    <3> DEFINE d == 100 * p
    <3> HIDE DEF d, room
    <3>1. size * d <= q * d
      BY <1>5, <2>1, Products DEF d
    <3>2. q * d <= room
      BY <1>5, Products DEF d
    <3> QED
      BY <3>1, <3>2 DEF d
  <2>3. size * p \in Nat \ {0} /\ size * (100 * p) = 100 * (size * p)
    BY <1>2, <2>1
  <2> DEFINE w == size * p
             v == q * (100 * p)
  <2>4. v \in Int
    BY <1>2, <1>5
  <2> HIDE DEF w, v, q
  <2>5. 100 * w <= room
    BY <1>5, <2>2, <2>3, <2>4 DEF w, v
  <2>6. w \in Nat \ {0}
    BY <2>3 DEF w
  <2>7. 100 * w + 100 * k <= b /\ 100 * w + 100 * k <= c
    BY <1>1, <2>5, <2>6 DEF Least, Greatest
  <2> QED
    BY <2>7 DEF w
<1> HIDE DEF q
<1> QED
  BY <1>3, <1>4, <1>5, <1>6

\* What a buy and a sell may do to an account.
LEMMA BoughtIs ==
  ASSUME NEW acc \in Accounts, NEW s \in Symbols,
         NEW quantity \in Nat \ {0}, NEW price \in Nat \ {0}
  PROVE  /\ Bought(acc, s, quantity, price) \in Accounts
         /\ \/ Bought(acc, s, quantity, price) = acc
            \/ /\ Bought(acc, s, quantity, price).cash
                    = acc.cash - quantity * BuyPrice(price) - Commission
               /\ Bought(acc, s, quantity, price).quantity
                    = [acc.quantity EXCEPT ![s] = @ + quantity]
<1> DEFINE value == quantity * BuyPrice(price)
           total == acc.quantity[s] + quantity
           cost  == (acc.cost[s] * acc.quantity[s] + value) \div total
           after == [acc EXCEPT !.cash = @ - value - Commission,
                                !.quantity[s] = total, !.cost[s] = cost]
<1>1. Bought(acc, s, quantity, price) = IF value + Commission > acc.cash THEN acc ELSE after
  BY DEF Bought
<1>2. /\ acc.cash \in Nat /\ Commission \in Nat /\ acc.quantity[s] \in Nat /\ acc.cost[s] \in Nat
      /\ acc.quantity \in Quantities /\ acc.cost \in Quantities /\ acc.exit \in Quantities
  BY AccountAssumption DEF ValidConfig, Accounts, Quantities
<1>3. value \in Nat
  BY Prices, Products
<1>4. total \in Nat \ {0}
  BY <1>2
<1> DEFINE basis == acc.cost[s] * acc.quantity[s] + value
<1>5. basis \in Nat
  BY <1>2, <1>3, Products
<1> HIDE DEF value
<1>6. cost \in Nat
  <2> HIDE DEF total, basis
  <2>1. cost = basis \div total
    BY DEF basis
  <2> QED
    BY <1>4, <1>5, <2>1, Products
<1>7. [acc.quantity EXCEPT ![s] = total] \in Quantities /\ [acc.cost EXCEPT ![s] = cost] \in Quantities
  <2> HIDE DEF total, cost
  <2> QED
    BY <1>2, <1>4, <1>6 DEF Quantities
<1>8. ASSUME value + Commission <= acc.cash
      PROVE  /\ after \in Accounts
             /\ after.cash = acc.cash - value - Commission
             /\ after.quantity = [acc.quantity EXCEPT ![s] = @ + quantity]
  <2>1. acc.cash - value - Commission \in Nat
    BY <1>2, <1>3, <1>8
  <2> HIDE DEF cost
  <2> QED
    BY <1>2, <1>7, <2>1 DEF Accounts
<1> HIDE DEF after
<1>9. CASE value + Commission > acc.cash
  BY <1>1, <1>9
<1>10. CASE ~(value + Commission > acc.cash)
  BY <1>1, <1>2, <1>3, <1>8, <1>10 DEF value
<1> QED
  BY <1>9, <1>10

SoldSome(acc, next, s, price) ==
  \E shares \in 1..acc.quantity[s] :
     /\ next.cash = acc.cash + shares * SellPrice(price) - Commission
     /\ next.quantity = [acc.quantity EXCEPT ![s] = @ - shares]

LEMMA SoldIs ==
  ASSUME NEW acc \in Accounts, NEW s \in Symbols,
         NEW quantity \in Nat, NEW price \in Nat \ {0}, NEW date \in Nat
  PROVE  /\ Sold(acc, s, quantity, price, date) \in Accounts
         /\ \/ Sold(acc, s, quantity, price, date) = acc
            \/ SoldSome(acc, Sold(acc, s, quantity, price, date), s, price)
<1> DEFINE shares == Least(quantity, acc.quantity[s])
           proceeds == shares * SellPrice(price) - Commission
           cost  == IF shares = acc.quantity[s] THEN 0 ELSE acc.cost[s]
           after == [acc EXCEPT !.cash = @ + proceeds, !.quantity[s] = @ - shares,
                                !.cost[s] = cost, !.exit[s] = date]
<1>1. Sold(acc, s, quantity, price, date)
        = IF shares <= 0 \/ acc.cash + proceeds < 0 THEN acc ELSE after
  BY DEF Sold
<1>2. /\ acc.cash \in Nat /\ Commission \in Nat /\ acc.quantity[s] \in Nat /\ acc.cost[s] \in Nat
      /\ acc.quantity \in Quantities /\ acc.cost \in Quantities /\ acc.exit \in Quantities
  BY AccountAssumption DEF ValidConfig, Accounts, Quantities
<1>3. shares \in Nat /\ shares <= acc.quantity[s]
  BY <1>2 DEF Least
<1> HIDE DEF shares
<1>4. proceeds \in Int
  BY <1>2, <1>3, Prices, Products
<1>5. acc.quantity[s] - shares \in Nat /\ cost \in Nat
  BY <1>2, <1>3
<1>6. /\ [acc.quantity EXCEPT ![s] = @ - shares] \in Quantities
      /\ [acc.cost EXCEPT ![s] = cost] \in Quantities /\ [acc.exit EXCEPT ![s] = date] \in Quantities
  <2> HIDE DEF cost
  <2> QED
    BY <1>2, <1>5 DEF Quantities
<1>7. ASSUME acc.cash + proceeds >= 0
      PROVE  /\ after \in Accounts /\ after.cash = acc.cash + proceeds
             /\ after.quantity = [acc.quantity EXCEPT ![s] = @ - shares]
  <2>1. acc.cash + proceeds \in Nat
    BY <1>2, <1>4, <1>7
  <2> HIDE DEF cost, proceeds
  <2> QED
    BY <1>2, <1>6, <2>1 DEF Accounts
<1> HIDE DEF after
<1>8. CASE shares <= 0 \/ acc.cash + proceeds < 0
  BY <1>1, <1>8
<1>9. CASE ~(shares <= 0 \/ acc.cash + proceeds < 0)
  <2>1. shares \in 1..acc.quantity[s]
    BY <1>2, <1>3, <1>9
  <2>2. acc.cash + proceeds >= 0
    BY <1>2, <1>4, <1>9
  <2>3. acc.cash + proceeds = acc.cash + shares * SellPrice(price) - Commission
    BY <1>2, <1>3, Prices, Products
  <2>4. Sold(acc, s, quantity, price, date) = after
    BY <1>1, <1>9
  <2> HIDE DEF proceeds
  <2>5. SoldSome(acc, after, s, price)
    BY <1>7, <2>1, <2>2, <2>3 DEF SoldSome
  <2> QED
    BY <1>7, <2>2, <2>4, <2>5
<1> QED
  BY <1>8, <1>9

\* What the operators of the engine read besides their arguments.
Setting ==
  /\ day \in Nat /\ bars \in [Symbols -> Bars \cup {NoBar}] /\ latest \in Quantities
  /\ receivables \subseteq Items /\ IsFiniteSet(receivables)

LEMMA SettingIs ==
  ASSUME Setting
  PROVE  /\ \A s \in Symbols : bars[s] # NoBar =>
              /\ bars[s] \in Bars /\ bars[s].open \in Nat \ {0} /\ bars[s].low \in Nat \ {0}
              /\ bars[s].high \in Nat \ {0} /\ bars[s].close \in Nat \ {0}
         /\ OpeningMarks \in Quantities
         /\ \A s \in Symbols : bars[s] # NoBar => OpeningMarks[s] = bars[s].open
         /\ Accrued \in Nat
<1>1. \A s \in Symbols : bars[s] # NoBar =>
        /\ bars[s] \in Bars /\ bars[s].open \in Nat \ {0} /\ bars[s].low \in Nat \ {0}
        /\ bars[s].high \in Nat \ {0} /\ bars[s].close \in Nat \ {0}
  BY DEF Setting, Bars
<1>2. OpeningMarks \in Quantities
  BY <1>1 DEF OpeningMarks, Quantities, Setting, Trades
<1>3. \A s \in Symbols : bars[s] # NoBar => OpeningMarks[s] = bars[s].open
  BY DEF OpeningMarks, Trades
<1>4. Accrued \in Nat
  <2>1. Accrued = Sum(Amounts(receivables), receivables)
    BY AmountsAre DEF Accrued
  <2>2. \A item \in receivables : Amounts(receivables)[item] \in Nat
    BY DEF Amounts, Items, Setting
  <2> QED
    BY <2>1, <2>2, SumNat DEF Setting
<1> QED
  BY <1>1, <1>2, <1>3, <1>4

LEMMA WorthIs ==
  ASSUME Setting, NEW acc \in Accounts, NEW marks \in Quantities
  PROVE  /\ Worth(acc, marks) = Equity(acc, marks) + Accrued
         /\ Worth(acc, marks) \in Nat
<1>1. Accrued \in Nat /\ Equity(acc, marks) \in Nat
  BY SettingIs, EquityIs
<1> QED
  BY <1>1 DEF Worth

\* Equity after a trade of one symbol.
LEMMA EquityAfterTrade ==
  ASSUME NEW acc \in Accounts, NEW next \in Accounts, NEW prices \in Quantities,
         NEW s \in Symbols, NEW n \in Nat, next.quantity = [acc.quantity EXCEPT ![s] = n]
  PROVE  Equity(next, prices)
           = Equity(acc, prices) - acc.cash + next.cash
               + n * prices[s] - acc.quantity[s] * prices[s]
<1> DEFINE f == Value(acc, prices)
           g == Value(next, prices)
<1>1. IsFiniteSet(Symbols)
  BY AccountAssumption DEF ValidConfig
<1>2. /\ Integral(f, Symbols) /\ Sum(f, Symbols) \in Nat
      /\ Equity(acc, prices) = acc.cash + Sum(f, Symbols)
  BY EquityIs
<1>3. /\ Integral(g, Symbols) /\ Sum(g, Symbols) \in Nat
      /\ Equity(next, prices) = next.cash + Sum(g, Symbols)
  BY EquityIs
<1>4. f[s] = acc.quantity[s] * prices[s] /\ g[s] = n * prices[s]
  BY DEF Value, Accounts, Quantities
<1>5. \A t \in Symbols : t # s => g[t] = f[t]
  BY DEF Value, Accounts, Quantities
<1>6. f[s] \in Int /\ g[s] \in Int
  BY <1>2, <1>3 DEF Integral
<1>7. acc.cash \in Nat /\ next.cash \in Nat
  BY DEF Accounts
<1> HIDE DEF f, g
<1>8. Sum(g, Symbols) = Sum(f, Symbols) - f[s] + g[s]
  BY <1>1, <1>2, <1>3, <1>5, SumPoint
<1>9. Equity(next, prices) = Equity(acc, prices) - acc.cash + next.cash + g[s] - f[s]
  BY <1>2, <1>3, <1>6, <1>7, <1>8
<1> QED
  BY <1>4, <1>9

\* The cash and the position a buy leaves keep the limits, taken of what the
\* account was worth before it.
WithinLimits(before, after, s) ==
  /\ 100 * after.cash >= TargetCashPct * Worth(before, OpeningMarks)
  /\ 100 * after.quantity[s] * bars[s].open <= PositionPct * Worth(before, OpeningMarks)

LEMMA BuyAtOpen ==
  ASSUME Setting, NEW acc \in Accounts, NEW s \in Symbols, bars[s] # NoBar,
         NEW size \in Nat \ {0},
         size <= MaxBuyQuantity(bars[s].open, Worth(acc, OpeningMarks),
                                acc.cash, acc.quantity[s])
  PROVE  LET next == Bought(acc, s, size, bars[s].open) IN
         /\ next \in Accounts
         /\ Worth(next, OpeningMarks) <= Worth(acc, OpeningMarks)
         /\ next = acc \/ (WithinLimits(acc, next, s)
                           /\ next.quantity = [acc.quantity EXCEPT ![s] = @ + size])
<1> DEFINE next == Bought(acc, s, size, bars[s].open)
           open == bars[s].open
           held == acc.quantity[s]
           cash == acc.cash
           equity == Worth(acc, OpeningMarks)
           paid == size * BuyPrice(open)
           max == MaxBuyQuantity(open, equity, cash, held)
<1>1. open \in Nat \ {0} /\ OpeningMarks \in Quantities /\ OpeningMarks[s] = open
  BY SettingIs
<1>2. equity \in Nat /\ cash \in Nat /\ held \in Nat /\ Commission \in Nat
      /\ TargetCashPct \in Nat /\ PositionPct \in Nat /\ acc.quantity \in Quantities
  BY <1>1, WorthIs, AccountAssumption DEF ValidConfig, Accounts, Quantities
<1>3. size <= max
  OBVIOUS
<1>4. /\ next \in Accounts
      /\ \/ next = acc
         \/ /\ next.cash = cash - paid - Commission
            /\ next.quantity = [acc.quantity EXCEPT ![s] = @ + size]
  BY <1>1, BoughtIs
<1>5. paid \in Nat /\ size * open <= paid /\ size * open \in Nat /\ held * open \in Nat
      /\ (held + size) * open = held * open + size * open
  <2>1. BuyPrice(open) \in Nat /\ open <= BuyPrice(open) /\ open \in Nat
    BY <1>1, Prices
  <2> HIDE DEF open, held
  <2>2. (held + size) * open = held * open + size * open
    BY <1>2, <2>1
  <2> QED
    BY <1>2, <2>1, <2>2, Products
<1>6. /\ 100 * paid + 100 * Commission <= 100 * cash - equity * TargetCashPct
      /\ 100 * paid + 100 * Commission <= equity * PositionPct - 100 * held * open
  <2>1. max \in Nat /\ \A n \in 1..max : Affords(n, open, equity, cash, held)
    <3> HIDE DEF open, equity, cash, held
    <3> QED
      BY <1>1, <1>2, BuyLimits
  <2> HIDE DEF max
  <2>2. size \in 1..max
    BY <1>3, <2>1
  <2> QED
    BY <2>1, <2>2 DEF Affords
<1>7. CASE next = acc
  <2>1. Worth(next, OpeningMarks) = equity
    BY <1>7
  <2> QED
    BY <1>2, <1>4, <1>7, <2>1
<1>8. CASE /\ next.cash = cash - paid - Commission
           /\ next.quantity = [acc.quantity EXCEPT ![s] = @ + size]
  <2> DEFINE x == equity * TargetCashPct
             y == equity * PositionPct
             z == held * open
             w == size * open
             total == held + size
             c == next.cash
  <2>1. x \in Nat /\ y \in Nat /\ total \in Nat /\ 100 * held * open = 100 * z
    <3> HIDE DEF open, held, equity
    <3>1. x \in Nat /\ y \in Nat /\ total \in Nat
      BY <1>2, Products
    <3>2. 100 * held * open = 100 * z
      BY <1>1, <1>2
    <3> QED
      BY <3>1, <3>2
  <2>2. next.quantity[s] = total /\ next.quantity = [acc.quantity EXCEPT ![s] = total]
    BY <1>2, <1>8 DEF Quantities
  <2>3. 100 * total * open = 100 * (total * open) /\ total * open = z + w
    BY <1>1, <1>2, <1>5
  <2>4. c \in Int /\ c = cash - paid - Commission
    BY <1>2, <1>5, <1>8
  <2>5. Equity(next, OpeningMarks)
          = Equity(acc, OpeningMarks) - cash + c + total * OpeningMarks[s] - held * OpeningMarks[s]
    BY <1>1, <1>4, <2>1, <2>2, EquityAfterTrade
  <2>6. /\ Worth(next, OpeningMarks) = Equity(next, OpeningMarks) + Accrued
        /\ equity = Equity(acc, OpeningMarks) + Accrued
        /\ Equity(acc, OpeningMarks) \in Nat /\ Accrued \in Nat
    BY <1>1, <1>4, WorthIs, SettingIs, EquityIs
  <2> DEFINE e == Equity(acc, OpeningMarks)
             n == Equity(next, OpeningMarks)
  <2>7. n = e - cash + c + total * open - z
    BY <1>1, <2>5
  <2>8. z \in Nat /\ w \in Nat /\ w <= paid
    BY <1>5
  <2>9. 100 * paid + 100 * Commission <= 100 * cash - x
        /\ 100 * paid + 100 * Commission <= y - 100 * z
    BY <1>6, <2>1
  <2> DEFINE t == total * open
  <2>10. t = z + w /\ n = e - cash + c + t - z
    BY <2>3, <2>7
  <2> HIDE DEF x, y, z, w, total, c, e, n, t, paid, cash
  <2>11. n <= e
    BY <1>2, <1>5, <2>4, <2>6, <2>8, <2>10 DEF e
  <2>12. 100 * c >= x /\ 100 * t <= y
    BY <1>2, <1>5, <2>1, <2>4, <2>8, <2>9, <2>10
  <2>13. n \in Int /\ n + Accrued <= e + Accrued
    BY <1>2, <2>4, <2>6, <2>8, <2>10, <2>11 DEF e
  <2>14. Worth(next, OpeningMarks) <= equity
    BY <2>6, <2>13 DEF e, n
  <2>15. x = TargetCashPct * equity /\ y = PositionPct * equity
    <3> HIDE DEF equity
    <3> QED
      BY <1>2 DEF x, y
  <2>16. 100 * next.quantity[s] * open = 100 * t
    BY <2>2, <2>3 DEF t
  <2>17. WithinLimits(acc, next, s)
    BY <2>12, <2>15, <2>16 DEF WithinLimits, c
  <2> QED
    BY <1>4, <1>8, <2>14, <2>17
<1> QED
  BY <1>4, <1>7, <1>8

LEMMA SellAtOpen ==
  ASSUME Setting, NEW acc \in Accounts, NEW s \in Symbols, bars[s] # NoBar,
         NEW size \in Nat \ {0}
  PROVE  LET next == Sold(acc, s, size, bars[s].open, day) IN
         /\ next \in Accounts
         /\ Worth(next, OpeningMarks) <= Worth(acc, OpeningMarks)
         /\ next.quantity[s] <= acc.quantity[s]
         /\ \A t \in Symbols : t # s => next.quantity[t] = acc.quantity[t]
<1> DEFINE open == bars[s].open
           next == Sold(acc, s, size, open, day)
           held == acc.quantity[s]
<1>1. open \in Nat \ {0} /\ OpeningMarks \in Quantities /\ OpeningMarks[s] = open /\ day \in Nat
  BY SettingIs DEF Setting
<1>2. /\ acc.cash \in Nat /\ held \in Nat /\ Commission \in Nat /\ acc.quantity \in Quantities
      /\ Worth(acc, OpeningMarks) \in Nat
  BY <1>1, WorthIs, AccountAssumption DEF ValidConfig, Accounts, Quantities
<1>3. /\ next \in Accounts
      /\ next = acc \/ SoldSome(acc, next, s, open)
  <2>1. size \in Nat /\ open \in Nat \ {0} /\ day \in Nat
    BY <1>1
  <2> HIDE DEF open
  <2> QED
    BY <2>1, SoldIs
<1>4. CASE next = acc
  BY <1>2, <1>3, <1>4
<1>5. ASSUME NEW shares \in 1..held,
             next.cash = acc.cash + shares * SellPrice(open) - Commission,
             next.quantity = [acc.quantity EXCEPT ![s] = @ - shares]
      PROVE  /\ Worth(next, OpeningMarks) <= Worth(acc, OpeningMarks)
             /\ next.quantity[s] <= acc.quantity[s]
             /\ \A t \in Symbols : t # s => next.quantity[t] = acc.quantity[t]
  <2> DEFINE left == held - shares
             got  == shares * SellPrice(open)
             lost == shares * open
  <2>1. shares \in Nat /\ left \in Nat /\ left <= held
    BY <1>2
  <2>2. next.quantity = [acc.quantity EXCEPT ![s] = left]
    BY <1>5
  <2>3. got \in Nat /\ lost \in Nat /\ got <= lost
    <3>1. SellPrice(open) \in Nat /\ SellPrice(open) <= open /\ open \in Nat
      BY <1>1, Prices
    <3> HIDE DEF open
    <3> QED
      BY <2>1, <3>1, Products
  <2>4. left * open \in Nat /\ held * open = left * open + lost
    <3>1. open \in Nat
      BY <1>1
    <3> HIDE DEF open, held
    <3> QED
      BY <1>2, <2>1, <3>1, Products
  <2>5. Equity(next, OpeningMarks)
          = Equity(acc, OpeningMarks) - acc.cash + next.cash
              + left * OpeningMarks[s] - acc.quantity[s] * OpeningMarks[s]
    BY <1>1, <1>3, <2>1, <2>2, EquityAfterTrade
  <2> DEFINE e == Equity(acc, OpeningMarks)
             n == Equity(next, OpeningMarks)
             a == left * open
             b == held * open
  <2>6. n = e - acc.cash + next.cash + a - b
    BY <1>1, <2>5
  <2>7. e \in Nat /\ Accrued \in Nat
    BY <1>1, EquityIs, SettingIs
  <2>8. b = a + lost /\ a \in Nat
    BY <2>4
  <2>9. next.cash = acc.cash + got - Commission
    BY <1>5
  <2> HIDE DEF a, b, got, lost, e, n, left
  <2>10. n \in Int /\ n + Accrued <= e + Accrued
    BY <1>2, <2>3, <2>6, <2>7, <2>8, <2>9
  <2>11. Worth(next, OpeningMarks) <= Worth(acc, OpeningMarks)
    BY <2>10 DEF Worth, e, n
  <2>12. /\ next.quantity[s] <= acc.quantity[s]
         /\ \A t \in Symbols : t # s => next.quantity[t] = acc.quantity[t]
    BY <1>2, <2>1, <2>2 DEF Quantities
  <2> QED
    BY <2>11, <2>12
<1>6. SoldSome(acc, next, s, open) =>
        \E shares \in 1..held :
          /\ next.cash = acc.cash + shares * SellPrice(open) - Commission
          /\ next.quantity = [acc.quantity EXCEPT ![s] = @ - shares]
  BY DEF SoldSome
<1> QED
  BY <1>3, <1>4, <1>5, <1>6

\* What one order may do at the open: no order raises what the account is worth,
\* a sell buys nothing, and a buy that is filled keeps the limits.
Fills(before, after, order) ==
  /\ after \in States
  /\ Worth(after.account, OpeningMarks) <= Worth(before.account, OpeningMarks)
  /\ \A t \in Symbols :
       t # order.symbol => after.account.quantity[t] = before.account.quantity[t]
  /\ order.side = "sell" =>
       after.account.quantity[order.symbol] <= before.account.quantity[order.symbol]
  /\ order.side = "buy" =>
       \/ after.account = before.account
       \/ WithinLimits(before.account, after.account, order.symbol)

LEMMA ExecuteFills ==
  ASSUME Setting, NEW state \in States, NEW order \in Orders
  PROVE  Fills(state, Execute(state, order), order)
<1> DEFINE s == order.symbol
           acc == state.account
           afford == AffordableAtOpen(acc, order)
           size == IF order.side = "buy" THEN afford ELSE order.quantity
           next == Submit(acc, Order(s, order.side, size), bars[s].open, day)
           entered == acc.quantity[s] = 0 /\ next.quantity[s] > 0
           highs1 == [state.highs EXCEPT ![s] = IF entered THEN BuyPrice(bars[s].open) ELSE @]
<1>1. /\ s \in Symbols /\ order.side \in {"buy", "sell"} /\ order.quantity \in Nat \ {0}
      /\ acc \in Accounts /\ state.highs \in Quantities
  BY DEF Orders, States
<1>2. Execute(state, order) = IF bars[s] = NoBar \/ size <= 0 THEN state
                              ELSE [account |-> next, highs |-> highs1]
  BY DEF Execute
<1>3. CASE bars[s] = NoBar \/ size <= 0
  <2>1. Execute(state, order) = state
    BY <1>2, <1>3
  <2>2. Worth(acc, OpeningMarks) \in Nat /\ acc.quantity[s] \in Nat
    BY <1>1, SettingIs, WorthIs DEF Accounts, Quantities
  <2> QED
    BY <2>1, <2>2 DEF Fills
<1>4. CASE bars[s] # NoBar /\ ~(size <= 0)
  <2> DEFINE open == bars[s].open
             max == MaxBuyQuantity(open, Worth(acc, OpeningMarks), acc.cash, acc.quantity[s])
  <2>1. open \in Nat \ {0} /\ BuyPrice(open) \in Nat
    BY <1>1, <1>4, SettingIs, Prices
  <2>2. max \in Nat
    <3>1. Worth(acc, OpeningMarks) \in Nat /\ acc.cash \in Int /\ acc.quantity[s] \in Nat
      BY <1>1, SettingIs, WorthIs DEF Accounts, Quantities
    <3> HIDE DEF open
    <3> QED
      BY <2>1, <3>1, BuyLimits
  <2>3. afford = Least(order.quantity, max)
    BY DEF AffordableAtOpen
  <2> HIDE DEF max
  <2>4. afford \in Nat /\ afford <= max
    BY <1>1, <2>2, <2>3 DEF Least
  <2>5. size \in Nat \ {0} /\ (order.side = "buy" => size <= max)
    BY <1>1, <1>4, <2>4
  <2>6. Execute(state, order) = [account |-> next, highs |-> highs1]
    BY <1>2, <1>4
  <2> HIDE DEF size, afford
  <2>7. next = IF order.side = "buy" THEN Bought(acc, s, size, open)
               ELSE Sold(acc, s, size, open, day)
    BY DEF Submit, Order
  <2>8. next \in Accounts => highs1 \in Quantities
    <3> HIDE DEF open, next
    <3> QED
      BY <1>1, <2>1 DEF Quantities, open
  <2>9. CASE order.side = "buy"
    <3>1. next = Bought(acc, s, size, open)
      BY <2>7, <2>9
    <3>2. /\ next \in Accounts
          /\ Worth(next, OpeningMarks) <= Worth(acc, OpeningMarks)
          /\ next = acc \/ (WithinLimits(acc, next, s)
                            /\ next.quantity = [acc.quantity EXCEPT ![s] = @ + size])
      BY <1>1, <1>4, <2>5, <2>9, <3>1, BuyAtOpen DEF max
    <3>3. \A t \in Symbols : t # s => next.quantity[t] = acc.quantity[t]
      BY <1>1, <3>2 DEF Accounts, Quantities
    <3> HIDE DEF next, highs1
    <3>4. Execute(state, order) \in States
      BY <2>6, <2>8, <3>2 DEF States
    <3> QED
      BY <2>6, <2>9, <3>2, <3>3, <3>4 DEF Fills
  <2>10. CASE order.side # "buy"
    <3>1. next = Sold(acc, s, size, open, day)
      BY <2>7, <2>10
    <3>2. /\ next \in Accounts
          /\ Worth(next, OpeningMarks) <= Worth(acc, OpeningMarks)
          /\ next.quantity[s] <= acc.quantity[s]
          /\ \A t \in Symbols : t # s => next.quantity[t] = acc.quantity[t]
      BY <1>1, <1>4, <2>5, <3>1, SellAtOpen
    <3> HIDE DEF next, highs1
    <3>3. Execute(state, order) \in States
      BY <2>6, <2>8, <3>2 DEF States
    <3> QED
      BY <2>6, <2>10, <3>2, <3>3 DEF Fills
  <2> QED
    BY <2>9, <2>10
<1> QED
  BY <1>3, <1>4

-----------------------------------------------------------------------------
(* The orders of a plan, one after the other                               *)

\* The states that the orders at an open pass through.
Executes(states, base, list) ==
  /\ states \in [0..Len(list) -> States]
  /\ states[0] = base
  /\ \A i \in 1..Len(list) : states[i] = Execute(states[i - 1], list[i])
  /\ FoldLeft(Execute, base, list) = states[Len(list)]

LEMMA ExecuteChain ==
  ASSUME Setting, NEW base \in States, NEW list \in Seq(Orders)
  PROVE  \E states : Executes(states, base, list)
<1> DEFINE X == States
           n == Len(list)
           O(x, e) == Execute(x, e)
           step == [i \in 1..n |-> [x \in X |-> O(x, list[i])]]
           F(it) == [s \in SUBSET (1..n) |->
                       IF s = {} THEN base ELSE O(it[s \ {Max(s)}], list[Max(s)])]
           fold == CHOOSE it : it = F(it)
<1>1. n \in Nat /\ DOMAIN list = 1..n /\ \A i \in 1..n : list[i] \in Orders
  OBVIOUS
<1>2. base \in X /\ \A x \in X, e \in Orders : O(x, e) \in X
  BY ExecuteFills DEF Fills
<1>3. FoldLeft(Execute, base, list) = fold[1..n]
  <2>1. FoldLeft(Execute, base, list) =
          (CHOOSE it : it = [s \in SUBSET (DOMAIN list) |->
              IF s = {} THEN base ELSE O(it[s \ {Max(s)}], list[Max(s)])])[DOMAIN list]
    BY DEF FoldLeft, MapThenFoldSet
  <2> QED
    BY <1>1, <2>1
<1> HIDE DEF O, X
<1>4. step \in [1..n -> [X -> X]]
  BY <1>1, <1>2
<1>5. fold = F(fold)
  <2>1. PICK it \in [SUBSET (1..n) -> X] : Iter(it, base, step, n)
    BY <1>1, <1>2, <1>4, FoldExists
  <2>2. it = F(it)
    <3>1. ASSUME NEW s \in SUBSET (1..n), s # {}
          PROVE  step[Max(s)][it[s \ {Max(s)}]] = O(it[s \ {Max(s)}], list[Max(s)])
      <4>1. Max(s) \in 1..n /\ it[s \ {Max(s)}] \in X
        BY <1>1, <3>1, MaxInside
      <4> QED
        BY <4>1
    <3> QED
      BY <2>1, <3>1 DEF Iter
  <2> HIDE DEF F
  <2> QED
    BY <2>2
<1> HIDE DEF fold
<1>6. Unfolds(fold, base, step, n, X)
  <2>1. fold[{}] = base
    BY <1>5
  <2>2. ASSUME NEW s \in SUBSET (1..n), s # {}, fold[s \ {Max(s)}] \in X
        PROVE  fold[s] = step[Max(s)][fold[s \ {Max(s)}]]
    <3>1. Max(s) \in 1..n
      BY <1>1, <2>2, MaxInside
    <3> QED
      BY <1>5, <2>2, <3>1
  <2> HIDE DEF step
  <2> QED
    BY <2>1, <2>2 DEF Unfolds
<1> HIDE DEF F
<1>7. PICK states : Chain(states, base, step, n, X) /\ fold[1..n] = states[n]
  <2>1. \E states : Chain(states, base, step, n, X) /\ fold[1..n] = states[n]
    <3>1. n \in Nat /\ base \in X
      BY <1>1, <1>2
    <3> HIDE DEF step, n
    <3> QED
      BY <1>4, <1>6, <3>1, FoldStates
  <2> QED
    BY <2>1
<1>8. \A i \in 1..n : states[i - 1] \in X /\ states[i] = O(states[i - 1], list[i])
  <2> SUFFICES ASSUME NEW i \in 1..n
               PROVE  states[i - 1] \in X /\ states[i] = O(states[i - 1], list[i])
    OBVIOUS
  <2>1. i - 1 \in 0..n
    BY <1>1
  <2>2. states[i - 1] \in X /\ states[i] = step[i][states[i - 1]]
    <3> HIDE DEF step
    <3> QED
      BY <1>7, <2>1 DEF Chain
  <2> QED
    BY <2>2
<1>9. states \in [0..n -> X] /\ states[0] = base
  BY <1>7 DEF Chain
<1> HIDE DEF n
<1> QED
  BY <1>3, <1>7, <1>8, <1>9 DEF n, O, X, Executes

\* A list of the elements of a set, which FiniteSets promises to be finite.
LEMMA SetToSeqIs ==
  ASSUME NEW S, IsFiniteSet(S)
  PROVE  /\ SetToSeq(S) \in Seq(S)
         /\ Len(SetToSeq(S)) = Cardinality(S)
         /\ \A i, j \in DOMAIN SetToSeq(S) : SetToSeq(S)[i] = SetToSeq(S)[j] => i = j
         /\ \A x \in S : \E i \in DOMAIN SetToSeq(S) : SetToSeq(S)[i] = x
<1> DEFINE n == Cardinality(S)
           f == SetToSeq(S)
<1>1. n \in Nat /\ ExistsBijection(1..n, S)
  BY FS_CardinalityType
<1>2. \E g \in [1..n -> S] : IsInjective(g)
  BY <1>1 DEF ExistsBijection, Bijection, Injection
<1>3. f \in [1..n -> S] /\ IsInjective(f)
  BY <1>2 DEF SetToSeq
<1> HIDE DEF f
<1>4. f \in Injection(1..n, S)
  BY <1>3 DEF Injection
<1>5. f \in Surjection(1..n, S)
  <2>1. IsFiniteSet(1..n) /\ Cardinality(1..n) = n
    BY <1>1, FS_Interval
  <2> QED
    BY <1>4, <2>1, FS_Injection
<1>6. f \in Seq(S) /\ Len(f) = n /\ DOMAIN f = 1..n
  BY <1>1, <1>3
<1>7. \A i, j \in DOMAIN f : f[i] = f[j] => i = j
  BY <1>3 DEF IsInjective
<1>8. \A x \in S : \E i \in DOMAIN f : f[i] = x
  BY <1>5, <1>6 DEF Surjection
<1> QED
  BY <1>6, <1>7, <1>8 DEF f

\* Everything held is sold when the account is liquidated.
LEMMA LiquidationIs ==
  ASSUME NEW acc \in Accounts
  PROVE  /\ LiquidationOrders(acc) \in Seq(Orders)
         /\ \A i \in DOMAIN LiquidationOrders(acc) : LiquidationOrders(acc)[i].side = "sell"
         /\ \A s \in Held(acc) : \E i \in DOMAIN LiquidationOrders(acc) :
              /\ LiquidationOrders(acc)[i].symbol = s
              /\ LiquidationOrders(acc)[i].quantity = acc.quantity[s]
<1> DEFINE held == SetToSeq(Held(acc))
           orders == [i \in DOMAIN held |-> Order(held[i], "sell", acc.quantity[held[i]])]
<1>1. LiquidationOrders(acc) = orders
  BY DEF LiquidationOrders
<1>2. IsFiniteSet(Held(acc))
  BY AccountAssumption, FS_Subset DEF ValidConfig, Held
<1>3. held \in Seq(Held(acc)) /\ \A s \in Held(acc) : \E i \in DOMAIN held : held[i] = s
  BY <1>2, SetToSeqIs
<1> HIDE DEF held
<1>4. \A i \in DOMAIN held : held[i] \in Held(acc)
  BY <1>3
<1>5. \A i \in DOMAIN held : Order(held[i], "sell", acc.quantity[held[i]]) \in Orders
  BY <1>4 DEF Order, Orders, Held, Accounts, Quantities
<1>6. orders \in Seq(Orders)
  BY <1>3, <1>5
<1>7. \A i \in DOMAIN orders : i \in DOMAIN held /\ orders[i].side = "sell"
          /\ orders[i].symbol = held[i] /\ orders[i].quantity = acc.quantity[held[i]]
  BY DEF Order
<1>8. DOMAIN orders = DOMAIN held
  OBVIOUS
<1> HIDE DEF orders
<1> QED
  BY <1>1, <1>3, <1>6, <1>7, <1>8

\* The sells of a plan.
LEMMA SellOrdersAre ==
  ASSUME NEW acc \in Accounts, NEW sells \in Seq(Symbols)
  PROVE  /\ SellOrders(acc, sells) \in Seq(Orders)
         /\ \A i \in DOMAIN SellOrders(acc, sells) : SellOrders(acc, sells)[i].side = "sell"
<1> DEFINE held == Only(sells, Held(acc))
           orders == [i \in DOMAIN held |-> Order(held[i], "sell", acc.quantity[held[i]])]
<1>1. SellOrders(acc, sells) = orders
  BY DEF SellOrders
<1>2. held \in Seq(Symbols) /\ \A i \in DOMAIN held : held[i] \in Held(acc)
  BY OnlyMembers
<1> HIDE DEF held
<1>3. \A i \in DOMAIN held : Order(held[i], "sell", acc.quantity[held[i]]) \in Orders
  BY <1>2 DEF Order, Orders, Held, Accounts, Quantities
<1>4. orders \in Seq(Orders)
  BY <1>2, <1>3
<1>5. \A i \in DOMAIN orders : orders[i].side = "sell"
  BY DEF Order
<1> QED
  BY <1>1, <1>4, <1>5

\* The plans a list of buys passes through.
Plans == {plan \in [orders : Seq(Orders), buys : Nat, cash : Int, positions : Nat] :
            SellsFirst(plan.orders)}

Priced(prices) == {s \in Symbols : prices[s] > 0}

LEMMA AddBuyPlans ==
  ASSUME NEW acc \in Accounts, NEW prices \in Quantities, NEW equity \in Nat, NEW date \in Nat,
         NEW plan \in Plans, NEW s \in Priced(prices)
  PROVE  AddBuy(plan, s, acc, prices, equity, date) \in Plans
<1> DEFINE quantity == MaxBuyQuantity(prices[s], equity, plan.cash, acc.quantity[s])
           more   == Append(plan.orders, Order(s, "buy", quantity))
           paid   == plan.cash - quantity * BuyPrice(prices[s]) - Commission
           opened == plan.positions + (IF acc.quantity[s] = 0 THEN 1 ELSE 0)
           next   == [orders |-> more, buys |-> plan.buys + 1, cash |-> paid, positions |-> opened]
<1>1. \/ AddBuy(plan, s, acc, prices, equity, date) = plan
      \/ /\ quantity > 0
         /\ AddBuy(plan, s, acc, prices, equity, date) = next
  <2>1. CASE /\ plan.buys < MaxDailyOrders
             /\ MayEnter(plan, s, acc, date) \/ MayAdd(s, acc, prices[s])
             /\ quantity > 0
    BY <2>1 DEF AddBuy
  <2>2. CASE ~ (/\ plan.buys < MaxDailyOrders
                /\ MayEnter(plan, s, acc, date) \/ MayAdd(s, acc, prices[s])
                /\ quantity > 0)
    BY <2>2 DEF AddBuy
  <2> QED
    BY <2>1, <2>2
<1>2. /\ plan.orders \in Seq(Orders) /\ plan.buys \in Nat /\ plan.cash \in Int
      /\ plan.positions \in Nat /\ SellsFirst(plan.orders)
  BY DEF Plans
<1>3. s \in Symbols /\ prices[s] \in Nat \ {0} /\ acc.quantity[s] \in Nat /\ Commission \in Nat
  BY AccountAssumption DEF ValidConfig, Priced, Quantities, Accounts
<1>4. quantity \in Nat
  <2> DEFINE price == prices[s]
             cash == plan.cash
             held == acc.quantity[s]
  <2>1. price \in Nat \ {0} /\ cash \in Int /\ held \in Nat
    BY <1>2, <1>3
  <2> HIDE DEF price, cash, held
  <2>2. MaxBuyQuantity(price, equity, cash, held) \in Nat
    BY <2>1, BuyLimits
  <2> QED
    BY <2>2 DEF price, cash, held
<1> HIDE DEF quantity
<1>5. ASSUME quantity > 0 PROVE next \in Plans
  <2>1. Order(s, "buy", quantity) \in Orders /\ Order(s, "buy", quantity).side = "buy"
    BY <1>3, <1>4, <1>5 DEF Order, Orders
  <2>2. paid \in Int
    <3>1. BuyPrice(prices[s]) \in Nat
      BY <1>3, Prices
    <3> QED
      BY <1>2, <1>3, <1>4, <3>1, Products
  <2>3. opened \in Nat
    BY <1>2
  <2>4. PICK o, k : /\ o = Order(s, "buy", quantity) /\ k = plan.orders
    OBVIOUS
  <2>5. more = Append(k, o) /\ o \in Orders /\ o.side = "buy" /\ k \in Seq(Orders) /\ SellsFirst(k)
    BY <1>2, <2>1, <2>4
  <2> HIDE DEF more
  <2>6. more \in Seq(Orders)
    BY <2>5
  <2>7. SellsFirst(more)
    <3> SUFFICES ASSUME NEW i \in DOMAIN more, NEW j \in DOMAIN more,
                        i < j, more[j].side = "sell"
                 PROVE  more[i].side = "sell"
      BY DEF SellsFirst
    <3>1. /\ \A m \in DOMAIN more : m \in DOMAIN k \/ m = Len(k) + 1
          /\ \A m \in DOMAIN k : more[m] = k[m] /\ m \in Nat /\ m < Len(k) + 1
          /\ more[Len(k) + 1] = o /\ Len(k) \in Nat
      BY <2>5
    <3>2. j \in DOMAIN k
      BY <2>5, <3>1
    <3>3. i \in DOMAIN k
      BY <3>1, <3>2
    <3> QED
      BY <2>5, <3>1, <3>2, <3>3 DEF SellsFirst
  <2> HIDE DEF paid, opened
  <2> QED
    BY <1>2, <2>2, <2>3, <2>6, <2>7 DEF Plans
<1> HIDE DEF next
<1> QED
  BY <1>1, <1>5

\* The plans that the buys of a plan pass through.
PlansBuys(states, base, list, acc, prices, equity, date) ==
  /\ states \in [0..Len(list) -> Plans]
  /\ states[0] = base
  /\ \A i \in 1..Len(list) : states[i] = AddBuy(states[i - 1], list[i], acc, prices, equity, date)
  /\ FoldLeft(LAMBDA plan, s : AddBuy(plan, s, acc, prices, equity, date), base, list)
       = states[Len(list)]

LEMMA PlanChain ==
  ASSUME NEW acc \in Accounts, NEW prices \in Quantities, NEW equity \in Nat, NEW date \in Nat,
         NEW base \in Plans, NEW list \in Seq(Priced(prices))
  PROVE  \E states : PlansBuys(states, base, list, acc, prices, equity, date)
<1> DEFINE X == Plans
           n == Len(list)
           O(x, e) == AddBuy(x, e, acc, prices, equity, date)
           step == [i \in 1..n |-> [x \in X |-> O(x, list[i])]]
           F(it) == [s \in SUBSET (1..n) |->
                       IF s = {} THEN base ELSE O(it[s \ {Max(s)}], list[Max(s)])]
           fold == CHOOSE it : it = F(it)
<1>1. n \in Nat /\ DOMAIN list = 1..n /\ \A i \in 1..n : list[i] \in Priced(prices)
  OBVIOUS
<1>2. base \in X /\ \A x \in X, e \in Priced(prices) : O(x, e) \in X
  BY AddBuyPlans
<1>3. FoldLeft(LAMBDA plan, s : AddBuy(plan, s, acc, prices, equity, date), base, list) = fold[1..n]
  <2>1. FoldLeft(LAMBDA plan, s : AddBuy(plan, s, acc, prices, equity, date), base, list) =
          (CHOOSE it : it = [s \in SUBSET (DOMAIN list) |->
              IF s = {} THEN base ELSE O(it[s \ {Max(s)}], list[Max(s)])])[DOMAIN list]
    BY DEF FoldLeft, MapThenFoldSet
  <2> QED
    BY <1>1, <2>1
<1> HIDE DEF O, X
<1>4. step \in [1..n -> [X -> X]]
  BY <1>1, <1>2
<1>5. fold = F(fold)
  <2>1. PICK it \in [SUBSET (1..n) -> X] : Iter(it, base, step, n)
    BY <1>1, <1>2, <1>4, FoldExists
  <2>2. it = F(it)
    <3>1. ASSUME NEW s \in SUBSET (1..n), s # {}
          PROVE  step[Max(s)][it[s \ {Max(s)}]] = O(it[s \ {Max(s)}], list[Max(s)])
      <4>1. Max(s) \in 1..n /\ it[s \ {Max(s)}] \in X
        BY <1>1, <3>1, MaxInside
      <4> QED
        BY <4>1
    <3> QED
      BY <2>1, <3>1 DEF Iter
  <2> HIDE DEF F
  <2> QED
    BY <2>2
<1> HIDE DEF fold
<1>6. Unfolds(fold, base, step, n, X)
  <2>1. fold[{}] = base
    BY <1>5
  <2>2. ASSUME NEW s \in SUBSET (1..n), s # {}, fold[s \ {Max(s)}] \in X
        PROVE  fold[s] = step[Max(s)][fold[s \ {Max(s)}]]
    <3>1. Max(s) \in 1..n
      BY <1>1, <2>2, MaxInside
    <3> QED
      BY <1>5, <2>2, <3>1
  <2> HIDE DEF step
  <2> QED
    BY <2>1, <2>2 DEF Unfolds
<1> HIDE DEF F
<1>7. PICK states : Chain(states, base, step, n, X) /\ fold[1..n] = states[n]
  <2>1. \E states : Chain(states, base, step, n, X) /\ fold[1..n] = states[n]
    <3>1. n \in Nat /\ base \in X
      BY <1>1, <1>2
    <3> HIDE DEF step, n
    <3> QED
      BY <1>4, <1>6, <3>1, FoldStates
  <2> QED
    BY <2>1
<1>8. \A i \in 1..n : states[i - 1] \in X /\ states[i] = O(states[i - 1], list[i])
  <2> SUFFICES ASSUME NEW i \in 1..n
               PROVE  states[i - 1] \in X /\ states[i] = O(states[i - 1], list[i])
    OBVIOUS
  <2>1. i - 1 \in 0..n
    BY <1>1
  <2>2. states[i - 1] \in X /\ states[i] = step[i][states[i - 1]]
    <3> HIDE DEF step
    <3> QED
      BY <1>7, <2>1 DEF Chain
  <2> QED
    BY <2>2
<1>9. states \in [0..n -> X] /\ states[0] = base
  BY <1>7 DEF Chain
<1> HIDE DEF n
<1> QED
  BY <1>3, <1>7, <1>8, <1>9 DEF n, O, X, PlansBuys

\* A plan is a list of orders that begins with its sells.
LEMMA BuildOrderPlanIs ==
  ASSUME NEW acc \in Accounts, NEW prices \in Quantities, NEW equity \in Nat, NEW date \in Nat,
         NEW sells \in Seq(Symbols), NEW buys \in Seq(Priced(prices))
  PROVE  /\ BuildOrderPlan(acc, prices, equity, date, sells, buys) \in Seq(Orders)
         /\ SellsFirst(BuildOrderPlan(acc, prices, equity, date, sells, buys))
<1> DEFINE base == [orders |-> SellOrders(acc, sells), buys |-> 0, cash |-> acc.cash,
                    positions |-> Cardinality(Held(acc))]
<1>1. SellOrders(acc, sells) \in Seq(Orders) /\ SellsFirst(SellOrders(acc, sells))
  BY SellOrdersAre DEF SellsFirst
<1>2. IsFiniteSet(Held(acc)) /\ Cardinality(Held(acc)) \in Nat
  BY AccountAssumption, FS_Subset, FS_CardinalityType DEF ValidConfig, Held
<1>3. base \in Plans
  BY <1>1, <1>2 DEF Plans, Accounts
<1> HIDE DEF base
<1>4. PICK states : PlansBuys(states, base, buys, acc, prices, equity, date)
  BY <1>3, PlanChain
<1>5. BuildOrderPlan(acc, prices, equity, date, sells, buys) = states[Len(buys)].orders
  BY <1>4 DEF BuildOrderPlan, PlansBuys, base
<1>6. states[Len(buys)] \in Plans
  <2>1. Len(buys) \in 0..Len(buys)
    OBVIOUS
  <2> QED
    BY <1>4, <2>1 DEF PlansBuys
<1> QED
  BY <1>5, <1>6 DEF Plans

-----------------------------------------------------------------------------
(* Corporate actions                                                       *)

\* An account in the middle of the splits of a day, its cash not yet checked.
Loose == [cash : Int, quantity : Quantities, cost : Quantities, exit : Quantities]

\* Every action of the day is legal and meets a bar.
Acting ==
  /\ events \in [Symbols -> ActionChoices \cup {NoAction}]
  /\ \A s \in Symbols : events[s] # NoAction => bars[s] # NoBar

LEMMA ActingIs ==
  ASSUME Setting, Acting
  PROVE  /\ EventsOf("split") \subseteq Symbols /\ EventsOf("dividend") \subseteq Symbols
         /\ IsFiniteSet(EventsOf("split")) /\ IsFiniteSet(EventsOf("dividend"))
         /\ \A s \in EventsOf("split") :
              /\ events[s].new \in Nat \ {0} /\ events[s].old \in Nat \ {0}
              /\ bars[s].open \in Nat \ {0}
         /\ \A s \in EventsOf("dividend") :
              /\ events[s].amount \in Nat \ {0} /\ events[s].delay \in Nat
<1>1. EventsOf("split") \subseteq Symbols /\ EventsOf("dividend") \subseteq Symbols
  BY DEF EventsOf
<1>2. IsFiniteSet(EventsOf("split")) /\ IsFiniteSet(EventsOf("dividend"))
  BY <1>1, AccountAssumption, FS_Subset DEF ValidConfig
<1>3. ASSUME NEW s \in EventsOf("split")
      PROVE  /\ events[s].new \in Nat \ {0} /\ events[s].old \in Nat \ {0}
             /\ bars[s].open \in Nat \ {0}
  <2>1. s \in Symbols /\ events[s].kind = "split" /\ events[s] # NoAction
    BY <1>3 DEF EventsOf, NoAction
  <2>2. ValidAction(events[s])
    BY <2>1, ActionsAssumption DEF Acting
  <2>3. bars[s] # NoBar
    BY <2>1 DEF Acting
  <2> QED
    BY <2>1, <2>2, <2>3, SettingIs DEF ValidAction
<1>4. ASSUME NEW s \in EventsOf("dividend")
      PROVE  events[s].amount \in Nat \ {0} /\ events[s].delay \in Nat
  <2>1. s \in Symbols /\ events[s].kind = "dividend" /\ events[s] # NoAction
    BY <1>4 DEF EventsOf, NoAction
  <2>2. ValidAction(events[s])
    BY <2>1, ActionsAssumption DEF Acting
  <2> QED
    BY <2>1, <2>2 DEF ValidAction
<1> QED
  BY <1>1, <1>2, <1>3, <1>4

\* Shares and prices after a split.
Resized(quantity, s) == (quantity * events[s].new) \div events[s].old

\* What the split of a symbol makes of a position.
LEMMA SplitPositionIs ==
  ASSUME Setting, Acting, NEW acc \in Loose, NEW s \in EventsOf("split")
  PROVE  LET next == SplitPosition(acc, s) IN
         /\ next \in Loose
         /\ next.quantity = [acc.quantity EXCEPT ![s] = Resized(acc.quantity[s], s)]
         /\ \A t \in Symbols : t # s => next.cost[t] = acc.cost[t]
         /\ next.cost[s] = IF acc.quantity[s] = 0 THEN acc.cost[s]
                           ELSE IF Resized(acc.quantity[s], s) = 0 THEN 0
                           ELSE Rescaled(acc.cost[s], s)
         /\ Remainder(acc, s) = 0 => next.cash = acc.cash
         /\ acc.cash \in Nat /\ ~Rejected(acc, s) => next \in Accounts
<1> DEFINE next == SplitPosition(acc, s)
           held == acc.quantity[s]
           new  == events[s].new
           old  == events[s].old
           open == bars[s].open
           cost == acc.cost[s]
           whole == Resized(held, s)
           rest  == Remainder(acc, s)
           lieu  == InLieu(acc, s)
           split == [acc EXCEPT !.quantity[s] = whole,
                                !.cost[s] = IF whole = 0 THEN 0 ELSE Rescaled(@, s),
                                !.cash = @ + lieu,
                                !.exit[s] = IF rest = 0 THEN @ ELSE day]
<1>1. s \in Symbols /\ new \in Nat \ {0} /\ old \in Nat \ {0} /\ open \in Nat \ {0}
  BY ActingIs
<1>2. /\ acc.cash \in Int /\ held \in Nat /\ cost \in Nat
      /\ acc.quantity \in Quantities /\ acc.cost \in Quantities /\ acc.exit \in Quantities
  BY <1>1 DEF Loose, Quantities
<1>3. /\ whole = (held * new) \div old /\ rest = (held * new) % old
      /\ Rescaled(cost, s) = (cost * old) \div new
      /\ lieu = IF rest = 0 THEN 0 ELSE (rest * SellPrice(open)) \div old - Commission
  BY DEF Resized, Remainder, Rescaled, InLieu
<1>4. next = IF held = 0 THEN acc ELSE split
  BY DEF SplitPosition, Resized
<1>5. SellPrice(open) \in Nat /\ Commission \in Nat /\ day \in Nat
  BY <1>1, Prices, AccountAssumption DEF ValidConfig, Setting
<1>6. whole \in Nat /\ rest \in Nat /\ Rescaled(cost, s) \in Nat /\ lieu \in Int
  <2> DEFINE price == SellPrice(open)
             rescaled == Rescaled(cost, s)
  <2>1. price \in Nat
    BY <1>5
  <2>2. rescaled = (cost * old) \div new
    BY <1>3
  <2> HIDE DEF held, new, old, open, cost, whole, rest, lieu, price, rescaled
  <2>3. held * new \in Nat /\ cost * old \in Nat
    BY <1>1, <1>2, Products
  <2>4. whole \in Nat /\ rescaled \in Nat
    BY <1>1, <1>3, <2>2, <2>3, Products
  <2>5. rest \in Nat
    BY <1>1, <1>3, <2>3
  <2>6. rest * price \in Nat
    BY <2>1, <2>5, Products
  <2>7. (rest * price) \div old \in Nat
    BY <1>1, <2>6, Products
  <2>8. lieu \in Int
    BY <1>3, <1>5, <2>7 DEF price
  <2> QED
    BY <2>4, <2>5, <2>8 DEF rescaled
<1>7. CASE held = 0
  <2> HIDE DEF new, old
  <2>1. next = acc
    BY <1>4, <1>7
  <2>2. whole = 0 /\ rest = 0
    BY <1>1, <1>3, <1>7
  <2>3. acc.quantity = [acc.quantity EXCEPT ![s] = 0]
    BY <1>1, <1>2, <1>7 DEF Quantities
  <2>4. acc.cash \in Nat => acc \in Accounts
    BY DEF Loose, Accounts
  <2> QED
    BY <1>7, <2>1, <2>2, <2>3, <2>4
<1>8. CASE held # 0
  <2>1. next = split
    BY <1>4, <1>8
  <2> HIDE DEF whole, rest, lieu, held
  <2>2. /\ split.cash = acc.cash + lieu
        /\ split.quantity = [acc.quantity EXCEPT ![s] = whole]
        /\ split.cost = [acc.cost EXCEPT ![s] = IF whole = 0 THEN 0 ELSE Rescaled(@, s)]
        /\ split.exit = [acc.exit EXCEPT ![s] = IF rest = 0 THEN @ ELSE day]
        /\ split = [cash |-> split.cash, quantity |-> split.quantity,
                    cost |-> split.cost, exit |-> split.exit]
    <3>1. split.cash = acc.cash + lieu
      BY DEF Loose
    <3>2. split.quantity = [acc.quantity EXCEPT ![s] = whole]
      BY DEF Loose
    <3>3. split.cost = [acc.cost EXCEPT ![s] = IF whole = 0 THEN 0 ELSE Rescaled(@, s)]
      BY DEF Loose
    <3>4. split.exit = [acc.exit EXCEPT ![s] = IF rest = 0 THEN @ ELSE day]
      BY DEF Loose
    <3>5. split = [cash |-> split.cash, quantity |-> split.quantity,
                    cost |-> split.cost, exit |-> split.exit]
      <4>1. DOMAIN acc = {"cash", "quantity", "cost", "exit"}
        BY DEF Loose
      <4>2. /\ DOMAIN split = {"cash", "quantity", "cost", "exit"}
            /\ split = [f \in DOMAIN split |-> split[f]]
        BY <4>1
      <4> HIDE DEF split
      <4> QED
        BY <4>2
    <3> QED
      BY <3>1, <3>2, <3>3, <3>4, <3>5
  <2>3. split.quantity \in Quantities /\ split.cost \in Quantities /\ split.exit \in Quantities
    BY <1>1, <1>2, <1>5, <1>6, <2>2 DEF Quantities
  <2>4. /\ \A t \in Symbols : t # s => split.cost[t] = acc.cost[t]
        /\ split.cost[s] = IF whole = 0 THEN 0 ELSE Rescaled(acc.cost[s], s)
    BY <1>1, <1>2, <2>2 DEF Quantities
  <2>5. split.cash \in Int /\ (rest = 0 => split.cash = acc.cash)
    BY <1>2, <1>3, <1>6, <2>2
  <2>6. acc.cash \in Nat /\ ~Rejected(acc, s) => split.cash \in Nat
    <3>1. ~Rejected(acc, s) => rest = 0 \/ acc.cash + lieu >= 0
      BY <1>2, <1>6 DEF Rejected, rest, lieu
    <3> QED
      BY <1>2, <1>6, <2>2, <2>5, <3>1
  <2> HIDE DEF split
  <2>7. split \in Loose /\ (split.cash \in Nat => split \in Accounts)
    BY <2>2, <2>3, <2>5 DEF Loose, Accounts
  <2> QED
    BY <1>8, <2>1, <2>2, <2>4, <2>5, <2>6, <2>7 DEF held, whole, rest
<1> QED
  BY <1>7, <1>8

\* The accounts that the splits of a day pass through.
SplitsInto(states, base, list) ==
  /\ states \in [0..Len(list) -> Loose]
  /\ states[0] = base
  /\ \A i \in 1..Len(list) : states[i] = SplitPosition(states[i - 1], list[i])
  /\ FoldLeft(SplitPosition, base, list) = states[Len(list)]

LEMMA SplitChain ==
  ASSUME Setting, Acting, NEW base \in Loose, NEW list \in Seq(EventsOf("split"))
  PROVE  \E states : SplitsInto(states, base, list)
<1> DEFINE X == Loose
           n == Len(list)
           O(x, e) == SplitPosition(x, e)
           step == [i \in 1..n |-> [x \in X |-> O(x, list[i])]]
           F(it) == [s \in SUBSET (1..n) |->
                       IF s = {} THEN base ELSE O(it[s \ {Max(s)}], list[Max(s)])]
           fold == CHOOSE it : it = F(it)
<1>1. n \in Nat /\ DOMAIN list = 1..n /\ \A i \in 1..n : list[i] \in EventsOf("split")
  OBVIOUS
<1>2. base \in X /\ \A x \in X, e \in EventsOf("split") : O(x, e) \in X
  BY SplitPositionIs
<1>3. FoldLeft(SplitPosition, base, list) = fold[1..n]
  <2>1. FoldLeft(SplitPosition, base, list) =
          (CHOOSE it : it = [s \in SUBSET (DOMAIN list) |->
              IF s = {} THEN base ELSE O(it[s \ {Max(s)}], list[Max(s)])])[DOMAIN list]
    BY DEF FoldLeft, MapThenFoldSet
  <2> QED
    BY <1>1, <2>1
<1> HIDE DEF O, X
<1>4. step \in [1..n -> [X -> X]]
  BY <1>1, <1>2
<1>5. fold = F(fold)
  <2>1. PICK it \in [SUBSET (1..n) -> X] : Iter(it, base, step, n)
    BY <1>1, <1>2, <1>4, FoldExists
  <2>2. it = F(it)
    <3>1. ASSUME NEW s \in SUBSET (1..n), s # {}
          PROVE  step[Max(s)][it[s \ {Max(s)}]] = O(it[s \ {Max(s)}], list[Max(s)])
      <4>1. Max(s) \in 1..n /\ it[s \ {Max(s)}] \in X
        BY <1>1, <3>1, MaxInside
      <4> QED
        BY <4>1
    <3> QED
      BY <2>1, <3>1 DEF Iter
  <2> HIDE DEF F
  <2> QED
    BY <2>2
<1> HIDE DEF fold
<1>6. Unfolds(fold, base, step, n, X)
  <2>1. fold[{}] = base
    BY <1>5
  <2>2. ASSUME NEW s \in SUBSET (1..n), s # {}, fold[s \ {Max(s)}] \in X
        PROVE  fold[s] = step[Max(s)][fold[s \ {Max(s)}]]
    <3>1. Max(s) \in 1..n
      BY <1>1, <2>2, MaxInside
    <3> QED
      BY <1>5, <2>2, <3>1
  <2> HIDE DEF step
  <2> QED
    BY <2>1, <2>2 DEF Unfolds
<1> HIDE DEF F
<1>7. PICK states : Chain(states, base, step, n, X) /\ fold[1..n] = states[n]
  <2>1. \E states : Chain(states, base, step, n, X) /\ fold[1..n] = states[n]
    <3>1. n \in Nat /\ base \in X
      BY <1>1, <1>2
    <3> HIDE DEF step, n
    <3> QED
      BY <1>4, <1>6, <3>1, FoldStates
  <2> QED
    BY <2>1
<1>8. \A i \in 1..n : states[i - 1] \in X /\ states[i] = O(states[i - 1], list[i])
  <2> SUFFICES ASSUME NEW i \in 1..n
               PROVE  states[i - 1] \in X /\ states[i] = O(states[i - 1], list[i])
    OBVIOUS
  <2>1. i - 1 \in 0..n
    BY <1>1
  <2>2. states[i - 1] \in X /\ states[i] = step[i][states[i - 1]]
    <3> HIDE DEF step
    <3> QED
      BY <1>7, <2>1 DEF Chain
  <2> QED
    BY <2>2
<1>9. states \in [0..n -> X] /\ states[0] = base
  BY <1>7 DEF Chain
<1> HIDE DEF n
<1> QED
  BY <1>3, <1>7, <1>8, <1>9 DEF n, O, X, SplitsInto

\* The splits of a day, in the order they are executed in, and the account
\* after each.
SplitList  == SetToSeq(EventsOf("split"))
SplitSteps == [i \in 0..Len(SplitList) |->
                 FoldLeft(SplitPosition, account, SubSeq(SplitList, 1, i))]

LEMMA SplitListIs ==
  ASSUME Setting, Acting
  PROVE  /\ SplitList \in Seq(EventsOf("split")) /\ Len(SplitList) \in Nat
         /\ DOMAIN SplitList = 1..Len(SplitList)
         /\ \A i \in 1..Len(SplitList) : SplitList[i] \in EventsOf("split")
         /\ \A i, j \in 1..Len(SplitList) : SplitList[i] = SplitList[j] => i = j
         /\ \A s \in EventsOf("split") : \E i \in 1..Len(SplitList) : SplitList[i] = s
<1>1. IsFiniteSet(EventsOf("split"))
  BY ActingIs
<1>2. /\ SplitList \in Seq(EventsOf("split"))
      /\ \A i, j \in DOMAIN SplitList : SplitList[i] = SplitList[j] => i = j
      /\ \A s \in EventsOf("split") : \E i \in DOMAIN SplitList : SplitList[i] = s
  BY <1>1, SetToSeqIs DEF SplitList
<1>3. DOMAIN SplitList = 1..Len(SplitList) /\ Len(SplitList) \in Nat
  BY <1>2
<1>4. \A i \in 1..Len(SplitList) : SplitList[i] \in EventsOf("split")
  BY <1>2, <1>3
<1> QED
  BY <1>2, <1>3, <1>4

LEMMA SplitStepsAre ==
  ASSUME Setting, Acting, account \in Accounts
  PROVE  /\ SplitSteps \in [0..Len(SplitList) -> Loose]
         /\ SplitSteps[0] = account
         /\ \A i \in 1..Len(SplitList) :
              SplitSteps[i] = SplitPosition(SplitSteps[i - 1], SplitList[i])
<1> DEFINE n == Len(SplitList)
           E == EventsOf("split")
<1>1. account \in Loose
  BY DEF Accounts, Loose
<1>2. SplitList \in Seq(E) /\ n \in Nat
  BY SplitListIs
<1>3. PICK states : SplitsInto(states, account, SplitList)
  BY <1>1, <1>2, SplitChain
<1>4. ASSUME NEW i \in 0..n
      PROVE  SplitSteps[i] = states[i]
  <2> DEFINE prefix == SubSeq(SplitList, 1, i)
  <2>1. prefix \in Seq(E) /\ Len(prefix) = i /\ \A j \in 1..i : prefix[j] = SplitList[j]
    BY <1>2
  <2> HIDE DEF prefix
  <2>2. PICK before : SplitsInto(before, account, prefix)
    BY <1>1, <2>1, SplitChain
  <2>3. /\ before[0] = states[0]
        /\ \A j \in 1..i : before[j - 1] = states[j - 1] => before[j] = states[j]
    <3>1. before[0] = states[0]
      BY <1>3, <2>2 DEF SplitsInto
    <3>2. ASSUME NEW j \in 1..i, before[j - 1] = states[j - 1]
          PROVE  before[j] = states[j]
      <4>1. before[j] = SplitPosition(before[j - 1], prefix[j])
        BY <2>1, <2>2 DEF SplitsInto
      <4>2. j \in 1..n
        BY <1>2
      <4>3. states[j] = SplitPosition(states[j - 1], SplitList[j])
        BY <1>3, <4>2 DEF SplitsInto
      <4> QED
        BY <2>1, <3>2, <4>1, <4>3
    <3> QED
      BY <3>1, <3>2
  <2>4. \A j \in 0..i : before[j] = states[j]
    <3>1. Together(before, states, i) /\ i \in Nat
      BY <1>2, <2>3 DEF Together
    <3> QED
      BY <3>1, ChainUnique
  <2>5. before[i] = states[i]
    BY <1>2, <2>4
  <2>6. FoldLeft(SplitPosition, account, prefix) = before[i]
    BY <2>1, <2>2 DEF SplitsInto
  <2> QED
    BY <2>5, <2>6 DEF SplitSteps, prefix
<1>5. states \in [0..n -> Loose] /\ SplitSteps = [i \in 0..n |-> SplitSteps[i]]
  BY <1>3 DEF SplitsInto, SplitSteps
<1>6. SplitSteps = states
  BY <1>4, <1>5
<1> QED
  BY <1>3, <1>5, <1>6 DEF SplitsInto

\* What the splits of some symbols make of the account: shares and average
\* costs are rescaled, and without fractions no cash moves.
SplitCost(s) == IF account.quantity[s] = 0 THEN account.cost[s]
                ELSE IF Resized(account.quantity[s], s) = 0 THEN 0
                ELSE Rescaled(account.cost[s], s)

SplitOf(acc, T) ==
  /\ acc \in Accounts
  /\ \A s \in Symbols :
       /\ acc.quantity[s] = IF s \in T THEN Resized(account.quantity[s], s)
                                       ELSE account.quantity[s]
       /\ acc.cost[s] = IF s \in T THEN SplitCost(s) ELSE account.cost[s]
  /\ NoFraction => acc.cash = account.cash

LEMMA SplitStepIs ==
  ASSUME Setting, Acting, account \in Accounts,
         NEW T \in SUBSET Symbols, NEW acc, SplitOf(acc, T),
         NEW s \in EventsOf("split"), s \notin T, ~Rejected(acc, s)
  PROVE  SplitOf(SplitPosition(acc, s), T \cup {s})
<1> DEFINE next == SplitPosition(acc, s)
           whole == Resized(acc.quantity[s], s)
<1>1. s \in Symbols /\ acc \in Accounts /\ acc \in Loose /\ acc.cash \in Nat
  BY ActingIs DEF SplitOf, Accounts, Loose
<1>2. acc.quantity[s] = account.quantity[s] /\ acc.cost[s] = account.cost[s]
  BY <1>1 DEF SplitOf
<1>3. /\ next \in Accounts
      /\ next.quantity = [acc.quantity EXCEPT ![s] = whole]
      /\ \A t \in Symbols : t # s => next.cost[t] = acc.cost[t]
      /\ next.cost[s] = SplitCost(s)
      /\ Remainder(acc, s) = 0 => next.cash = acc.cash
  BY <1>1, <1>2, SplitPositionIs DEF SplitCost
<1>4. NoFraction => Remainder(acc, s) = 0
  BY <1>2 DEF NoFraction, Remainder
<1>5. acc.quantity \in Quantities /\ whole = Resized(account.quantity[s], s)
  BY <1>1, <1>2 DEF Accounts
<1> HIDE DEF next, whole
<1>6. next.quantity[s] = whole /\ \A t \in Symbols : t # s => next.quantity[t] = acc.quantity[t]
  BY <1>1, <1>3, <1>5 DEF Quantities
<1>7. ASSUME NEW t \in Symbols
      PROVE  /\ next.quantity[t] = IF t \in T \cup {s} THEN Resized(account.quantity[t], t)
                                                       ELSE account.quantity[t]
             /\ next.cost[t] = IF t \in T \cup {s} THEN SplitCost(t) ELSE account.cost[t]
  <2>1. CASE t = s
    BY <1>3, <1>5, <1>6, <2>1
  <2>2. CASE t # s
    BY <1>3, <1>6, <2>2 DEF SplitOf
  <2> QED
    BY <2>1, <2>2
<1>8. NoFraction => next.cash = account.cash
  BY <1>3, <1>4 DEF SplitOf
<1>9. SplitOf(next, T \cup {s})
  BY <1>3, <1>7, <1>8 DEF SplitOf
<1> QED
  BY <1>9 DEF next

LEMMA SplitsAre ==
  ASSUME Setting, Acting, account \in Accounts,
         \A i \in 1..Len(SplitList) : ~Rejected(SplitSteps[i - 1], SplitList[i])
  PROVE  SplitOf(SplitSteps[Len(SplitList)], EventsOf("split"))
<1> DEFINE n == Len(SplitList)
           T(i) == {SplitList[j] : j \in 1..i}
           S == {i \in 0..n : SplitOf(SplitSteps[i], T(i))}
<1>1. /\ n \in Nat /\ EventsOf("split") \subseteq Symbols
      /\ \A i \in 1..n : SplitList[i] \in EventsOf("split")
      /\ \A i, j \in 1..n : SplitList[i] = SplitList[j] => i = j
      /\ \A s \in EventsOf("split") : \E i \in 1..n : SplitList[i] = s
  BY SplitListIs, ActingIs
<1>2. 0 \in S
  <2>1. T(0) = {} /\ SplitSteps[0] = account
    BY SplitStepsAre
  <2> HIDE DEF T
  <2> QED
    BY <1>1, <2>1 DEF SplitOf
<1>3. ASSUME NEW i \in 1..n, i - 1 \in S
      PROVE  i \in S
  <2> DEFINE s == SplitList[i]
  <2>1. SplitSteps[i] = SplitPosition(SplitSteps[i - 1], s)
    BY SplitStepsAre
  <2>2. SplitOf(SplitSteps[i - 1], T(i - 1)) /\ ~Rejected(SplitSteps[i - 1], s)
    BY <1>3
  <2>3. s \in EventsOf("split") /\ s \notin T(i - 1) /\ T(i - 1) \in SUBSET Symbols
    BY <1>1
  <2>4. T(i) = T(i - 1) \cup {s}
    <3>1. 1..i = 1..(i - 1) \cup {i}
      BY <1>1
    <3> QED
      BY <3>1
  <2> HIDE DEF T, s
  <2>5. SplitOf(SplitPosition(SplitSteps[i - 1], s), T(i - 1) \cup {s})
    BY <2>2, <2>3, SplitStepIs
  <2>6. i \in 0..n
    BY <1>1
  <2> QED
    BY <2>1, <2>4, <2>5, <2>6
<1> HIDE DEF S
<1>4. 0..n \subseteq S
  BY <1>1, <1>2, <1>3, InductionUpTo
<1>5. n \in S
  BY <1>1, <1>4
<1>6. T(n) = EventsOf("split")
  BY <1>1
<1> HIDE DEF T
<1> QED
  BY <1>5, <1>6 DEF S

LEMMA Divides ==
  \A x \in Nat, y \in Nat \ {0} :
     /\ x \div y \in Nat /\ x % y \in Nat /\ x % y < y
     /\ x = y * (x \div y) + (x % y)
OBVIOUS

\* A position keeps its value when its shares and its price are rescaled, up
\* to a tick a share.
LEMMA RescaleValue ==
  ASSUME NEW q \in Nat, NEW v \in Nat, NEW new \in Nat \ {0}, NEW old \in Nat \ {0},
         (q * new) % old = 0
  PROVE  LET q2 == (q * new) \div old
             v2 == (v * old) \div new
         IN  /\ q2 \in Nat /\ v2 \in Nat
             /\ q * v - q2 * v2 \in 0..q2
             /\ (v * old) % new = 0 => q * v = q2 * v2
             /\ q2 = 0 => q = 0
<1> DEFINE q2 == (q * new) \div old
           v2 == (v * old) \div new
           m  == (v * old) % new
<1>1. q * new \in Nat /\ v * old \in Nat
  BY Products
<1>2. q2 \in Nat /\ q * new = old * q2
  <2> DEFINE x == q * new
  <2>1. x \in Nat /\ x % old = 0
    BY <1>1
  <2> HIDE DEF x
  <2>2. x \div old \in Nat /\ x = old * (x \div old) + (x % old)
    BY <2>1, Divides
  <2>3. old * (x \div old) \in Nat
    BY <2>2, Products
  <2>4. x = old * (x \div old)
    BY <2>1, <2>2, <2>3
  <2> QED
    BY <2>2, <2>4 DEF x
<1>3. v2 \in Nat /\ m \in Nat /\ m < new /\ v * old = new * v2 + m
  <2> DEFINE y == v * old
  <2>1. y \in Nat
    BY <1>1
  <2> HIDE DEF y
  <2>2. y \div new \in Nat /\ y % new \in Nat /\ y % new < new /\ y = new * (y \div new) + (y % new)
    BY <2>1, Divides
  <2> QED
    BY <2>2 DEF y
<1> HIDE DEF q2, v2, m
<1> DEFINE d == q * v - q2 * v2
<1>4. d \in Int /\ new * d = q2 * m
  <2>1. new * d = (q * new) * v - q2 * (new * v2)
    BY <1>2, <1>3
  <2>2. (q * new) * v = q2 * (v * old)
    BY <1>2
  <2>3. q2 * (v * old) = q2 * (new * v2) + q2 * m
    BY <1>2, <1>3
  <2> QED
    BY <1>2, <1>3, <2>1, <2>2, <2>3
<1> HIDE DEF d
<1>5. d >= 0
  <2>1. q2 * m \in Nat
    BY <1>2, <1>3, Products
  <2>2. d < 0 => new * d < 0
    BY <1>4
  <2> QED
    BY <1>4, <2>1, <2>2
<1>6. d <= q2
  <2>1. q2 * m <= q2 * new
    BY <1>2, <1>3, Products
  <2>2. d > q2 => new * d > q2 * new
    BY <1>2, <1>4
  <2> QED
    BY <1>2, <1>3, <1>4, <2>1, <2>2
<1>7. m = 0 => d = 0
  <2>1. m = 0 => new * d = 0
    BY <1>2, <1>4
  <2>2. d > 0 => new * d > 0
    BY <1>4
  <2> QED
    BY <1>4, <1>5, <2>1, <2>2
<1>8. q2 = 0 => q = 0
  <2>1. q2 = 0 => q * new = 0
    BY <1>2
  <2>2. q > 0 => q * new > 0
    OBVIOUS
  <2> QED
    BY <2>1, <2>2
<1>9. q * v - q2 * v2 \in 0..q2 /\ (m = 0 => q * v = q2 * v2)
  <2>1. q * v \in Int /\ q2 * v2 \in Int
    BY <1>2, <1>3
  <2>2. \A x, y \in Int : x - y = 0 => x = y
    OBVIOUS
  <2>3. d = q * v - q2 * v2
    BY DEF d
  <2>4. d \in 0..q2
    BY <1>2, <1>4, <1>5, <1>6
  <2> QED
    BY <1>7, <2>1, <2>2, <2>3, <2>4
<1> QED
  BY <1>2, <1>3, <1>8, <1>9 DEF q2, v2, m

\* The shares an order is for after the splits.
SplitQuantity(order) ==
  IF order.symbol \in EventsOf("split") THEN Resized(order.quantity, order.symbol)
                                        ELSE order.quantity

LEMMA SplitOrdersAre ==
  ASSUME Setting, Acting, NEW orders \in Seq(Orders), SellsFirst(orders)
  PROVE  /\ SplitOrders(orders) \in Seq(Orders)
         /\ SellsFirst(SplitOrders(orders))
         /\ \A j \in DOMAIN SplitOrders(orders) : \E i \in DOMAIN orders :
              SplitOrders(orders)[j].side = orders[i].side
         /\ \A i \in DOMAIN orders : SplitQuantity(orders[i]) > 0 =>
              \E j \in DOMAIN SplitOrders(orders) :
                 /\ SplitOrders(orders)[j].symbol = orders[i].symbol
                 /\ SplitOrders(orders)[j].quantity = SplitQuantity(orders[i])
         /\ EventsOf("split") = {} => SplitOrders(orders) = orders
<1> DEFINE rescale(order) ==
             IF order.symbol \notin EventsOf("split") THEN order
             ELSE [order EXCEPT !.quantity =
                      (@ * events[order.symbol].new) \div events[order.symbol].old]
           rescaled == [i \in DOMAIN orders |-> rescale(orders[i])]
           some == {order \in ToSet(rescaled) : order.quantity > 0}
           Sized == [symbol : Symbols, side : {"buy", "sell"}, quantity : Nat]
<1>1. SplitOrders(orders) = Only(rescaled, some)
  BY DEF SplitOrders
<1>2. ASSUME NEW order \in Orders
      PROVE  /\ rescale(order) \in Sized
             /\ rescale(order).symbol = order.symbol /\ rescale(order).side = order.side
             /\ rescale(order).quantity = SplitQuantity(order)
  <2>1. CASE order.symbol \notin EventsOf("split")
    BY <2>1 DEF Orders, SplitQuantity
  <2>2. CASE order.symbol \in EventsOf("split")
    <3> DEFINE q == order.quantity
               new == events[order.symbol].new
               old == events[order.symbol].old
               whole == (q * new) \div old
    <3>1. q \in Nat /\ new \in Nat \ {0} /\ old \in Nat \ {0}
      BY <2>2, ActingIs DEF Orders
    <3>2. rescale(order) = [order EXCEPT !.quantity = whole] /\ SplitQuantity(order) = whole
      BY <2>2 DEF SplitQuantity, Resized, Orders
    <3> HIDE DEF q, new, old
    <3>3. q * new \in Nat
      BY <3>1, Products
    <3>4. whole \in Nat
      BY <3>1, <3>3, Products
    <3> HIDE DEF whole, rescale
    <3> QED
      BY <3>2, <3>4 DEF Orders
  <2> QED
    BY <2>1, <2>2
<1> HIDE DEF rescale
<1>3. DOMAIN orders = 1..Len(orders) /\ Len(orders) \in Nat /\ \A i \in DOMAIN orders : orders[i] \in Orders
  OBVIOUS
<1>4. rescaled \in Seq(Sized) /\ DOMAIN rescaled = DOMAIN orders
  BY <1>2, <1>3
<1>5. \A i \in DOMAIN orders :
         /\ rescaled[i].symbol = orders[i].symbol /\ rescaled[i].side = orders[i].side
         /\ rescaled[i].quantity = SplitQuantity(orders[i])
  BY <1>2, <1>3
<1> HIDE DEF Sized
<1>6. \A i \in DOMAIN orders : rescaled[i] \in some <=> SplitQuantity(orders[i]) > 0
  BY <1>4, <1>5 DEF ToSet
<1>7. EventsOf("split") = {} => rescaled = orders
  BY <1>3 DEF rescale
<1>8. \A x \in some : x.quantity > 0
  OBVIOUS
<1> HIDE DEF rescaled, some
<1> DEFINE only == Only(rescaled, some)
<1>9. /\ only \in Seq(Sized)
      /\ \A j \in DOMAIN only :
           only[j] \in some /\ \E i \in DOMAIN rescaled : rescaled[i] = only[j]
      /\ \A i \in DOMAIN rescaled :
           rescaled[i] \in some => \E j \in DOMAIN only : only[j] = rescaled[i]
  BY <1>4, OnlyMembers
<1>10. SellsFirst(only)
  <2>1. SellsFirst(rescaled)
    BY <1>4, <1>5 DEF SellsFirst
  <2> QED
    BY <1>4, <2>1, OnlySellsFirst
<1>11. EventsOf("split") = {} => only = orders
  <2> SUFFICES ASSUME EventsOf("split") = {}
               PROVE  Only(rescaled, some) = orders
    OBVIOUS
  <2>1. \A i \in DOMAIN rescaled : rescaled[i] \in some
    BY <1>3, <1>4, <1>6 DEF SplitQuantity, Orders
  <2>2. Only(rescaled, some) = rescaled
    BY <1>4, <2>1, OnlyAll
  <2> QED
    BY <1>7, <2>2
<1> HIDE DEF only
<1>12. only \in Seq(Orders)
  <2>1. \A j \in DOMAIN only : only[j] \in Orders
    <3>1. \A x \in Sized : x.quantity > 0 => x \in Orders
      BY DEF Sized, Orders
    <3> QED
      BY <1>8, <1>9, <3>1
  <2> QED
    BY <1>9, <2>1
<1>13. \A j \in DOMAIN only : \E i \in DOMAIN orders : only[j].side = orders[i].side
  <2> SUFFICES ASSUME NEW j \in DOMAIN only
               PROVE  \E i \in DOMAIN orders : only[j].side = orders[i].side
    OBVIOUS
  <2>1. PICK i \in DOMAIN rescaled : rescaled[i] = only[j]
    BY <1>9
  <2> QED
    BY <1>4, <1>5, <2>1
<1>14. \A i \in DOMAIN orders : SplitQuantity(orders[i]) > 0 =>
              \E j \in DOMAIN only :
                 /\ only[j].symbol = orders[i].symbol
                 /\ only[j].quantity = SplitQuantity(orders[i])
  <2> SUFFICES ASSUME NEW i \in DOMAIN orders, SplitQuantity(orders[i]) > 0
               PROVE  \E j \in DOMAIN only :
                         /\ only[j].symbol = orders[i].symbol
                         /\ only[j].quantity = SplitQuantity(orders[i])
    OBVIOUS
  <2>1. PICK j \in DOMAIN only : only[j] = rescaled[i]
    BY <1>4, <1>6, <1>9
  <2> QED
    BY <1>5, <2>1
<1> QED
  BY <1>1, <1>10, <1>11, <1>12, <1>13, <1>14 DEF only

-----------------------------------------------------------------------------
(* Stops, and what the plain engine does with the same account             *)

\* The fill of the stop of a symbol that a bar hits, and the sale at it.
StopAt(s) == StopFill(account.cost[s], HighOf(s), bars[s])
StopSale(acc, s) == Submit(acc, Order(s, "sell", acc.quantity[s]), StopAt(s), day)
HitBy(s) == bars[s] # NoBar /\ StopAt(s) > 0
Hit == {s \in Held(account) : HitBy(s)}

LEMMA StopAtIs ==
  ASSUME Setting, account \in Accounts, highs \in Quantities, NEW s \in Symbols
  PROVE  /\ HighOf(s) \in Nat
         /\ bars[s] # NoBar => StopAt(s) \in Nat
<1> DEFINE cost == account.cost[s]
           high == HighOf(s)
           fixed == cost * (100 - StopLossPct)
           trailing == IF high > cost THEN high * (100 - TrailingPct) ELSE 0
<1>1. cost \in Nat /\ highs[s] \in Nat
  BY DEF Accounts, Quantities
<1>2. high \in Nat
  BY <1>1 DEF HighOf
<1>3. 100 - StopLossPct \in Nat /\ 100 - TrailingPct \in Nat
  BY AccountAssumption DEF ValidConfig
<1> HIDE DEF cost, high
<1>4. fixed \in Nat /\ trailing \in Nat
  BY <1>1, <1>2, <1>3, Products
<1> HIDE DEF fixed, trailing
<1>5. StopPrice(cost, high) = Greatest(fixed, trailing) \div 100
  BY DEF StopPrice, fixed, trailing
<1>6. Greatest(fixed, trailing) \in Nat
  BY <1>4 DEF Greatest
<1>7. StopPrice(cost, high) \in Nat
  BY <1>5, <1>6
<1>8. bars[s] # NoBar => StopFill(cost, high, bars[s]) \in Nat
  <2>1. bars[s] # NoBar => bars[s].open \in Nat
    BY SettingIs
  <2> QED
    BY <1>7, <2>1 DEF StopFill
<1> QED
  BY <1>2, <1>8 DEF StopAt, cost, high

LEMMA StopSaleIs ==
  ASSUME Setting, account \in Accounts, highs \in Quantities,
         NEW acc \in Accounts, NEW s \in Hit
  PROVE  /\ StopSale(acc, s) = Sold(acc, s, acc.quantity[s], StopAt(s), day)
         /\ StopSale(acc, s) \in Accounts
<1>1. s \in Symbols /\ bars[s] # NoBar /\ StopAt(s) > 0
  BY DEF Hit, HitBy, Held
<1>2. StopAt(s) \in Nat \ {0} /\ acc.quantity[s] \in Nat /\ day \in Nat
  BY <1>1, StopAtIs DEF Accounts, Quantities, Setting
<1>3. StopSale(acc, s) = Sold(acc, s, acc.quantity[s], StopAt(s), day)
  BY DEF StopSale, Submit, Order
<1> QED
  BY <1>1, <1>2, <1>3, SoldIs

\* The accounts that the stops of a day pass through.
StopsSell(states, base, list) ==
  /\ states \in [0..Len(list) -> Accounts]
  /\ states[0] = base
  /\ \A i \in 1..Len(list) : states[i] = StopSale(states[i - 1], list[i])
  /\ FoldLeft(LAMBDA acc, s : StopSale(acc, s), base, list) = states[Len(list)]

LEMMA StopChain ==
  ASSUME Setting, account \in Accounts, highs \in Quantities,
         NEW base \in Accounts, NEW list \in Seq(Hit)
  PROVE  \E states : StopsSell(states, base, list)
<1> DEFINE X == Accounts
           n == Len(list)
           O(x, e) == StopSale(x, e)
           step == [i \in 1..n |-> [x \in X |-> O(x, list[i])]]
           F(it) == [s \in SUBSET (1..n) |->
                       IF s = {} THEN base ELSE O(it[s \ {Max(s)}], list[Max(s)])]
           fold == CHOOSE it : it = F(it)
<1>1. n \in Nat /\ DOMAIN list = 1..n /\ \A i \in 1..n : list[i] \in Hit
  OBVIOUS
<1>2. base \in X /\ \A x \in X, e \in Hit : O(x, e) \in X
  BY StopSaleIs
<1>3. FoldLeft(LAMBDA acc, s : StopSale(acc, s), base, list) = fold[1..n]
  <2>1. FoldLeft(LAMBDA acc, s : StopSale(acc, s), base, list) =
          (CHOOSE it : it = [s \in SUBSET (DOMAIN list) |->
              IF s = {} THEN base ELSE O(it[s \ {Max(s)}], list[Max(s)])])[DOMAIN list]
    BY DEF FoldLeft, MapThenFoldSet
  <2> QED
    BY <1>1, <2>1
<1> HIDE DEF O, X
<1>4. step \in [1..n -> [X -> X]]
  BY <1>1, <1>2
<1>5. fold = F(fold)
  <2>1. PICK it \in [SUBSET (1..n) -> X] : Iter(it, base, step, n)
    BY <1>1, <1>2, <1>4, FoldExists
  <2>2. it = F(it)
    <3>1. ASSUME NEW s \in SUBSET (1..n), s # {}
          PROVE  step[Max(s)][it[s \ {Max(s)}]] = O(it[s \ {Max(s)}], list[Max(s)])
      <4>1. Max(s) \in 1..n /\ it[s \ {Max(s)}] \in X
        BY <1>1, <3>1, MaxInside
      <4> QED
        BY <4>1
    <3> QED
      BY <2>1, <3>1 DEF Iter
  <2> HIDE DEF F
  <2> QED
    BY <2>2
<1> HIDE DEF fold
<1>6. Unfolds(fold, base, step, n, X)
  <2>1. fold[{}] = base
    BY <1>5
  <2>2. ASSUME NEW s \in SUBSET (1..n), s # {}, fold[s \ {Max(s)}] \in X
        PROVE  fold[s] = step[Max(s)][fold[s \ {Max(s)}]]
    <3>1. Max(s) \in 1..n
      BY <1>1, <2>2, MaxInside
    <3> QED
      BY <1>5, <2>2, <3>1
  <2> HIDE DEF step
  <2> QED
    BY <2>1, <2>2 DEF Unfolds
<1> HIDE DEF F
<1>7. PICK states : Chain(states, base, step, n, X) /\ fold[1..n] = states[n]
  <2>1. \E states : Chain(states, base, step, n, X) /\ fold[1..n] = states[n]
    <3>1. n \in Nat /\ base \in X
      BY <1>1, <1>2
    <3> HIDE DEF step, n
    <3> QED
      BY <1>4, <1>6, <3>1, FoldStates
  <2> QED
    BY <2>1
<1>8. \A i \in 1..n : states[i - 1] \in X /\ states[i] = O(states[i - 1], list[i])
  <2> SUFFICES ASSUME NEW i \in 1..n
               PROVE  states[i - 1] \in X /\ states[i] = O(states[i - 1], list[i])
    OBVIOUS
  <2>1. i - 1 \in 0..n
    BY <1>1
  <2>2. states[i - 1] \in X /\ states[i] = step[i][states[i - 1]]
    <3> HIDE DEF step
    <3> QED
      BY <1>7, <2>1 DEF Chain
  <2> QED
    BY <2>2
<1>9. states \in [0..n -> X] /\ states[0] = base
  BY <1>7 DEF Chain
<1> HIDE DEF n
<1> QED
  BY <1>3, <1>7, <1>8, <1>9 DEF n, O, X, StopsSell

\* The account after the stops.
AfterStops == FoldLeft(LAMBDA acc, s : StopSale(acc, s), account, SetToSeq(Hit))

LEMMA BarStopsIs ==
  ASSUME BarStops
  PROVE  /\ phase = "close" /\ phase' = "assess"
         /\ account' = AfterStops /\ stopped' = Hit
         /\ highs' = [s \in Symbols |-> IF s \notin Held(AfterStops) THEN 0
                                         ELSE Greatest(HighOf(s), bars[s].high)]
         /\ UNCHANGED <<day, bars, latest, pending, peak, halted, corporate>>
BY DEF BarStops, AfterStops, Hit, HitBy, StopSale, StopAt

LEMMA AfterStopsIs ==
  ASSUME Setting, account \in Accounts, highs \in Quantities
  PROVE  AfterStops \in Accounts /\ Hit \subseteq Symbols /\ SetToSeq(Hit) \in Seq(Hit)
<1>1. Hit \subseteq Symbols /\ IsFiniteSet(Hit)
  BY AccountAssumption, FS_Subset DEF ValidConfig, Hit, Held
<1>2. SetToSeq(Hit) \in Seq(Hit)
  BY <1>1, SetToSeqIs
<1> DEFINE list == SetToSeq(Hit)
<1>3. PICK states : StopsSell(states, account, list)
  <2> HIDE DEF list
  <2>1. list \in Seq(Hit)
    BY <1>2 DEF list
  <2> QED
    BY <2>1, StopChain
<1>4. Len(list) \in 0..Len(list)
  BY <1>2
<1>5. states[Len(list)] \in Accounts
  BY <1>3, <1>4 DEF StopsSell
<1> QED
  BY <1>1, <1>2, <1>3, <1>5 DEF AfterStops, StopsSell

-----------------------------------------------------------------------------
(* The invariant of the engine.                                            *)

Phases == {"night", "dividends", "splits", "open", "close", "assess", "failed"}

EngineTypes ==
  /\ Setting /\ Acting
  /\ day \in 0..Days /\ phase \in Phases
  /\ account \in Accounts /\ highs \in Quantities
  /\ pending \in Seq(Orders)
  /\ stopped \subseteq Symbols /\ peak \in Nat /\ halted \in BOOLEAN
  /\ actions \in 0..MaxActions /\ policy \in {"reject", "cash_at_open"}

\* At a close there is no order left and every bar has given its mark.
Closed ==
  /\ day >= TradeStart /\ pending = <<>>
  /\ \A s \in Symbols : bars[s] # NoBar => latest[s] > 0

\* A dividend is owed once, for the day it went ex.
OwedBefore ==
  \A item \in receivables : item.ex <= day /\ (phase = "dividends" => item.ex < day)

NoActionYet == receivables = {} /\ \A s \in Symbols : events[s] = NoAction

EngineInv ==
  /\ EngineTypes
  /\ SellsFirst(pending)
  /\ phase \in {"close", "assess"} => Closed
  /\ halted => day >= TradeStart
  /\ OwedBefore
  /\ actions = 0 => NoActionYet

LEMMA EngineInvInit ==
  ASSUME Init
  PROVE  EngineInv /\ HaltedHoldingsOnSale
<1>0. /\ StartingCash \in Nat /\ Days \in Nat /\ MaxActions \in Nat
  BY AccountAssumption, MarketAssumption DEF ValidConfig
<1>1. NewAccount \in Accounts /\ [s \in Symbols |-> 0] \in Quantities
  BY <1>0 DEF NewAccount, Accounts, Quantities
<1>2. Setting
  BY <1>1, FS_EmptySet DEF Init, Setting
<1>3. Acting
  BY DEF Init, Acting
<1>4. EngineTypes
  <2>1. 0 \in 0..Days /\ 0 \in 0..MaxActions /\ StartingCash \in Nat
    BY <1>0
  <2>2. account \in Accounts /\ highs \in Quantities /\ pending \in Seq(Orders)
    BY <1>1 DEF Init
  <2>3. phase \in Phases /\ stopped \subseteq Symbols /\ peak \in Nat /\ halted \in BOOLEAN
    <3>1. phase = "night" /\ stopped = {} /\ peak = StartingCash /\ halted = FALSE
      BY DEF Init
    <3>2. phase \in Phases
      BY <3>1 DEF Phases
    <3>3. peak \in Nat
      BY <2>1, <3>1
    <3>4. halted \in BOOLEAN
      BY <3>1
    <3>5. stopped \subseteq Symbols
      BY <3>1
    <3> QED
      BY <3>2, <3>3, <3>4, <3>5
  <2>4. day \in 0..Days /\ actions \in 0..MaxActions /\ policy \in {"reject", "cash_at_open"}
    BY <2>1 DEF Init
  <2> QED
    BY <1>2, <1>3, <2>2, <2>3, <2>4 DEF EngineTypes
<1> QED
  BY <1>4 DEF Init, EngineInv, SellsFirst, OwedBefore, NoActionYet, HaltedHoldingsOnSale

LEMMA EngineTypesGive ==
  ASSUME EngineTypes
  PROVE  TypeOK
<1>1. /\ account.cash \in Nat /\ account.quantity \in [Symbols -> Nat]
      /\ account.cost \in [Symbols -> Nat]
  BY DEF EngineTypes, Accounts, Quantities
<1>2. \A i \in DOMAIN pending : pending[i] \in Orders
  BY DEF EngineTypes
<1>3. \A i \in DOMAIN pending :
         pending[i].quantity \in Nat \ {0} /\ pending[i].side \in {"buy", "sell"}
  BY <1>2 DEF Orders
<1> QED
  BY <1>1, <1>3 DEF EngineTypes, TypeOK, Setting, Quantities, Phases

LEMMA NewDayKeeps ==
  ASSUME EngineInv, NewDay
  PROVE  EngineInv'
<1>1. PICK today, due :
        /\ due \in [Symbols -> ActionChoices \cup {NoAction}]
        /\ today \in [Symbols -> UNION {BarChoices[s] : s \in Symbols} \cup {NoBar}]
        /\ \A s \in Symbols : today[s] \in BarChoices[s] \cup {NoBar}
        /\ LegalActions(today, due) /\ bars' = today /\ events' = due
  BY DEF NewDay
<1>2. /\ phase = "night" /\ day < Days /\ day' = day + 1 /\ phase' = "dividends"
      /\ UNCHANGED <<account, latest, highs, pending, stopped, peak, halted, receivables, policy>>
  BY DEF NewDay, engine
<1>3. /\ EngineTypes /\ Setting /\ day \in Nat /\ Days \in Nat /\ TradeStart \in Nat
      /\ MaxActions \in Nat
  BY MarketAssumption DEF EngineInv, EngineTypes, Setting
<1>4. today \in [Symbols -> Bars \cup {NoBar}]
  BY <1>1, MarketAssumption
<1> DEFINE acting == {s \in Symbols : due[s] # NoAction}
<1>5. /\ \A s \in acting : today[s] # NoBar
      /\ actions + Cardinality(acting) <= MaxActions
      /\ actions' = actions + Cardinality(acting)
  BY <1>1 DEF LegalActions
<1>6. IsFiniteSet(acting) /\ Cardinality(acting) \in Nat
  BY AccountAssumption, FS_Subset, FS_CardinalityType DEF ValidConfig
<1>7. Setting'
  BY <1>1, <1>2, <1>3, <1>4 DEF Setting
<1>8. Acting'
  BY <1>1, <1>5 DEF Acting
<1>9. actions' \in 0..MaxActions /\ actions \in Nat
  BY <1>3, <1>5, <1>6 DEF EngineTypes
<1>10. EngineTypes'
  BY <1>2, <1>3, <1>7, <1>8, <1>9 DEF EngineTypes, Phases
<1>11. OwedBefore'
  <2>1. \A item \in receivables : item.ex \in Nat /\ item.ex <= day
    BY <1>3 DEF EngineInv, OwedBefore, Setting, Items
  <2> QED
    BY <1>2, <1>3, <2>1 DEF OwedBefore
<1>12. actions' = 0 => NoActionYet'
  <2> SUFFICES ASSUME actions' = 0
               PROVE  NoActionYet'
    OBVIOUS
  <2>1. actions = 0 /\ Cardinality(acting) = 0
    BY <1>5, <1>6, <1>9
  <2>2. acting = {}
    BY <1>6, <2>1, FS_EmptySet
  <2>3. \A s \in Symbols : due[s] = NoAction
    BY <2>2
  <2> QED
    BY <1>1, <1>2, <2>1, <2>3 DEF EngineInv, NoActionYet
<1> HIDE DEF acting
<1> QED
  BY <1>2, <1>3, <1>10, <1>11, <1>12 DEF EngineInv

\* The dividends of today's holdings, what is owed with them, and the part due.
Earned(s) == [symbol |-> s, ex |-> day, due |-> day + events[s].delay,
              amount |-> account.quantity[s] * events[s].amount]
Earning == EventsOf("dividend") \cap Held(account)
Earnings == [s \in Earning |-> account.quantity[s] * events[s].amount]
Fresh   == {Earned(s) : s \in Earning}
Owed    == receivables \cup Fresh
Payable == {item \in Owed : item.due <= day}

LEMMA DividendsIs ==
  ASSUME Dividends
  PROVE  /\ phase = "dividends" /\ phase' = "splits"
         /\ account' = [account EXCEPT !.cash =
                          @ + MapThenSumSet(LAMBDA item : item.amount, Payable)]
         /\ receivables' = Owed \ Payable
         /\ UNCHANGED <<day, bars, latest, highs, pending, stopped, peak, halted,
                       events, actions, policy>>
BY DEF Dividends, Earned, Earning, Fresh, Owed, Payable

LEMMA AmountsOf ==
  ASSUME NEW B, B \subseteq Items, IsFiniteSet(B), NEW A \in SUBSET B
  PROVE  /\ IsFiniteSet(A) /\ Integral(Amounts(B), B)
         /\ Sum(Amounts(A), A) = Sum(Amounts(B), A)
         /\ Sum(Amounts(A), A) \in Nat
<1>1. IsFiniteSet(A)
  BY FS_Subset
<1>2. \A x \in B : Amounts(B)[x] \in Nat
  BY DEF Amounts, Items
<1>3. \A x \in A : Amounts(A)[x] = Amounts(B)[x]
  BY DEF Amounts
<1> DEFINE f == Amounts(B)
           g == Amounts(A)
<1> HIDE DEF f, g
<1>4. (\A x \in B : f[x] \in Nat) /\ (\A x \in A : g[x] = f[x])
  BY <1>2, <1>3 DEF f, g
<1>5. Integral(f, B) /\ Integral(f, A)
  BY <1>4 DEF Integral
<1>6. Sum(g, A) = Sum(f, A)
  BY <1>1, <1>4, <1>5, SumEqual
<1>7. \A x \in A : g[x] \in Nat
  BY <1>4
<1>8. Sum(g, A) \in Nat
  BY <1>1, <1>7, SumNat
<1> QED
  BY <1>1, <1>5, <1>6, <1>8 DEF f, g

LEMMA FreshIs ==
  ASSUME EngineTypes
  PROVE  /\ Earning \subseteq Symbols /\ IsFiniteSet(Earning)
         /\ \A s \in Earning : Earned(s) \in Items /\ Earned(s).ex = day
         /\ \A s \in Earning : Earnings[s] \in Nat
         /\ \A s, t \in Earning : Earned(s) = Earned(t) => s = t
         /\ \A s \in Earning : Earned(s).amount = Earnings[s]
<1>1. Setting /\ Acting /\ account \in Accounts /\ day \in Nat
  BY DEF EngineTypes, Setting
<1>2. Earning \subseteq Symbols /\ IsFiniteSet(Earning)
  BY <1>1, ActingIs, FS_Subset DEF Earning
<1>3. ASSUME NEW s \in Earning
      PROVE  /\ s \in Symbols /\ events[s].delay \in Nat
             /\ account.quantity[s] * events[s].amount \in Nat
  <2>1. s \in Symbols /\ account.quantity[s] \in Nat
    BY <1>1, <1>2 DEF Accounts, Quantities
  <2>2. events[s].amount \in Nat /\ events[s].delay \in Nat
    BY <1>1, ActingIs DEF Earning
  <2> QED
    BY <2>1, <2>2, Products
<1>4. \A s \in Earning : Earned(s) \in Items /\ Earned(s).ex = day
  BY <1>1, <1>3 DEF Earned, Items
<1>5. \A s \in Earning : Earnings[s] \in Nat
  BY <1>3 DEF Earnings
<1>6. \A s \in Earning : Earned(s).symbol = s /\ Earned(s).amount = Earnings[s]
  BY DEF Earned, Earnings
<1> QED
  BY <1>2, <1>4, <1>5, <1>6

LEMMA OwedIs ==
  ASSUME EngineTypes
  PROVE  /\ Fresh \subseteq Items /\ IsFiniteSet(Fresh)
         /\ Sum(Amounts(Fresh), Fresh) = Sum(Earnings, Earning)
         /\ Owed \subseteq Items /\ IsFiniteSet(Owed)
         /\ Payable \in SUBSET Owed
<1> DEFINE F == [s \in Earning |-> Earned(s)]
<1>1. Fresh = {F[s] : s \in Earning}
  BY DEF Fresh
<1>2. \A x, y \in Earning : F[x] = F[y] => x = y
  BY FreshIs
<1>3. \A x \in Earning : F[x] = Earned(x)
  OBVIOUS
<1> HIDE DEF F
<1>4. Fresh \subseteq Items
  BY FreshIs DEF Fresh
<1>5. IsFiniteSet(Fresh) /\ Sum(Amounts(Fresh), Fresh) = Sum(Earnings, Earning)
  <2> DEFINE f == Earnings
             g == Amounts(Fresh)
  <2>1. \A x \in Earning : g[F[x]] = f[x]
    BY <1>1, <1>3, FreshIs DEF Amounts
  <2>2. Integral(f, Earning) /\ IsFiniteSet(Earning)
    BY FreshIs DEF Integral
  <2> HIDE DEF f, g
  <2>3. IsFiniteSet({F[x] : x \in Earning}) /\ Sum(g, {F[x] : x \in Earning}) = Sum(f, Earning)
    BY <1>2, <2>1, <2>2, SumImage
  <2> QED
    BY <1>1, <2>3 DEF f, g
<1>6. receivables \subseteq Items /\ IsFiniteSet(receivables)
  BY DEF EngineTypes, Setting
<1>7. Owed \subseteq Items /\ IsFiniteSet(Owed)
  BY <1>4, <1>5, <1>6, FS_Union DEF Owed
<1> QED
  BY <1>4, <1>5, <1>7 DEF Payable

LEMMA DividendsKeep ==
  ASSUME EngineInv, Dividends
  PROVE  EngineInv'
<1> DEFINE paid == MapThenSumSet(LAMBDA item : item.amount, Payable)
<1>1. /\ phase = "dividends" /\ phase' = "splits"
      /\ account' = [account EXCEPT !.cash = @ + paid]
      /\ receivables' = Owed \ Payable
      /\ UNCHANGED <<day, bars, latest, highs, pending, stopped, peak, halted, events, actions, policy>>
  BY DividendsIs
<1>2. EngineTypes /\ Setting /\ Acting /\ account \in Accounts /\ day \in Nat
  BY DEF EngineInv, EngineTypes, Setting
<1>3. Owed \subseteq Items /\ IsFiniteSet(Owed) /\ Payable \in SUBSET Owed
  BY <1>2, OwedIs
<1>4. paid \in Nat
  <2>1. paid = Sum(Amounts(Payable), Payable)
    BY AmountsAre
  <2>2. Sum(Amounts(Payable), Payable) \in Nat
    BY <1>3, AmountsOf
  <2> QED
    BY <2>1, <2>2
<1> HIDE DEF paid
<1>5. account' \in Accounts
  BY <1>1, <1>2, <1>4 DEF Accounts
<1>6. Setting'
  <2>1. IsFiniteSet(Owed \ Payable)
    BY <1>3, FS_Subset
  <2> QED
    BY <1>1, <1>2, <1>3, <2>1 DEF Setting
<1>7. Acting'
  BY <1>1, <1>2 DEF Acting
<1>8. EngineTypes'
  BY <1>1, <1>2, <1>5, <1>6, <1>7 DEF EngineTypes, Phases
<1>9. OwedBefore'
  <2>1. ASSUME NEW item \in Owed
        PROVE  item.ex <= day
    <3>1. CASE item \in receivables
      BY <3>1 DEF EngineInv, OwedBefore
    <3>2. CASE item \in Fresh
      <4>1. PICK s \in Earning : item = Earned(s)
        BY <3>2 DEF Fresh
      <4> QED
        BY <1>2, <4>1, FreshIs
    <3> QED
      BY <3>1, <3>2 DEF Owed
  <2> QED
    BY <1>1, <2>1 DEF OwedBefore
<1>10. actions' = 0 => NoActionYet'
  <2> SUFFICES ASSUME actions' = 0
               PROVE  NoActionYet'
    OBVIOUS
  <2>1. NoActionYet
    BY <1>1 DEF EngineInv
  <2>2. Earning = {}
    BY <2>1 DEF NoActionYet, Earning, EventsOf, NoAction
  <2>3. Owed = {}
    BY <2>1, <2>2 DEF NoActionYet, Owed, Fresh
  <2> QED
    BY <1>1, <2>1, <2>3 DEF NoActionYet
<1> QED
  BY <1>1, <1>8, <1>9, <1>10 DEF EngineInv

\* What the splits make of a map of prices.
Scaled(values) == [s \in Symbols |-> IF s \in EventsOf("split") THEN Rescaled(values[s], s)
                                                                ELSE values[s]]

LEMMA SplitsActionIs ==
  ASSUME Splits, Setting, Acting
  PROVE  /\ phase = "splits" /\ UNCHANGED <<day, bars, corporate>>
         /\ \/ /\ phase' = "failed" /\ UNCHANGED engine
               /\ EventsOf("split") # {}
            \/ /\ phase' = "open"
               /\ \A i \in 1..Len(SplitList) : ~Rejected(SplitSteps[i - 1], SplitList[i])
               /\ account' = SplitSteps[Len(SplitList)]
               /\ latest' = Scaled(latest) /\ highs' = Scaled(highs)
               /\ pending' = SplitOrders(pending)
               /\ UNCHANGED <<stopped, peak, halted>>
<1> DEFINE bad == \E i \in DOMAIN SplitList : Rejected(SplitSteps[i - 1], SplitList[i])
<1>1. /\ phase = "splits" /\ UNCHANGED <<day, bars, corporate>>
      /\ IF bad THEN phase' = "failed" /\ UNCHANGED engine
         ELSE /\ account' = SplitSteps[Len(SplitList)]
              /\ latest' = Scaled(latest) /\ highs' = Scaled(highs)
              /\ pending' = SplitOrders(pending)
              /\ phase' = "open"
              /\ UNCHANGED <<stopped, peak, halted>>
  BY DEF Splits, SplitSteps, SplitList, Scaled
<1>2. DOMAIN SplitList = 1..Len(SplitList)
  BY SplitListIs
<1>3. bad => EventsOf("split") # {}
  BY <1>2, SplitListIs
<1> QED
  BY <1>1, <1>2, <1>3

LEMMA ScaledIs ==
  ASSUME Setting, Acting, NEW values \in Quantities
  PROVE  Scaled(values) \in Quantities
<1>1. ASSUME NEW s \in EventsOf("split") PROVE Rescaled(values[s], s) \in Nat
  <2> DEFINE v == values[s]
             new == events[s].new
             old == events[s].old
  <2>1. v \in Nat /\ new \in Nat \ {0} /\ old \in Nat \ {0}
    BY ActingIs DEF Quantities
  <2> HIDE DEF v, new, old
  <2>2. v * old \in Nat
    BY <2>1, Products
  <2>3. (v * old) \div new \in Nat
    BY <2>1, <2>2, Products
  <2> QED
    BY <2>3 DEF Rescaled, v, new, old
<1> QED
  BY <1>1 DEF Scaled, Quantities

LEMMA SplitsKeep ==
  ASSUME EngineInv, Splits
  PROVE  EngineInv'
<1>1. /\ EngineTypes /\ Setting /\ Acting /\ account \in Accounts /\ pending \in Seq(Orders)
      /\ highs \in Quantities /\ latest \in Quantities /\ SellsFirst(pending)
  BY DEF EngineInv, EngineTypes, Setting
<1>2. phase = "splits" /\ UNCHANGED <<day, bars, corporate>>
  BY <1>1, SplitsActionIs
<1>3. /\ phase' \in {"failed", "open"} /\ UNCHANGED <<stopped, peak, halted>>
      /\ account' \in Accounts /\ latest' \in Quantities /\ highs' \in Quantities
      /\ pending' \in Seq(Orders) /\ SellsFirst(pending')
  <2>1. CASE phase' = "failed" /\ UNCHANGED engine
    BY <1>1, <2>1 DEF engine
  <2>2. CASE /\ phase' = "open"
             /\ \A i \in 1..Len(SplitList) : ~Rejected(SplitSteps[i - 1], SplitList[i])
             /\ account' = SplitSteps[Len(SplitList)]
             /\ latest' = Scaled(latest) /\ highs' = Scaled(highs)
             /\ pending' = SplitOrders(pending)
             /\ UNCHANGED <<stopped, peak, halted>>
    <3>1. account' \in Accounts
      BY <1>1, <2>2, SplitsAre DEF SplitOf
    <3>2. latest' \in Quantities /\ highs' \in Quantities
      BY <1>1, <2>2, ScaledIs
    <3>3. pending' \in Seq(Orders) /\ SellsFirst(pending')
      BY <1>1, <2>2, SplitOrdersAre
    <3> QED
      BY <2>2, <3>1, <3>2, <3>3
  <2> QED
    BY <1>1, <2>1, <2>2, SplitsActionIs
<1>4. UNCHANGED <<events, receivables, actions, policy>>
  BY <1>2 DEF corporate
<1>5. Setting' /\ Acting'
  BY <1>1, <1>2, <1>3, <1>4 DEF Setting, Acting
<1>6. EngineTypes'
  BY <1>1, <1>2, <1>3, <1>4, <1>5 DEF EngineTypes, Phases
<1>7. OwedBefore'
  BY <1>2, <1>3, <1>4 DEF EngineInv, OwedBefore
<1>8. actions' = 0 => NoActionYet'
  BY <1>4 DEF EngineInv, NoActionYet
<1>9. halted' => day' >= TradeStart
  BY <1>2, <1>3 DEF EngineInv
<1>10. phase' \notin {"close", "assess"} /\ SellsFirst(pending)'
  BY <1>3 DEF SellsFirst
<1> QED
  BY <1>6, <1>7, <1>8, <1>9, <1>10 DEF EngineInv

\* The account and the highs after the orders at the open.
Opening  == [account |-> account, highs |-> highs]
Executed == FoldLeft(Execute, Opening, pending)

LEMMA ExecuteOrdersIs ==
  ASSUME ExecuteOrders
  PROVE  /\ phase = "open" /\ account' = Executed.account
         /\ highs' = [s \in Symbols |-> IF s \in Held(Executed.account) THEN Executed.highs[s]
                                                                       ELSE 0]
         /\ pending' = <<>>
         /\ latest' = [s \in Symbols |-> IF bars[s] # NoBar THEN bars[s].close ELSE latest[s]]
         /\ phase' = IF day >= TradeStart THEN "close" ELSE "night"
         /\ UNCHANGED <<day, bars, stopped, peak, halted, corporate>>
BY DEF ExecuteOrders, Executed, Opening, Trades

LEMMA ExecutedIs ==
  ASSUME EngineTypes
  PROVE  /\ Opening \in States
         /\ Executed \in States
         /\ \E states : Executes(states, Opening, pending) /\ Executed = states[Len(pending)]
<1>1. Setting /\ pending \in Seq(Orders) /\ Opening \in States
  BY DEF EngineTypes, Opening, States
<1>2. PICK states : Executes(states, Opening, pending)
  BY <1>1, ExecuteChain
<1>3. Executed = states[Len(pending)]
  BY <1>2 DEF Executes, Executed
<1>4. Len(pending) \in 0..Len(pending)
  BY <1>1
<1>5. Executed \in States
  BY <1>2, <1>3, <1>4 DEF Executes
<1> QED
  BY <1>1, <1>2, <1>3, <1>5

LEMMA ExecuteOrdersKeep ==
  ASSUME EngineInv, ExecuteOrders
  PROVE  EngineInv'
<1>1. /\ phase = "open" /\ account' = Executed.account
      /\ highs' = [s \in Symbols |-> IF s \in Held(Executed.account) THEN Executed.highs[s]
                                                                    ELSE 0]
      /\ pending' = <<>>
      /\ latest' = [s \in Symbols |-> IF bars[s] # NoBar THEN bars[s].close ELSE latest[s]]
      /\ phase' = IF day >= TradeStart THEN "close" ELSE "night"
      /\ UNCHANGED <<day, bars, stopped, peak, halted, events, receivables, actions, policy>>
  BY ExecuteOrdersIs DEF corporate
<1>2. EngineTypes /\ Setting /\ Acting /\ day \in Nat /\ TradeStart \in Nat
  BY MarketAssumption DEF EngineInv, EngineTypes, Setting
<1>3. Executed.account \in Accounts /\ Executed.highs \in Quantities
  BY <1>2, ExecutedIs DEF States
<1>4. account' \in Accounts /\ highs' \in Quantities
  BY <1>1, <1>3 DEF Quantities
<1>5. latest' \in Quantities /\ \A s \in Symbols : bars[s] # NoBar => latest'[s] > 0
  <2>1. ASSUME NEW s \in Symbols
        PROVE  latest'[s] \in Nat /\ (bars[s] # NoBar => latest'[s] > 0)
    <3>1. latest[s] \in Nat
      BY <1>2 DEF Setting, Quantities
    <3>2. bars[s] # NoBar => bars[s].close \in Nat \ {0}
      BY <1>2, SettingIs
    <3> QED
      BY <1>1, <3>1, <3>2
  <2> QED
    BY <1>1, <2>1 DEF Quantities
<1>6. Setting' /\ Acting'
  BY <1>1, <1>2, <1>5 DEF Setting, Acting
<1>7. pending' \in Seq(Orders) /\ SellsFirst(pending)'
  BY <1>1 DEF SellsFirst
<1>8. EngineTypes'
  BY <1>1, <1>2, <1>4, <1>6, <1>7 DEF EngineTypes, Phases
<1>9. phase' \in {"close", "assess"} => Closed'
  BY <1>1, <1>2, <1>5 DEF Closed
<1>10. OwedBefore'
  BY <1>1 DEF EngineInv, OwedBefore
<1>11. actions' = 0 => NoActionYet'
  BY <1>1 DEF EngineInv, NoActionYet
<1>12. halted' => day' >= TradeStart
  BY <1>1 DEF EngineInv
<1> QED
  BY <1>7, <1>8, <1>9, <1>10, <1>11, <1>12 DEF EngineInv

LEMMA BarStopsKeep ==
  ASSUME EngineInv, BarStops
  PROVE  EngineInv'
<1>1. /\ phase = "close" /\ phase' = "assess"
      /\ account' = AfterStops /\ stopped' = Hit
      /\ highs' = [s \in Symbols |-> IF s \notin Held(AfterStops) THEN 0
                                    ELSE Greatest(HighOf(s), bars[s].high)]
      /\ UNCHANGED <<day, bars, latest, pending, peak, halted, events, receivables, actions, policy>>
  BY BarStopsIs DEF corporate
<1>2. /\ EngineTypes /\ Setting /\ Acting /\ account \in Accounts /\ highs \in Quantities
      /\ Closed
  BY <1>1 DEF EngineInv, EngineTypes
<1>3. account' \in Accounts /\ stopped' \subseteq Symbols
  BY <1>1, <1>2, AfterStopsIs
<1>4. highs' \in Quantities
  <2>1. ASSUME NEW s \in Symbols
        PROVE  Greatest(HighOf(s), bars[s].high) \in Nat
    <3>1. HighOf(s) \in Nat
      BY <1>2, StopAtIs
    <3>2. bars[s].high \in Nat
      <4>1. CASE bars[s] = NoBar
        BY <4>1 DEF NoBar
      <4>2. CASE bars[s] # NoBar
        BY <1>2, <4>2, SettingIs
      <4> QED
        BY <4>1, <4>2
    <3> QED
      BY <3>1, <3>2 DEF Greatest
  <2> QED
    BY <1>1, <2>1 DEF Quantities
<1>5. Setting' /\ Acting'
  BY <1>1, <1>2 DEF Setting, Acting
<1>6. EngineTypes'
  BY <1>1, <1>2, <1>3, <1>4, <1>5 DEF EngineTypes, Phases
<1>7. Closed' /\ SellsFirst(pending)'
  BY <1>1, <1>2 DEF Closed, EngineInv, SellsFirst
<1>8. OwedBefore' /\ (actions' = 0 => NoActionYet') /\ (halted' => day' >= TradeStart)
  BY <1>1 DEF EngineInv, OwedBefore, NoActionYet
<1> QED
  BY <1>6, <1>7, <1>8 DEF EngineInv

\* What a close decides.
Counting == {s \in Symbols : bars[s] # NoBar /\ s \notin stopped}
Top      == Greatest(peak, Worth(account, latest))
Planned(said) == BuildOrderPlan(account, latest, Worth(account, latest), day,
                                Only(said.sells, Counting), Only(said.buys, Counting))

LEMMA AssessIs ==
  ASSUME Assess
  PROVE  /\ phase = "assess" /\ phase' = "night" /\ stopped' = {} /\ peak' = Top
         /\ halted' = (halted \/ 100 * (Top - Worth(account, latest)) >= MaxDrawdownPct * Top)
         /\ \/ halted' /\ pending' = LiquidationOrders(account)
            \/ ~halted' /\ \E said \in SignalChoices : pending' = Planned(said)
         /\ UNCHANGED <<day, bars, account, latest, highs, corporate>>
BY DEF Assess, Counting, Top, Planned

LEMMA PlannedIs ==
  ASSUME EngineTypes, Closed, NEW said \in SignalChoices
  PROVE  Planned(said) \in Seq(Orders) /\ SellsFirst(Planned(said))
<1> DEFINE sells == Only(said.sells, Counting)
           buys  == Only(said.buys, Counting)
<1>1. /\ Setting /\ account \in Accounts /\ latest \in Quantities /\ day \in Nat
      /\ said.sells \in Seq(Symbols) /\ said.buys \in Seq(Symbols)
  BY MarketAssumption DEF EngineTypes, Setting
<1>2. sells \in Seq(Symbols)
  BY <1>1, OnlyMembers
<1>3. buys \in Seq(Symbols) /\ \A i \in DOMAIN buys : buys[i] \in Counting
  BY <1>1, OnlyMembers
<1> HIDE DEF sells, buys
<1>4. \A s \in Counting : s \in Priced(latest)
  BY DEF Counting, Closed, Priced
<1>5. buys \in Seq(Priced(latest))
  BY <1>3, <1>4
<1>6. Worth(account, latest) \in Nat
  BY <1>1, WorthIs
<1> QED
  BY <1>1, <1>2, <1>5, <1>6, BuildOrderPlanIs DEF Planned, sells, buys

LEMMA AssessKeeps ==
  ASSUME EngineInv, Assess
  PROVE  EngineInv'
<1>1. /\ phase = "assess" /\ phase' = "night" /\ stopped' = {} /\ peak' = Top
      /\ halted' = (halted \/ 100 * (Top - Worth(account, latest)) >= MaxDrawdownPct * Top)
      /\ \/ halted' /\ pending' = LiquidationOrders(account)
         \/ ~halted' /\ \E said \in SignalChoices : pending' = Planned(said)
      /\ UNCHANGED <<day, bars, account, latest, highs, events, receivables, actions, policy>>
  BY AssessIs DEF corporate
<1>2. /\ EngineTypes /\ Setting /\ Acting /\ account \in Accounts /\ latest \in Quantities
      /\ Closed /\ peak \in Nat
  BY <1>1 DEF EngineInv, EngineTypes, Setting
<1>3. pending' \in Seq(Orders) /\ SellsFirst(pending')
  <2>1. CASE pending' = LiquidationOrders(account)
    BY <1>2, <2>1, LiquidationIs DEF SellsFirst
  <2>2. CASE \E said \in SignalChoices : pending' = Planned(said)
    BY <1>2, <2>2, PlannedIs
  <2> QED
    BY <1>1, <2>1, <2>2
<1>4. peak' \in Nat
  BY <1>1, <1>2, WorthIs DEF Top, Greatest
<1>5. halted' \in BOOLEAN
  BY <1>1
<1>6. Setting' /\ Acting'
  BY <1>1, <1>2 DEF Setting, Acting
<1>7. EngineTypes'
  <2>1. stopped' \subseteq Symbols
    BY <1>1
  <2> QED
    BY <1>1, <1>2, <1>3, <1>4, <1>5, <1>6, <2>1 DEF EngineTypes, Phases
<1>8. SellsFirst(pending)' /\ OwedBefore' /\ (actions' = 0 => NoActionYet')
  BY <1>1, <1>3 DEF EngineInv, SellsFirst, OwedBefore, NoActionYet
<1>9. day' >= TradeStart
  BY <1>1, <1>2 DEF Closed
<1> QED
  BY <1>1, <1>7, <1>8, <1>9 DEF EngineInv

LEMMA EngineStep ==
  ASSUME EngineInv, [Next]_vars
  PROVE  EngineInv'
<1>1. CASE NewDay
  BY <1>1, NewDayKeeps
<1>2. CASE Dividends
  BY <1>2, DividendsKeep
<1>3. CASE Splits
  BY <1>3, SplitsKeep
<1>4. CASE ExecuteOrders
  BY <1>4, ExecuteOrdersKeep
<1>5. CASE BarStops
  BY <1>5, BarStopsKeep
<1>6. CASE Assess
  BY <1>6, AssessKeeps
<1>7. CASE UNCHANGED vars
  BY <1>7 DEF vars, engine, corporate, EngineInv, EngineTypes, Setting, Acting, Closed,
              SellsFirst, OwedBefore, NoActionYet
<1> QED
  BY <1>1, <1>2, <1>3, <1>4, <1>5, <1>6, <1>7 DEF Next

LEMMA EngineAlways == Spec => []EngineInv
<1>1. Init => EngineInv
  BY EngineInvInit
<1>2. EngineInv /\ [Next]_vars => EngineInv'
  BY EngineStep
<1> QED
  BY <1>1, <1>2, PTL DEF Spec

\* Every variable of the engine keeps to its type; in particular no trade, stop,
\* dividend or split takes the cash of the account below zero.
THEOREM TypeCorrect == Spec => []TypeOK
<1>1. EngineInv => TypeOK
  BY EngineTypesGive DEF EngineInv
<1> QED
  BY <1>1, EngineAlways, PTL

-----------------------------------------------------------------------------
(* The halt.                                                               *)

OnlySells == \A i \in DOMAIN pending : pending[i].side = "sell"
OnSale(s) == \E i \in DOMAIN pending :
                pending[i].symbol = s /\ pending[i].quantity = account.quantity[s]
AllOnSale == \A s \in Held(account) : OnSale(s)

LEMMA HaltedHoldings ==
  HaltedHoldingsOnSale <=>
    (halted => OnlySells /\ (phase \in {"night", "dividends", "splits", "open"} => AllOnSale))
BY DEF HaltedHoldingsOnSale, OnlySells, OnSale, AllOnSale

\* A split rescales the position and the order that sells it alike.
LEMMA SplitsKeepOnSale ==
  ASSUME EngineTypes, SellsFirst(pending), Splits, OnlySells, AllOnSale
  PROVE  OnlySells' /\ AllOnSale'
<1>1. Setting /\ Acting /\ account \in Accounts /\ pending \in Seq(Orders)
  BY DEF EngineTypes
<1>2. CASE UNCHANGED engine
  BY <1>2 DEF engine, OnlySells, AllOnSale, OnSale, Held
<1>3. CASE /\ \A i \in 1..Len(SplitList) : ~Rejected(SplitSteps[i - 1], SplitList[i])
           /\ account' = SplitSteps[Len(SplitList)]
           /\ pending' = SplitOrders(pending)
  <2>1. SplitOf(account', EventsOf("split"))
    BY <1>1, <1>3, SplitsAre
  <2>2. OnlySells'
    BY <1>1, <1>3, SplitOrdersAre DEF OnlySells
  <2>3. ASSUME NEW s \in Held(account)'
        PROVE  \E j \in DOMAIN pending' :
                  pending'[j].symbol = s /\ pending'[j].quantity = account'.quantity[s]
    <3>1. s \in Symbols /\ account'.quantity[s] > 0
      BY <2>3 DEF Held
    <3>2. account'.quantity[s] = IF s \in EventsOf("split")
                                 THEN Resized(account.quantity[s], s) ELSE account.quantity[s]
      BY <2>1, <3>1 DEF SplitOf
    <3>3. account.quantity[s] \in Nat
      BY <1>1, <3>1 DEF Accounts, Quantities
    <3>4. account.quantity[s] # 0
      <4>1. ASSUME account.quantity[s] = 0, s \in EventsOf("split")
            PROVE  Resized(account.quantity[s], s) = 0
        <5> DEFINE new == events[s].new
                   old == events[s].old
        <5>1. new \in Nat \ {0} /\ old \in Nat \ {0}
          BY <1>1, <4>1, ActingIs
        <5> HIDE DEF new, old
        <5>2. (0 * new) \div old = 0
          BY <5>1
        <5> QED
          BY <4>1, <5>2 DEF Resized, new, old
      <4> QED
        BY <3>1, <3>2, <4>1
    <3>5. s \in Held(account)
      BY <3>1, <3>3, <3>4 DEF Held
    <3>6. PICK i \in DOMAIN pending :
             pending[i].symbol = s /\ pending[i].quantity = account.quantity[s]
      BY <3>5 DEF AllOnSale, OnSale
    <3>7. SplitQuantity(pending[i]) = account'.quantity[s]
      BY <3>2, <3>6 DEF SplitQuantity
    <3> QED
      BY <1>1, <1>3, <3>1, <3>6, <3>7, SplitOrdersAre
  <2> QED
    BY <2>2, <2>3 DEF AllOnSale, OnSale
<1> QED
  BY <1>1, <1>2, <1>3, SplitsActionIs

LEMMA HaltedStep ==
  ASSUME EngineInv, HaltedHoldingsOnSale, [Next]_vars
  PROVE  HaltedHoldingsOnSale'
<1> DEFINE before == phase \in {"night", "dividends", "splits", "open"}
<1>0. HaltedHoldingsOnSale' <=> (halted' => OnlySells' /\ (before' => AllOnSale'))
  BY DEF HaltedHoldingsOnSale, OnlySells, OnSale, AllOnSale
<1>1. EngineTypes /\ Setting /\ account \in Accounts /\ (halted => day >= TradeStart)
  BY DEF EngineInv, EngineTypes
<1>2. CASE NewDay
  <2>1. phase = "night" /\ UNCHANGED <<account, pending, halted>>
    BY <1>2 DEF NewDay, engine
  <2> QED
    BY <1>0, <2>1, HaltedHoldings DEF OnlySells, OnSale, AllOnSale, Held
<1>3. CASE Dividends
  <2>1. /\ phase = "dividends" /\ UNCHANGED <<pending, halted>>
        /\ account'.quantity = account.quantity
    BY <1>1, <1>3, DividendsIs DEF Accounts
  <2> QED
    BY <1>0, <2>1, HaltedHoldings DEF OnlySells, OnSale, AllOnSale, Held
<1>4. CASE Splits
  <2>1. phase = "splits" /\ UNCHANGED halted
    BY <1>1, <1>4, SplitsActionIs DEF EngineTypes, engine
  <2> QED
    BY <1>0, <1>1, <1>4, <2>1, HaltedHoldings, SplitsKeepOnSale DEF EngineInv
<1>5. CASE ExecuteOrders
  <2>1. /\ UNCHANGED halted /\ pending' = <<>>
        /\ phase' = IF day >= TradeStart THEN "close" ELSE "night"
    BY <1>5, ExecuteOrdersIs
  <2> QED
    BY <1>0, <1>1, <2>1 DEF OnlySells
<1>6. CASE BarStops
  <2>1. phase = "close" /\ phase' = "assess" /\ UNCHANGED <<pending, halted>>
    BY <1>6, BarStopsIs
  <2> QED
    BY <1>0, <2>1, HaltedHoldings DEF OnlySells
<1>7. CASE Assess
  <2> SUFFICES ASSUME halted'
               PROVE  OnlySells' /\ AllOnSale'
    BY <1>0
  <2>1. pending' = LiquidationOrders(account) /\ UNCHANGED account
    BY <1>7, AssessIs
  <2> QED
    BY <1>1, <2>1, LiquidationIs DEF OnlySells, AllOnSale, OnSale, Held
<1>8. CASE UNCHANGED vars
  BY <1>8 DEF vars, engine, HaltedHoldingsOnSale, Held
<1> QED
  BY <1>2, <1>3, <1>4, <1>5, <1>6, <1>7, <1>8 DEF Next

\* Whatever the prices, the signals and the corporate actions: once the drawdown
\* stop has latched, every share held overnight is on sale at the next open, in
\* the quantity then held, and nothing is bought any more.
THEOREM HaltedHoldingsStayOnSale == Spec => []HaltedHoldingsOnSale
<1>1. Init => HaltedHoldingsOnSale
  BY EngineInvInit
<1>2. EngineInv /\ HaltedHoldingsOnSale /\ [Next]_vars => HaltedHoldingsOnSale'
  BY HaltedStep
<1> QED
  BY <1>1, <1>2, EngineAlways, PTL DEF Spec

-----------------------------------------------------------------------------
(* The limits of a purchase at the open                                    *)

KeepsLimits(acc, s) ==
  /\ 100 * acc.cash >= TargetCashPct * Worth(acc, OpeningMarks)
  /\ 100 * acc.quantity[s] * bars[s].open <= PositionPct * Worth(account, OpeningMarks)

\* Nothing is bought yet, and what was bought is within the limits.
NoneRose(acc) == \A s \in Symbols : acc.quantity[s] <= account.quantity[s]
Prudent(acc) ==
  /\ Worth(acc, OpeningMarks) <= Worth(account, OpeningMarks)
  /\ \A s \in Symbols : acc.quantity[s] > account.quantity[s] => KeepsLimits(acc, s)

\* Sells come first: a purchase leaves within its limits what was bought before it.
LEMMA FillKeepsLimits ==
  ASSUME Setting, account \in Accounts, NEW before \in States, NEW after, NEW order \in Orders,
         Fills(before, after, order), Prudent(before.account),
         order.side = "sell" => NoneRose(before.account)
  PROVE  /\ Prudent(after.account)
         /\ order.side = "sell" => NoneRose(after.account)
<1> DEFINE old == before.account
           new == after.account
           s == order.symbol
           w(acc) == Worth(acc, OpeningMarks)
<1>1. /\ s \in Symbols /\ order.side \in {"buy", "sell"} /\ old \in Accounts /\ new \in Accounts
      /\ OpeningMarks \in Quantities
  BY SettingIs DEF Fills, States, Orders
<1>2. w(old) \in Nat /\ w(new) \in Nat /\ w(account) \in Nat
  BY <1>1, WorthIs
<1>3. w(new) <= w(old) /\ w(old) <= w(account)
  BY DEF Fills, Prudent
<1>4. \A t \in Symbols : /\ old.quantity[t] \in Nat /\ new.quantity[t] \in Nat
                         /\ account.quantity[t] \in Nat
  BY <1>1 DEF Accounts, Quantities
<1>5. /\ \A t \in Symbols : t # s => new.quantity[t] = old.quantity[t]
      /\ order.side = "sell" => new.quantity[s] <= old.quantity[s]
      /\ order.side = "buy" => new = old \/ WithinLimits(old, new, s)
  BY DEF Fills
<1>6. CASE order.side = "sell"
  <2>1. NoneRose(old)
    BY <1>6
  <2>2. NoneRose(new)
    BY <1>1, <1>4, <1>5, <1>6, <2>1 DEF NoneRose
  <2>3. Prudent(new)
    <3> HIDE DEF new, old
    <3>1. \A t \in Symbols : ~ (new.quantity[t] > account.quantity[t])
      BY <1>4, <2>2 DEF NoneRose
    <3> QED
      BY <1>2, <1>3, <3>1 DEF Prudent
  <2> QED
    BY <2>2, <2>3
<1>7. CASE order.side = "buy" /\ new = old
  BY <1>7
<1>8. CASE order.side = "buy" /\ WithinLimits(old, new, s)
  <2>1. TargetCashPct \in Nat /\ PositionPct \in Nat
    BY AccountAssumption DEF ValidConfig
  <2> DEFINE cash == new.cash
             wn == w(new)
             wo == w(old)
             wa == w(account)
  <2>2. /\ cash \in Nat /\ wn \in Nat /\ wo \in Nat /\ wa \in Nat /\ wn <= wo /\ wo <= wa
        /\ 100 * cash >= TargetCashPct * wo
    BY <1>1, <1>2, <1>3, <1>8 DEF WithinLimits, Accounts
  <2>3. 100 * cash >= TargetCashPct * wn
    <3> HIDE DEF cash, wn, wo, wa
    <3>1. TargetCashPct * wn <= TargetCashPct * wo /\ TargetCashPct * wn \in Nat
          /\ TargetCashPct * wo \in Nat
      BY <2>1, <2>2, Products
    <3> QED
      BY <2>2, <3>1
  <2>4. ASSUME NEW t \in Symbols, new.quantity[t] > account.quantity[t]
        PROVE  100 * new.quantity[t] * bars[t].open <= PositionPct * wa
    <3>1. CASE t = s
      <4> DEFINE held == 100 * new.quantity[s] * bars[s].open
      <4>1. held <= PositionPct * wo
        BY <1>8 DEF WithinLimits
      <4>2. PositionPct * wo <= PositionPct * wa
        <5> HIDE DEF wo, wa
        <5> QED
          BY <2>1, <2>2, Products
      <4>3. \E n \in Int : held = n
        <5>1. CASE bars[s] = NoBar
          BY <1>1, <1>4, <5>1 DEF NoBar
        <5>2. CASE bars[s] # NoBar
          <6>1. bars[s].open \in Nat /\ new.quantity[s] \in Nat
            BY <1>1, <1>4, <5>2, SettingIs
          <6> QED
            BY <6>1
        <5> QED
          BY <5>1, <5>2
      <4>4. PositionPct * wo \in Nat /\ PositionPct * wa \in Nat
        <5> HIDE DEF wo, wa
        <5> QED
          BY <2>1, <2>2, Products
      <4> HIDE DEF held, wo, wa
      <4>5. held <= PositionPct * wa
        BY <4>1, <4>2, <4>3, <4>4
      <4> QED
        BY <3>1, <4>5 DEF held
    <3>2. CASE t # s
      <4>1. old.quantity[t] = new.quantity[t]
        BY <1>5, <3>2
      <4>2. old.quantity[t] > account.quantity[t]
        BY <2>4, <4>1
      <4>3. 100 * old.quantity[t] * bars[t].open <= PositionPct * wa
        BY <4>2 DEF Prudent, KeepsLimits
      <4> QED
        BY <4>1, <4>3
    <3> QED
      BY <3>1, <3>2
  <2>5. w(new) <= w(account)
    BY <1>2, <1>3
  <2> QED
    BY <1>8, <2>3, <2>4, <2>5 DEF Prudent, KeepsLimits
<1> HIDE DEF new, old
<1> QED
  BY <1>1, <1>5, <1>6, <1>7, <1>8 DEF new, old

LEMMA OpeningKeepsLimits ==
  ASSUME EngineTypes, SellsFirst(pending)
  PROVE  Prudent(Executed.account)
<1> DEFINE n == Len(pending)
           sold(i) == \A j \in 1..i : pending[j].side = "sell"
<1>1. Setting /\ account \in Accounts /\ pending \in Seq(Orders)
  BY DEF EngineTypes
<1>2. n \in Nat /\ DOMAIN pending = 1..n /\ \A i \in 1..n : pending[i] \in Orders
  BY <1>1
<1>3. PICK states : Executes(states, Opening, pending) /\ Executed = states[n]
  BY ExecutedIs
<1> DEFINE S == {i \in 0..n : /\ Prudent(states[i].account)
                              /\ sold(i) => NoneRose(states[i].account)}
<1>4. 0 \in S
  <2>1. states[0].account = account
    BY <1>3 DEF Executes, Opening
  <2>2. Worth(account, OpeningMarks) \in Nat
    BY <1>1, SettingIs, WorthIs
  <2>3. \A s \in Symbols : account.quantity[s] \in Nat
    BY <1>1 DEF Accounts, Quantities
  <2>4. Prudent(account) /\ NoneRose(account)
    BY <2>2, <2>3 DEF Prudent, NoneRose
  <2> QED
    BY <1>2, <2>1, <2>4
<1>5. ASSUME NEW i \in 1..n, i - 1 \in S
      PROVE  i \in S
  <2> DEFINE before == states[i - 1]
             after  == states[i]
             order  == pending[i]
  <2>1. i - 1 \in 0..n /\ i \in 0..n
    BY <1>2
  <2>2. before \in States /\ after = Execute(before, order) /\ order \in Orders
    BY <1>2, <1>3, <2>1 DEF Executes
  <2>3. Fills(before, after, order)
    BY <1>1, <2>2, ExecuteFills
  <2>4. Prudent(before.account) /\ (sold(i - 1) => NoneRose(before.account))
    BY <1>5
  <2>5. order.side = "sell" => sold(i - 1)
    <3> SUFFICES ASSUME order.side = "sell", NEW j \in 1..(i - 1)
                 PROVE  pending[j].side = "sell"
      OBVIOUS
    <3>1. j \in 1..n /\ j < i
      BY <1>2
    <3> QED
      BY <1>2, <3>1 DEF SellsFirst
  <2>6. sold(i) => order.side = "sell"
    BY <1>2
  <2> HIDE DEF before, after, order, sold
  <2>7. Prudent(after.account) /\ (order.side = "sell" => NoneRose(after.account))
    BY <1>1, <2>2, <2>3, <2>4, <2>5, FillKeepsLimits
  <2> QED
    BY <2>1, <2>6, <2>7 DEF after
<1> HIDE DEF S
<1>6. 0..n \subseteq S
  BY <1>2, <1>4, <1>5, InductionUpTo
<1>7. n \in S
  BY <1>2, <1>6
<1> QED
  BY <1>3, <1>7 DEF S

LEMMA OpeningStep ==
  ASSUME EngineInv, [Next]_vars, NEW s \in Symbols,
         phase = "open", account'.quantity[s] > account.quantity[s]
  PROVE  /\ 100 * account'.cash >= TargetCashPct * Worth(account', OpeningMarks)
         /\ PositionWithinShare(s)
<1>1. account.quantity[s] \in Nat
  BY DEF EngineInv, EngineTypes, Accounts, Quantities
<1>2. CASE ExecuteOrders
  <2>1. account' = Executed.account
    BY <1>2, ExecuteOrdersIs
  <2>2. Prudent(Executed.account)
    BY OpeningKeepsLimits DEF EngineInv
  <2>3. KeepsLimits(account', s)
    BY <2>1, <2>2 DEF Prudent
  <2> QED
    BY <2>3 DEF KeepsLimits, PositionWithinShare
<1>3. CASE ~ExecuteOrders
  <2>1. account' = account
    BY <1>3 DEF Next, NewDay, Dividends, Splits, BarStops, Assess, vars, engine
  <2> QED
    BY <1>1, <2>1
<1> QED
  BY <1>2, <1>3

\* Whatever the gap between the close an order was sized at and the open it is
\* filled at, and however many orders are filled there: the purchases of an open
\* leave the cash reserve and every enlarged position within its share of equity.
THEOREM OpeningBuysStayWithinLimits == Spec => OpeningBuysKeepLimits
<1>1. EngineInv /\ [Next]_vars =>
        [\A s \in Symbols :
           phase = "open" /\ account'.quantity[s] > account.quantity[s] =>
              /\ 100 * account'.cash >= TargetCashPct * Worth(account', OpeningMarks)
              /\ PositionWithinShare(s)]_vars
  BY OpeningStep
<1> QED
  BY <1>1, EngineAlways, PTL DEF Spec, OpeningBuysKeepLimits

-----------------------------------------------------------------------------
(* Corporate actions are neutral                                           *)

Payouts == [s \in EventsOf("dividend") |-> account.quantity[s] * events[s].amount]

LEMMA EntitlementsAre ==
  ASSUME EngineTypes, phase = "dividends"
  PROVE  Entitlements = Sum(Earnings, Earning) /\ Sum(Earnings, Earning) \in Nat
<1> DEFINE E == EventsOf("dividend")
           f == Payouts
           F(it) == [s \in SUBSET E |->
                       IF s = {} THEN 0
                       ELSE account.quantity[Pick(s)] * events[Pick(s)].amount + it[s \ {Pick(s)}]]
           G(it) == [s \in SUBSET E |-> IF s = {} THEN 0 ELSE f[Pick(s)] + it[s \ {Pick(s)}]]
<1>1. \A it : F(it) = G(it)
  <2> SUFFICES ASSUME NEW it, NEW s \in SUBSET E PROVE F(it)[s] = G(it)[s]
    OBVIOUS
  <2>1. s # {} => Pick(s) \in E
    BY DEF Pick
  <2> QED
    BY <2>1 DEF Payouts
<1>2. Entitlements = (CHOOSE it : it = F(it))[E]
  BY DEF Entitlements, MapThenSumSet, MapThenFoldSet, Pick
<1>3. Sum(f, E) = (CHOOSE it : it = G(it))[E]
  BY DEF Sum, MapThenSumSet, MapThenFoldSet, Pick
<1>4. (CHOOSE it : it = F(it)) = (CHOOSE it : it = G(it))
  <2> HIDE DEF F, G
  <2> QED
    BY <1>1
<1>5. Setting /\ Acting /\ account \in Accounts
  BY DEF EngineTypes
<1>6. IsFiniteSet(E) /\ Earning \in SUBSET E /\ IsFiniteSet(Earning)
  BY <1>5, ActingIs, FreshIs DEF Earning
<1>7. \A s \in E : f[s] \in Int
  <2> SUFFICES ASSUME NEW s \in E PROVE f[s] \in Int
    OBVIOUS
  <2>1. account.quantity[s] \in Nat /\ events[s].amount \in Nat
    BY <1>5, ActingIs DEF Accounts, Quantities
  <2> QED
    BY <2>1, Products DEF Payouts
<1>8. \A s \in E \ Earning : f[s] = 0
  <2> SUFFICES ASSUME NEW s \in E \ Earning PROVE f[s] = 0
    OBVIOUS
  <2>1. s \in Symbols /\ events[s].amount \in Nat
    BY <1>5, ActingIs
  <2>2. account.quantity[s] = 0
    BY <1>5, <2>1 DEF Earning, Held, Accounts, Quantities
  <2> QED
    BY <2>1, <2>2 DEF Payouts
<1>9. \A s \in Earning : Earnings[s] = f[s]
  BY DEF Earning, Earnings, Payouts
<1> HIDE DEF E, f, F, G
<1>10. Integral(f, E)
  BY <1>7 DEF Integral
<1>11. Integral(f, Earning)
  BY <1>6, <1>7 DEF Integral
<1>12. Sum(f, E) = Sum(f, Earning)
  BY <1>6, <1>8, <1>10, SumSupport
<1>13. Sum(Earnings, Earning) = Sum(f, Earning)
  <2> DEFINE g == Earnings
  <2>1. \A s \in Earning : g[s] = f[s]
    BY <1>9
  <2> HIDE DEF g
  <2>2. Sum(g, Earning) = Sum(f, Earning)
    BY <1>6, <1>11, <2>1, SumEqual
  <2> QED
    BY <2>2 DEF g
<1>14. Sum(Earnings, Earning) \in Nat
  <2> DEFINE g == Earnings
  <2>1. \A s \in Earning : g[s] \in Nat
    BY FreshIs
  <2> HIDE DEF g
  <2>2. Sum(g, Earning) \in Nat
    BY <1>6, <2>1, SumNat
  <2> QED
    BY <2>2 DEF g
<1> QED
  BY <1>2, <1>3, <1>4, <1>12, <1>13, <1>14

\* What is owed with today's dividends is paid or stays owed.
LEMMA OwedOrPaid ==
  ASSUME EngineTypes, phase = "dividends", OwedBefore
  PROVE  LET paid == Sum(Amounts(Payable), Payable)
             rest == Sum(Amounts(Owed \ Payable), Owed \ Payable)
         IN  /\ paid \in Nat /\ rest \in Nat /\ Accrued \in Nat
             /\ paid + rest = Accrued + Sum(Earnings, Earning)
<1> DEFINE f == Amounts(Owed)
           rest == Owed \ Payable
<1>1. /\ Owed \subseteq Items /\ IsFiniteSet(Owed) /\ Payable \in SUBSET Owed
      /\ rest \in SUBSET Owed /\ receivables \in SUBSET Owed /\ Fresh \in SUBSET Owed
      /\ Sum(Amounts(Fresh), Fresh) = Sum(Earnings, Earning)
  BY OwedIs DEF Owed
<1>2. \A A \in SUBSET Owed :
         /\ IsFiniteSet(A) /\ Sum(Amounts(A), A) = Sum(f, A) /\ Sum(Amounts(A), A) \in Nat
  BY <1>1, AmountsOf
<1>3. Integral(f, Owed)
  BY <1>1, AmountsOf
<1>4. receivables \cap Fresh = {}
  <2>1. \A item \in receivables : item.ex < day /\ item.ex \in Nat /\ day \in Nat
    BY DEF OwedBefore, EngineTypes, Setting, Items
  <2>2. \A item \in Fresh : item.ex = day
    BY FreshIs DEF Fresh
  <2> QED
    BY <2>1, <2>2
<1>5. Owed = Payable \cup rest /\ Payable \cap rest = {} /\ Owed = receivables \cup Fresh
  BY <1>1 DEF Owed
<1>6. Accrued = Sum(Amounts(receivables), receivables)
  BY AmountsAre DEF Accrued
<1> HIDE DEF f, rest
<1>7. Sum(f, Payable \cup rest) = Sum(f, Payable) + Sum(f, rest)
  BY <1>1, <1>2, <1>3, <1>5, SumUnion
<1>8. Sum(f, receivables \cup Fresh) = Sum(f, receivables) + Sum(f, Fresh)
  BY <1>1, <1>2, <1>3, <1>4, <1>5, SumUnion
<1>9. /\ Sum(Amounts(Payable), Payable) = Sum(f, Payable) /\ Sum(Amounts(rest), rest) = Sum(f, rest)
      /\ Accrued = Sum(f, receivables) /\ Sum(Earnings, Earning) = Sum(f, Fresh)
      /\ Sum(Amounts(Payable), Payable) \in Nat /\ Sum(Amounts(rest), rest) \in Nat
      /\ Accrued \in Nat
  BY <1>1, <1>2, <1>6
<1>10. Sum(f, Payable) + Sum(f, rest) = Sum(f, receivables) + Sum(f, Fresh)
  BY <1>5, <1>7, <1>8
<1> QED
  BY <1>9, <1>10 DEF rest

\* An account worth the same at other marks.
LEMMA EquityMoves ==
  ASSUME NEW acc \in Accounts, NEW next \in Accounts,
         NEW marks \in Quantities, NEW prices \in Quantities,
         \A s \in Symbols : next.quantity[s] * prices[s] = acc.quantity[s] * marks[s]
  PROVE  /\ Equity(next, prices) = Equity(acc, marks) - acc.cash + next.cash
         /\ Equity(next, prices) \in Nat /\ Equity(acc, marks) \in Nat
         /\ acc.cash \in Nat /\ next.cash \in Nat
<1> DEFINE f == Value(acc, marks)
           g == Value(next, prices)
<1>1. /\ Equity(acc, marks) = acc.cash + Sum(f, Symbols) /\ Sum(f, Symbols) \in Nat
      /\ Equity(next, prices) = next.cash + Sum(g, Symbols) /\ Sum(g, Symbols) \in Nat
      /\ Equity(acc, marks) \in Nat /\ Equity(next, prices) \in Nat
      /\ Integral(f, Symbols)
  BY EquityIs
<1>2. \A s \in Symbols : g[s] = f[s]
  BY DEF Value
<1>3. acc.cash \in Nat /\ next.cash \in Nat /\ IsFiniteSet(Symbols)
  BY AccountAssumption DEF Accounts, ValidConfig
<1> HIDE DEF f, g
<1>4. Sum(g, Symbols) = Sum(f, Symbols)
  BY <1>1, <1>2, <1>3, SumEqual
<1> QED
  BY <1>1, <1>3, <1>4

LEMMA DividendsNeutral ==
  ASSUME EngineInv, Dividends
  PROVE  /\ Worth(account, latest)' = Worth(account, latest) + Entitlements
         /\ account'.quantity = account.quantity /\ account'.cost = account.cost
         /\ latest' = latest /\ highs' = highs
<1> DEFINE paid == Sum(Amounts(Payable), Payable)
           rest == Sum(Amounts(Owed \ Payable), Owed \ Payable)
<1>1. /\ EngineTypes /\ Setting /\ account \in Accounts /\ latest \in Quantities /\ OwedBefore
      /\ account' \in Accounts
  BY DividendsKeep DEF EngineInv, EngineTypes, Setting
<1>2. /\ phase = "dividends" /\ account' = [account EXCEPT !.cash = @ + paid]
      /\ receivables' = Owed \ Payable /\ latest' = latest /\ highs' = highs
  BY DividendsIs, AmountsAre
<1>3. /\ paid \in Nat /\ rest \in Nat /\ Accrued \in Nat
      /\ paid + rest = Accrued + Sum(Earnings, Earning)
  BY <1>1, <1>2, OwedOrPaid
<1>4. Accrued' = rest
  <2>1. Accrued' = MapThenSumSet(LAMBDA item : item.amount, receivables')
    BY DEF Accrued, MapThenSumSet, MapThenFoldSet
  <2> QED
    BY <1>2, <2>1, AmountsAre
<1> HIDE DEF paid, rest
<1>5. /\ account'.quantity = account.quantity /\ account'.cost = account.cost
      /\ account'.cash = account.cash + paid
  BY <1>1, <1>2 DEF Accounts
<1>6. /\ Equity(account', latest) = Equity(account, latest) - account.cash + account'.cash
      /\ Equity(account', latest) \in Nat /\ Equity(account, latest) \in Nat
      /\ account.cash \in Nat /\ account'.cash \in Nat
  BY <1>1, <1>5, EquityMoves
<1>7. Worth(account, latest)' = Equity(account', latest) + rest
  BY <1>2, <1>4 DEF Worth
<1>8. Worth(account, latest) = Equity(account, latest) + Accrued
  BY DEF Worth
<1>9. Entitlements = Sum(Earnings, Earning) /\ Sum(Earnings, Earning) \in Nat
  BY <1>1, <1>2, EntitlementsAre
<1>10. Worth(account, latest)' = Worth(account, latest) + Entitlements
  BY <1>3, <1>5, <1>6, <1>7, <1>8, <1>9
<1> QED
  BY <1>2, <1>5, <1>10

LEMMA KeptValue ==
  ASSUME NEW q \in Nat, NEW v \in Nat
  PROVE  q * v - q * v \in 0..q
<1>1. q * v \in Nat
  BY Products
<1> QED
  BY <1>1

\* A split symbol: shares and prices rescaled.
LEMMA SplitValue ==
  ASSUME EngineTypes, NoFraction, NEW s \in EventsOf("split"), NEW values \in Quantities
  PROVE  LET q == account.quantity[s]
             whole == Resized(q, s)
         IN  /\ whole \in Nat /\ (whole = 0 => q = 0)
             /\ q * values[s] - whole * Rescaled(values[s], s) \in 0..whole
             /\ (values[s] * events[s].old) % events[s].new = 0 =>
                  whole * Rescaled(values[s], s) = q * values[s]
<1> DEFINE q == account.quantity[s]
           v == values[s]
           new == events[s].new
           old == events[s].old
<1>1. /\ q \in Nat /\ v \in Nat /\ new \in Nat \ {0} /\ old \in Nat \ {0}
      /\ (q * new) % old = 0
  BY ActingIs DEF EngineTypes, Accounts, Quantities, NoFraction, Remainder
<1> HIDE DEF q, v, new, old
<1>2. LET q2 == (q * new) \div old
          v2 == (v * old) \div new
      IN  /\ q2 \in Nat /\ v2 \in Nat
          /\ q * v - q2 * v2 \in 0..q2
          /\ (v * old) % new = 0 => q * v = q2 * v2
          /\ q2 = 0 => q = 0
  <2> DEFINE P(a, b, c, d) ==
        LET q2 == (a * c) \div d
            v2 == (b * d) \div c
        IN  /\ q2 \in Nat /\ v2 \in Nat
            /\ a * b - q2 * v2 \in 0..q2
            /\ (b * d) % c = 0 => a * b = q2 * v2
            /\ q2 = 0 => a = 0
  <2>1. \A a \in Nat, b \in Nat, c \in Nat \ {0}, d \in Nat \ {0} :
           (a * c) % d = 0 => P(a, b, c, d)
    BY RescaleValue
  <2> HIDE DEF P
  <2>2. P(q, v, new, old)
    BY <1>1, <2>1
  <2> QED
    BY <2>2 DEF P
<1> QED
  BY <1>2 DEF Resized, Rescaled, q, v, new, old

LEMMA SplitsNeutral ==
  ASSUME EngineInv, Splits, phase' # "failed", NoFraction
  PROVE  /\ WholeTicks => Worth(account, latest)' = Worth(account, latest) + Entitlements
         /\ \A s \in Symbols : /\ SameValue(s, latest, latest')
                              /\ SameValue(s, account.cost, account'.cost)
                              /\ SameValue(s, highs, highs')
<1>1. /\ EngineTypes /\ Setting /\ Acting /\ account \in Accounts /\ latest \in Quantities
      /\ highs \in Quantities /\ latest' \in Quantities /\ account' \in Accounts
  BY SplitsKeep DEF EngineInv, EngineTypes, Setting
<1>2. /\ phase = "splits" /\ UNCHANGED receivables
      /\ \A i \in 1..Len(SplitList) : ~Rejected(SplitSteps[i - 1], SplitList[i])
      /\ account' = SplitSteps[Len(SplitList)]
      /\ latest' = Scaled(latest) /\ highs' = Scaled(highs)
  BY <1>1, SplitsActionIs DEF corporate
<1>3. SplitOf(account', EventsOf("split"))
  BY <1>1, <1>2, SplitsAre
<1>4. /\ account'.cash = account.cash
      /\ \A s \in Symbols :
           /\ account'.quantity[s] = IF s \in EventsOf("split") THEN Resized(account.quantity[s], s)
                                     ELSE account.quantity[s]
           /\ account'.cost[s] = IF s \in EventsOf("split") THEN SplitCost(s) ELSE account.cost[s]
           /\ account.quantity[s] \in Nat /\ account.cost[s] \in Nat
  BY <1>1, <1>3 DEF SplitOf, Accounts, Quantities
<1>5. ASSUME NEW values \in Quantities, NEW s \in Symbols
      PROVE  SameValue(s, values, Scaled(values))
  <2>1. CASE s \in EventsOf("split")
    <3>1. Scaled(values)[s] = Rescaled(values[s], s)
      BY <2>1 DEF Scaled
    <3>2. account'.quantity[s] = Resized(account.quantity[s], s)
      BY <1>4, <2>1
    <3>3. account.quantity[s] * values[s] - Resized(account.quantity[s], s) * Rescaled(values[s], s)
            \in 0..Resized(account.quantity[s], s)
      BY <1>1, <2>1, SplitValue
    <3> QED
      BY <3>1, <3>2, <3>3 DEF SameValue
  <2>2. CASE s \notin EventsOf("split")
    <3>1. Scaled(values)[s] = values[s] /\ values[s] \in Nat
      BY <2>2 DEF Scaled, Quantities
    <3>2. account'.quantity[s] = account.quantity[s] /\ account.quantity[s] \in Nat
      BY <1>4, <2>2
    <3> QED
      BY <3>1, <3>2, KeptValue DEF SameValue
  <2> QED
    BY <2>1, <2>2
<1>6. ASSUME NEW s \in Symbols
      PROVE  SameValue(s, account.cost, account'.cost)
  <2>1. CASE s \in EventsOf("split") /\ account.quantity[s] # 0
    <3>1. /\ Resized(account.quantity[s], s) # 0
          /\ account.quantity[s] * account.cost[s]
               - Resized(account.quantity[s], s) * Rescaled(account.cost[s], s)
                 \in 0..Resized(account.quantity[s], s)
      BY <1>1, <2>1, SplitValue DEF Accounts
    <3>2. account'.quantity[s] = Resized(account.quantity[s], s)
      BY <1>4, <2>1
    <3>3. account'.cost[s] = Rescaled(account.cost[s], s)
      BY <1>4, <2>1, <3>1 DEF SplitCost
    <3> QED
      BY <3>1, <3>2, <3>3 DEF SameValue
  <2>2. CASE s \in EventsOf("split") /\ account.quantity[s] = 0
    <3>1. account'.cost[s] = account.cost[s] /\ account.cost[s] \in Nat
      BY <1>4, <2>2 DEF SplitCost
    <3>2. account'.quantity[s] = 0
      <4> DEFINE new == events[s].new
                 old == events[s].old
      <4>1. new \in Nat \ {0} /\ old \in Nat \ {0}
        BY <1>1, <2>2, ActingIs
      <4> HIDE DEF new, old
      <4>2. (0 * new) \div old = 0
        BY <4>1
      <4>3. account'.quantity[s] = (account.quantity[s] * new) \div old
        BY <1>4, <2>2 DEF Resized, new, old
      <4> QED
        BY <2>2, <4>2, <4>3
    <3> QED
      BY <2>2, <3>1, <3>2, KeptValue DEF SameValue
  <2>3. CASE s \notin EventsOf("split")
    <3>1. /\ account'.cost[s] = account.cost[s] /\ account.cost[s] \in Nat
          /\ account'.quantity[s] = account.quantity[s] /\ account.quantity[s] \in Nat
      BY <1>4, <2>3
    <3> QED
      BY <3>1, KeptValue DEF SameValue
  <2> QED
    BY <2>1, <2>2, <2>3
<1>7. ASSUME WholeTicks
      PROVE  Worth(account, latest)' = Worth(account, latest) + Entitlements
  <2>1. ASSUME NEW s \in Symbols
        PROVE  account'.quantity[s] * latest'[s] = account.quantity[s] * latest[s]
    <3>1. CASE s \in EventsOf("split")
      <4>1. latest'[s] = Rescaled(latest[s], s)
        BY <1>2, <3>1 DEF Scaled
      <4>2. account'.quantity[s] = Resized(account.quantity[s], s)
        BY <1>4, <3>1
      <4>3. (latest[s] * events[s].old) % events[s].new = 0
        BY <1>7, <3>1 DEF WholeTicks
      <4>4. Resized(account.quantity[s], s) * Rescaled(latest[s], s)
              = account.quantity[s] * latest[s]
        BY <1>1, <3>1, <4>3, SplitValue
      <4> QED
        BY <4>1, <4>2, <4>4
    <3>2. CASE s \notin EventsOf("split")
      BY <1>2, <1>4, <3>2 DEF Scaled
    <3> QED
      BY <3>1, <3>2
  <2>2. /\ Equity(account', latest') = Equity(account, latest) - account.cash + account'.cash
        /\ Equity(account, latest) \in Nat /\ account.cash \in Nat
    BY <1>1, <2>1, EquityMoves
  <2>3. Equity(account', latest') = Equity(account, latest)
    BY <1>4, <2>2
  <2>4. Accrued' = Accrued /\ Accrued \in Nat
    <3>1. Accrued' = Accrued
      BY <1>2 DEF Accrued, MapThenSumSet, MapThenFoldSet
    <3> QED
      BY <1>1, <3>1, SettingIs
  <2>5. Entitlements = 0
    BY <1>2 DEF Entitlements
  <2>6. /\ Worth(account, latest)' = Equity(account', latest') + Accrued'
        /\ Worth(account, latest) = Equity(account, latest) + Accrued
    BY DEF Worth
  <2> QED
    BY <2>2, <2>3, <2>4, <2>5, <2>6
<1> QED
  BY <1>1, <1>2, <1>5, <1>6, <1>7

LEMMA NeutralStep ==
  ASSUME EngineInv, Next, phase \in {"dividends", "splits"}, phase' # "failed", NoFraction
  PROVE  /\ WholeTicks => Worth(account, latest)' = Worth(account, latest) + Entitlements
         /\ \A s \in Symbols : /\ SameValue(s, latest, latest')
                              /\ SameValue(s, account.cost, account'.cost)
                              /\ SameValue(s, highs, highs')
<1>1. CASE Dividends
  <2>1. /\ Worth(account, latest)' = Worth(account, latest) + Entitlements
        /\ account'.quantity = account.quantity /\ account'.cost = account.cost
        /\ latest' = latest /\ highs' = highs
    BY <1>1, DividendsNeutral
  <2>2. \A s \in Symbols : /\ account.quantity[s] \in Nat /\ account.cost[s] \in Nat
                           /\ latest[s] \in Nat /\ highs[s] \in Nat
    BY DEF EngineInv, EngineTypes, Setting, Accounts, Quantities
  <2>3. \A s \in Symbols : /\ SameValue(s, latest, latest')
                           /\ SameValue(s, account.cost, account'.cost)
                           /\ SameValue(s, highs, highs')
    BY <2>1, <2>2, KeptValue DEF SameValue
  <2> QED
    BY <2>1, <2>3
<1>2. CASE Splits
  BY <1>2, SplitsNeutral
<1>3. CASE NewDay \/ ExecuteOrders \/ BarStops \/ Assess
  BY <1>3 DEF NewDay, ExecuteOrders, BarStops, Assess
<1> QED
  BY <1>1, <1>2, <1>3 DEF Next

\* Dividends and splits neither make nor destroy wealth: between two closes the
\* account is worth what it was and the dividends it is entitled to (where a split
\* leaves whole ticks), and every position's mark, cost and high keep their value.
THEOREM CorporateActionsNeutral == Spec => CorporateActionsAreNeutral
<1>1. EngineInv /\ [Next]_vars =>
        [(phase \in {"dividends", "splits"} /\ phase' # "failed" /\ NoFraction) =>
            /\ WholeTicks => Worth(account, latest)' = Worth(account, latest) + Entitlements
            /\ \A s \in Symbols : /\ SameValue(s, latest, latest')
                                 /\ SameValue(s, account.cost, account'.cost)
                                 /\ SameValue(s, highs, highs')]_vars
  BY NeutralStep
<1> QED
  BY <1>1, EngineAlways, PTL DEF Spec, CorporateActionsAreNeutral

-----------------------------------------------------------------------------
(* The plain engine.  It keeps its account by the same rules.              *)

LEMMA PlainPrices ==
  ASSUME NEW price
  PROVE  Plain!BuyPrice(price) = BuyPrice(price) /\ Plain!SellPrice(price) = SellPrice(price)
BY DEF BuyPrice, Plain!BuyPrice, SellPrice, Plain!SellPrice

LEMMA PlainEquity ==
  ASSUME NEW acc, NEW prices
  PROVE  Plain!Equity(acc, prices) = Equity(acc, prices)
BY DEF Equity, Plain!Equity, Held, Plain!Held, MapThenSumSet, Plain!MapThenSumSet,
       MapThenFoldSet, Plain!MapThenFoldSet

LEMMA PlainBudget ==
  ASSUME NEW price, NEW equity, NEW cash, NEW held
  PROVE  Plain!MaxBuyQuantity(price, equity, cash, held) = MaxBuyQuantity(price, equity, cash, held)
BY DEF MaxBuyQuantity, Plain!MaxBuyQuantity, Budget, Plain!Budget, Least, Plain!Least,
       Greatest, Plain!Greatest, BuyPrice, Plain!BuyPrice, SellPrice, Plain!SellPrice

LEMMA PlainSubmit ==
  ASSUME NEW acc, NEW order, NEW price, NEW date
  PROVE  /\ Plain!Submit(acc, order, price, date) = Submit(acc, order, price, date)
         /\ \A s, quantity : Plain!Sold(acc, s, quantity, price, date) = Sold(acc, s, quantity, price, date)
BY DEF Submit, Plain!Submit, Bought, Plain!Bought, Sold, Plain!Sold, Least, Plain!Least,
       BuyPrice, Plain!BuyPrice, SellPrice, Plain!SellPrice

LEMMA PlainStop ==
  ASSUME NEW cost, NEW high, NEW bar
  PROVE  Plain!StopFill(cost, high, bar) = StopFill(cost, high, bar)
BY DEF StopFill, Plain!StopFill, StopPrice, Plain!StopPrice, Greatest, Plain!Greatest

LEMMA PlainList ==
  ASSUME NEW S
  PROVE  Plain!SetToSeq(S) = SetToSeq(S)
BY DEF SetToSeq, Plain!SetToSeq, IsInjective, Plain!IsInjective, Cardinality, Plain!Cardinality

LEMMA PlainLiquidation ==
  ASSUME NEW acc
  PROVE  Plain!LiquidationOrders(acc) = LiquidationOrders(acc)
BY PlainList DEF LiquidationOrders, Plain!LiquidationOrders, Held, Plain!Held, Order, Plain!Order

LEMMA PlainOnly ==
  ASSUME NEW list, NEW set
  PROVE  Plain!Only(list, set) = Only(list, set)
BY DEF Only, Plain!Only, FoldLeft, Plain!FoldLeft, MapThenFoldSet, Plain!MapThenFoldSet,
       Max, Plain!Max

LEMMA PlainPlan ==
  ASSUME NEW acc, NEW prices, NEW equity, NEW date, NEW sells, NEW buys
  PROVE  Plain!BuildOrderPlan(acc, prices, equity, date, sells, buys)
           = BuildOrderPlan(acc, prices, equity, date, sells, buys)
BY DEF BuildOrderPlan, Plain!BuildOrderPlan, SellOrders, Plain!SellOrders, Only, Plain!Only,
       AddBuy, Plain!AddBuy, MayEnter, Plain!MayEnter, MayAdd, Plain!MayAdd,
       CoolingDown, Plain!CoolingDown, Order, Plain!Order, Held, Plain!Held,
       Cardinality, Plain!Cardinality, FoldLeft, Plain!FoldLeft, MapThenFoldSet, Plain!MapThenFoldSet,
       Max, Plain!Max,
       MaxBuyQuantity, Plain!MaxBuyQuantity, Budget, Plain!Budget, Least, Plain!Least,
       Greatest, Plain!Greatest, BuyPrice, Plain!BuyPrice, SellPrice, Plain!SellPrice

\* Before the first corporate action nothing is owed.
LEMMA NothingOwed ==
  ASSUME NoActionYet
  PROVE  /\ Accrued = 0 /\ Payable = {} /\ Owed = {}
         /\ EventsOf("split") = {} /\ MapThenSumSet(LAMBDA item : item.amount, Payable) = 0
<1>1. EventsOf("split") = {} /\ EventsOf("dividend") = {} /\ receivables = {}
  BY DEF NoActionYet, EventsOf, NoAction
<1>2. Owed = {} /\ Payable = {}
  BY <1>1 DEF Owed, Payable, Fresh, Earning
<1>3. \A items : items = {} => Sum(Amounts(items), items) = 0
  BY SumEmpty
<1>4. Accrued = 0
  BY <1>1, <1>3, AmountsAre DEF Accrued
<1>5. MapThenSumSet(LAMBDA item : item.amount, Payable) = 0
  BY <1>2, <1>3, AmountsAre
<1> QED
  BY <1>1, <1>2, <1>4, <1>5

\* An order is filled the same way.
LEMMA FillIsExecute ==
  ASSUME Setting, Accrued = 0, NEW state \in States, NEW order \in Orders
  PROVE  Plain!FillAtOpen(state, order) = Execute(state, order)
<1> DEFINE s == order.symbol
           acc == state.account
           held == acc.quantity[s]
           open == bars[s].open
           most == MaxBuyQuantity(open, Equity(acc, OpeningMarks), acc.cash, held)
           size == IF order.side = "buy" THEN Least(order.quantity, most) ELSE order.quantity
           same == IF order.side = "sell" THEN order.quantity ELSE Least(order.quantity, most)
           after == Submit(acc, [order EXCEPT !.quantity = same], open, day)
           next == Submit(acc, Order(s, order.side, size), open, day)
           entered == held = 0 /\ next.quantity[s] > 0
           opened == order.side = "buy" /\ after # acc /\ held = 0
<1>1. /\ s \in Symbols /\ order.side \in {"buy", "sell"} /\ order.quantity \in Nat \ {0}
      /\ acc \in Accounts /\ held \in Nat /\ acc.cash \in Nat /\ state.highs \in Quantities
      /\ day \in Nat /\ OpeningMarks \in Quantities
  BY SettingIs DEF States, Orders, Accounts, Quantities, Setting
<1>2. Worth(acc, OpeningMarks) = Equity(acc, OpeningMarks) /\ Equity(acc, OpeningMarks) \in Nat
  BY <1>1, EquityIs DEF Worth
<1>3. Execute(state, order) =
        IF bars[s] = NoBar \/ size <= 0 THEN state
        ELSE [account |-> next,
              highs |-> [state.highs EXCEPT ![s] = IF entered THEN BuyPrice(open) ELSE @]]
  <2>1. AffordableAtOpen(acc, order) = Least(order.quantity, most)
    BY <1>2 DEF AffordableAtOpen
  <2> HIDE DEF most
  <2> QED
    BY <2>1 DEF Execute
<1>4. Plain!FillAtOpen(state, order) =
        IF ~(bars[s] # NoBar) \/ same <= 0 THEN state
        ELSE [account |-> after,
              highs |-> IF opened THEN [state.highs EXCEPT ![s] = BuyPrice(open)]
                        ELSE state.highs]
  BY PlainPrices, PlainEquity, PlainBudget, PlainSubmit
     DEF Plain!FillAtOpen, Plain!Trades, Plain!NoBar, NoBar, OpeningMarks, Trades,
         Plain!Least, Least
<1>5. same = size
  BY <1>1
<1>6. [order EXCEPT !.quantity = size] = Order(s, order.side, size)
  BY DEF Orders, Order
<1>7. after = next
  BY <1>5, <1>6
<1>8. CASE bars[s] = NoBar \/ size <= 0
  BY <1>3, <1>4, <1>5, <1>8
<1>9. CASE bars[s] # NoBar /\ ~(size <= 0)
  <2>1. open \in Nat \ {0}
    BY <1>1, <1>9, SettingIs
  <2>2. size \in Nat \ {0}
    <3>1. most \in Nat
      <4> DEFINE equity == Equity(acc, OpeningMarks)
                 cash == acc.cash
      <4>1. equity \in Nat /\ cash \in Int /\ held \in Nat
        BY <1>1, <1>2
      <4>2. most = MaxBuyQuantity(open, equity, cash, held)
        OBVIOUS
      <4> HIDE DEF equity, cash, held, open, most
      <4> QED
        BY <2>1, <4>1, <4>2, BuyLimits
    <3> HIDE DEF most
    <3>2. size \in Nat
      BY <1>1, <3>1 DEF Least
    <3> QED
      BY <1>9, <3>2
  <2>3. entered <=> opened
    <3>1. CASE order.side = "buy"
      <4>1. next = Bought(acc, s, size, open)
        BY <3>1 DEF Submit, Order
      <4> HIDE DEF size, next, after, most
      <4>2. \/ next = acc
            \/ next.quantity = [acc.quantity EXCEPT ![s] = @ + size]
        BY <1>1, <2>1, <2>2, <4>1, BoughtIs
      <4>3. acc.quantity \in Quantities
        BY <1>1 DEF Accounts
      <4>4. next = acc \/ next.quantity[s] = held + size
        BY <1>1, <4>2, <4>3 DEF Quantities
      <4> QED
        BY <1>1, <1>7, <2>2, <3>1, <4>4
    <3>2. CASE order.side = "sell"
      <4>1. next = Sold(acc, s, size, open, day)
        BY <3>2 DEF Submit, Order
      <4> HIDE DEF size, next, after, most
      <4>2. next = acc \/ SoldSome(acc, next, s, open)
        BY <1>1, <2>1, <2>2, <4>1, SoldIs
      <4>3. SoldSome(acc, next, s, open) => held > 0
        BY <1>1 DEF SoldSome
      <4> QED
        BY <1>1, <3>2, <4>2, <4>3
    <3> QED
      BY <1>1, <3>1, <3>2
  <2> HIDE DEF entered, opened, next, after, size, same
  <2>4. [state.highs EXCEPT ![s] = IF entered THEN BuyPrice(open) ELSE @]
          = IF opened THEN [state.highs EXCEPT ![s] = BuyPrice(open)] ELSE state.highs
    BY <1>1, <2>3 DEF Quantities
  <2> QED
    BY <1>3, <1>4, <1>5, <1>7, <1>9, <2>4
<1> QED
  BY <1>8, <1>9

\* The states that the plain engine's fills pass through.
PlainFills(states, base, list) ==
  /\ states \in [0..Len(list) -> States]
  /\ states[0] = base
  /\ \A i \in 1..Len(list) : states[i] = Plain!FillAtOpen(states[i - 1], list[i])
  /\ FoldLeft(Plain!FillAtOpen, base, list) = states[Len(list)]

LEMMA PlainFillChain ==
  ASSUME Setting, Accrued = 0, NEW base \in States, NEW list \in Seq(Orders)
  PROVE  \E states : PlainFills(states, base, list)
<1> DEFINE X == States
           n == Len(list)
           O(x, e) == Plain!FillAtOpen(x, e)
           step == [i \in 1..n |-> [x \in X |-> O(x, list[i])]]
           F(it) == [s \in SUBSET (1..n) |->
                       IF s = {} THEN base ELSE O(it[s \ {Max(s)}], list[Max(s)])]
           fold == CHOOSE it : it = F(it)
<1>1. n \in Nat /\ DOMAIN list = 1..n /\ \A i \in 1..n : list[i] \in Orders
  OBVIOUS
<1>2. base \in X /\ \A x \in X, e \in Orders : O(x, e) \in X
  BY FillIsExecute, ExecuteFills DEF Fills
<1>3. FoldLeft(Plain!FillAtOpen, base, list) = fold[1..n]
  <2>1. FoldLeft(Plain!FillAtOpen, base, list) =
          (CHOOSE it : it = [s \in SUBSET (DOMAIN list) |->
              IF s = {} THEN base ELSE O(it[s \ {Max(s)}], list[Max(s)])])[DOMAIN list]
    BY DEF FoldLeft, MapThenFoldSet
  <2> QED
    BY <1>1, <2>1
<1> HIDE DEF O, X
<1>4. step \in [1..n -> [X -> X]]
  BY <1>1, <1>2
<1>5. fold = F(fold)
  <2>1. PICK it \in [SUBSET (1..n) -> X] : Iter(it, base, step, n)
    BY <1>1, <1>2, <1>4, FoldExists
  <2>2. it = F(it)
    <3>1. ASSUME NEW s \in SUBSET (1..n), s # {}
          PROVE  step[Max(s)][it[s \ {Max(s)}]] = O(it[s \ {Max(s)}], list[Max(s)])
      <4>1. Max(s) \in 1..n /\ it[s \ {Max(s)}] \in X
        BY <1>1, <3>1, MaxInside
      <4> QED
        BY <4>1
    <3> QED
      BY <2>1, <3>1 DEF Iter
  <2> HIDE DEF F
  <2> QED
    BY <2>2
<1> HIDE DEF fold
<1>6. Unfolds(fold, base, step, n, X)
  <2>1. fold[{}] = base
    BY <1>5
  <2>2. ASSUME NEW s \in SUBSET (1..n), s # {}, fold[s \ {Max(s)}] \in X
        PROVE  fold[s] = step[Max(s)][fold[s \ {Max(s)}]]
    <3>1. Max(s) \in 1..n
      BY <1>1, <2>2, MaxInside
    <3> QED
      BY <1>5, <2>2, <3>1
  <2> HIDE DEF step
  <2> QED
    BY <2>1, <2>2 DEF Unfolds
<1> HIDE DEF F
<1>7. PICK states : Chain(states, base, step, n, X) /\ fold[1..n] = states[n]
  <2>1. \E states : Chain(states, base, step, n, X) /\ fold[1..n] = states[n]
    <3>1. n \in Nat /\ base \in X
      BY <1>1, <1>2
    <3> HIDE DEF step, n
    <3> QED
      BY <1>4, <1>6, <3>1, FoldStates
  <2> QED
    BY <2>1
<1>8. \A i \in 1..n : states[i - 1] \in X /\ states[i] = O(states[i - 1], list[i])
  <2> SUFFICES ASSUME NEW i \in 1..n
               PROVE  states[i - 1] \in X /\ states[i] = O(states[i - 1], list[i])
    OBVIOUS
  <2>1. i - 1 \in 0..n
    BY <1>1
  <2>2. states[i - 1] \in X /\ states[i] = step[i][states[i - 1]]
    <3> HIDE DEF step
    <3> QED
      BY <1>7, <2>1 DEF Chain
  <2> QED
    BY <2>2
<1>9. states \in [0..n -> X] /\ states[0] = base
  BY <1>7 DEF Chain
<1> HIDE DEF n
<1> QED
  BY <1>3, <1>7, <1>8, <1>9 DEF n, O, X, PlainFills

\* The accounts that the plain engine's stops pass through.
PlainSale(acc, s) == Plain!Sold(acc, s, acc.quantity[s], Plain!StopOf(s), day)

PlainStops(states, base, list) ==
  /\ states \in [0..Len(list) -> Accounts]
  /\ states[0] = base
  /\ \A i \in 1..Len(list) : states[i] = PlainSale(states[i - 1], list[i])
  /\ FoldLeft(LAMBDA acc, s : PlainSale(acc, s), base, list) = states[Len(list)]

LEMMA PlainStopOf ==
  ASSUME Setting, account \in Accounts, highs \in Quantities, NEW s \in Symbols
  PROVE  Plain!HighOf(s) = HighOf(s) /\ Plain!StopOf(s) = StopAt(s)
<1>1. highs[s] \in Nat
  BY DEF Quantities
<1>2. Plain!HighOf(s) = HighOf(s)
  BY <1>1 DEF Plain!HighOf, HighOf
<1> QED
  BY <1>2, PlainStop DEF Plain!StopOf, StopAt

LEMMA PlainSaleIs ==
  ASSUME Setting, account \in Accounts, highs \in Quantities,
         NEW acc \in Accounts, NEW s \in Hit
  PROVE  PlainSale(acc, s) = StopSale(acc, s) /\ PlainSale(acc, s) \in Accounts
<1>1. Plain!StopOf(s) = StopAt(s)
  BY PlainStopOf DEF Hit, Held
<1>2. PlainSale(acc, s) = Sold(acc, s, acc.quantity[s], StopAt(s), day)
  BY <1>1, PlainSubmit DEF PlainSale
<1> QED
  BY <1>2, StopSaleIs

LEMMA PlainStopChain ==
  ASSUME Setting, account \in Accounts, highs \in Quantities,
         NEW base \in Accounts, NEW list \in Seq(Hit)
  PROVE  \E states : PlainStops(states, base, list)
<1> DEFINE X == Accounts
           n == Len(list)
           O(x, e) == PlainSale(x, e)
           step == [i \in 1..n |-> [x \in X |-> O(x, list[i])]]
           F(it) == [s \in SUBSET (1..n) |->
                       IF s = {} THEN base ELSE O(it[s \ {Max(s)}], list[Max(s)])]
           fold == CHOOSE it : it = F(it)
<1>1. n \in Nat /\ DOMAIN list = 1..n /\ \A i \in 1..n : list[i] \in Hit
  OBVIOUS
<1>2. base \in X /\ \A x \in X, e \in Hit : O(x, e) \in X
  BY PlainSaleIs
<1>3. FoldLeft(LAMBDA acc, s : PlainSale(acc, s), base, list) = fold[1..n]
  <2>1. FoldLeft(LAMBDA acc, s : PlainSale(acc, s), base, list) =
          (CHOOSE it : it = [s \in SUBSET (DOMAIN list) |->
              IF s = {} THEN base ELSE O(it[s \ {Max(s)}], list[Max(s)])])[DOMAIN list]
    BY DEF FoldLeft, MapThenFoldSet
  <2> QED
    BY <1>1, <2>1
<1> HIDE DEF O, X
<1>4. step \in [1..n -> [X -> X]]
  BY <1>1, <1>2
<1>5. fold = F(fold)
  <2>1. PICK it \in [SUBSET (1..n) -> X] : Iter(it, base, step, n)
    BY <1>1, <1>2, <1>4, FoldExists
  <2>2. it = F(it)
    <3>1. ASSUME NEW s \in SUBSET (1..n), s # {}
          PROVE  step[Max(s)][it[s \ {Max(s)}]] = O(it[s \ {Max(s)}], list[Max(s)])
      <4>1. Max(s) \in 1..n /\ it[s \ {Max(s)}] \in X
        BY <1>1, <3>1, MaxInside
      <4> QED
        BY <4>1
    <3> QED
      BY <2>1, <3>1 DEF Iter
  <2> HIDE DEF F
  <2> QED
    BY <2>2
<1> HIDE DEF fold
<1>6. Unfolds(fold, base, step, n, X)
  <2>1. fold[{}] = base
    BY <1>5
  <2>2. ASSUME NEW s \in SUBSET (1..n), s # {}, fold[s \ {Max(s)}] \in X
        PROVE  fold[s] = step[Max(s)][fold[s \ {Max(s)}]]
    <3>1. Max(s) \in 1..n
      BY <1>1, <2>2, MaxInside
    <3> QED
      BY <1>5, <2>2, <3>1
  <2> HIDE DEF step
  <2> QED
    BY <2>1, <2>2 DEF Unfolds
<1> HIDE DEF F
<1>7. PICK states : Chain(states, base, step, n, X) /\ fold[1..n] = states[n]
  <2>1. \E states : Chain(states, base, step, n, X) /\ fold[1..n] = states[n]
    <3>1. n \in Nat /\ base \in X
      BY <1>1, <1>2
    <3> HIDE DEF step, n
    <3> QED
      BY <1>4, <1>6, <3>1, FoldStates
  <2> QED
    BY <2>1
<1>8. \A i \in 1..n : states[i - 1] \in X /\ states[i] = O(states[i - 1], list[i])
  <2> SUFFICES ASSUME NEW i \in 1..n
               PROVE  states[i - 1] \in X /\ states[i] = O(states[i - 1], list[i])
    OBVIOUS
  <2>1. i - 1 \in 0..n
    BY <1>1
  <2>2. states[i - 1] \in X /\ states[i] = step[i][states[i - 1]]
    <3> HIDE DEF step
    <3> QED
      BY <1>7, <2>1 DEF Chain
  <2> QED
    BY <2>2
<1>9. states \in [0..n -> X] /\ states[0] = base
  BY <1>7 DEF Chain
<1> HIDE DEF n
<1> QED
  BY <1>3, <1>7, <1>8, <1>9 DEF n, O, X, PlainStops

LEMMA PlainExecuted ==
  ASSUME EngineTypes, Accrued = 0
  PROVE  Plain!FoldLeft(Plain!FillAtOpen, Opening, pending) = Executed
<1> DEFINE n == Len(pending)
<1>1. Setting /\ Opening \in States /\ pending \in Seq(Orders) /\ n \in Nat
  BY ExecutedIs DEF EngineTypes
<1>2. PICK a : PlainFills(a, Opening, pending)
  BY <1>1, PlainFillChain
<1>3. PICK b : Executes(b, Opening, pending) /\ Executed = b[n]
  BY ExecutedIs
<1>4. a[0] = b[0]
  BY <1>2, <1>3 DEF PlainFills, Executes
<1>5. ASSUME NEW i \in 1..n, a[i - 1] = b[i - 1]
      PROVE  a[i] = b[i]
  <2>1. i - 1 \in 0..n /\ pending[i] \in Orders
    BY <1>1
  <2>2. b[i - 1] \in States /\ b[i] = Execute(b[i - 1], pending[i])
    BY <1>3, <2>1 DEF Executes
  <2>3. a[i] = Plain!FillAtOpen(a[i - 1], pending[i])
    BY <1>2 DEF PlainFills
  <2> QED
    BY <1>1, <1>5, <2>1, <2>2, <2>3, FillIsExecute
<1>6. a[n] = b[n]
  <2>1. n \in Nat
    BY <1>1
  <2> HIDE DEF n
  <2>2. \A i \in 0..n : a[i] = b[i]
    <3>1. Together(a, b, n)
      BY <1>4, <1>5 DEF Together
    <3> QED
      BY <2>1, <3>1, ChainUnique
  <2> QED
    BY <2>1, <2>2
<1>7. FoldLeft(Plain!FillAtOpen, Opening, pending) = a[n]
  BY <1>2 DEF PlainFills
<1>8. Plain!FoldLeft(Plain!FillAtOpen, Opening, pending)
        = FoldLeft(Plain!FillAtOpen, Opening, pending)
  BY DEF FoldLeft, Plain!FoldLeft, MapThenFoldSet, Plain!MapThenFoldSet, Max, Plain!Max
<1> QED
  BY <1>3, <1>6, <1>7, <1>8

LEMMA PlainStopped ==
  ASSUME Setting, account \in Accounts, highs \in Quantities
  PROVE  Plain!FoldLeft(LAMBDA acc, s : Plain!Sold(acc, s, acc.quantity[s], Plain!StopOf(s), day),
                        account, SetToSeq(Hit)) = AfterStops
<1> DEFINE list == SetToSeq(Hit)
           n == Len(list)
<1>1. list \in Seq(Hit) /\ n \in Nat
  BY AfterStopsIs
<1>2. Plain!FoldLeft(LAMBDA acc, s : Plain!Sold(acc, s, acc.quantity[s], Plain!StopOf(s), day),
                     account, list)
        = FoldLeft(LAMBDA acc, s : PlainSale(acc, s), account, list)
  BY DEF PlainSale, FoldLeft, Plain!FoldLeft, MapThenFoldSet, Plain!MapThenFoldSet, Max, Plain!Max
<1>3. AfterStops = FoldLeft(LAMBDA acc, s : StopSale(acc, s), account, list)
  BY DEF AfterStops
<1>4. \A i \in 1..n : list[i] \in Hit
  BY <1>1
<1> HIDE DEF list
<1>5. PICK a : PlainStops(a, account, list)
  BY <1>1, PlainStopChain
<1>6. PICK b : StopsSell(b, account, list)
  BY <1>1, StopChain
<1>7. a[0] = b[0]
  BY <1>5, <1>6 DEF PlainStops, StopsSell
<1>8. ASSUME NEW i \in 1..n, a[i - 1] = b[i - 1]
      PROVE  a[i] = b[i]
  <2>1. i - 1 \in 0..n /\ list[i] \in Hit
    BY <1>1, <1>4
  <2>2. b[i - 1] \in Accounts /\ b[i] = StopSale(b[i - 1], list[i])
    BY <1>6, <2>1 DEF StopsSell
  <2>3. a[i] = PlainSale(a[i - 1], list[i])
    BY <1>5 DEF PlainStops
  <2> QED
    BY <1>8, <2>1, <2>2, <2>3, PlainSaleIs
<1>9. FoldLeft(LAMBDA acc, s : PlainSale(acc, s), account, list) = a[n]
  BY <1>5 DEF PlainStops
<1>10. AfterStops = b[n]
  BY <1>3, <1>6 DEF StopsSell
<1> HIDE DEF n
<1>11. a[n] = b[n]
  <2>1. Together(a, b, n) /\ n \in Nat
    BY <1>1, <1>7, <1>8 DEF Together
  <2>2. \A i \in 0..n : a[i] = b[i]
    BY <2>1, ChainUnique
  <2> QED
    BY <2>1, <2>2
<1> QED
  BY <1>2, <1>9, <1>10, <1>11 DEF list


LEMMA PlainNewDay ==
  ASSUME EngineInv, NewDay, actions' = 0
  PROVE  Plain!NewDay
<1>1. PICK today, due :
        /\ today \in [Symbols -> UNION {BarChoices[s] : s \in Symbols} \cup {NoBar}]
        /\ \A s \in Symbols : today[s] \in BarChoices[s] \cup {NoBar}
        /\ \E s \in Symbols : today[s] # NoBar
        /\ bars' = today
  BY DEF NewDay
<1>2. /\ phase = "night" /\ day < Days /\ day' = day + 1 /\ phase' = "dividends"
      /\ UNCHANGED <<account, latest, highs, pending, stopped, peak, halted>>
  BY DEF NewDay, engine
<1>3. Plain!NoBar = NoBar
  BY DEF Plain!NoBar, NoBar
<1> QED
  BY <1>1, <1>2, <1>3 DEF Plain!NewDay

LEMMA PlainDividends ==
  ASSUME EngineInv, Dividends, actions' = 0
  PROVE  UNCHANGED Plain!vars
<1>1. /\ phase = "dividends" /\ phase' = "splits"
      /\ account' = [account EXCEPT !.cash = @ + MapThenSumSet(LAMBDA item : item.amount, Payable)]
      /\ UNCHANGED <<day, bars, latest, highs, pending, stopped, peak, halted, actions>>
  BY DividendsIs
<1>2. NoActionYet /\ account \in Accounts
  BY <1>1 DEF EngineInv, EngineTypes
<1>3. account' = [account EXCEPT !.cash = @ + 0]
  BY <1>1, <1>2, NothingOwed
<1>4. account' = account
  BY <1>2, <1>3 DEF Accounts
<1> QED
  BY <1>1, <1>4 DEF Plain!vars

LEMMA PlainSplits ==
  ASSUME EngineInv, Splits, actions' = 0
  PROVE  UNCHANGED Plain!vars
<1>1. /\ EngineTypes /\ Setting /\ Acting /\ account \in Accounts /\ latest \in Quantities
      /\ highs \in Quantities /\ pending \in Seq(Orders) /\ SellsFirst(pending)
  BY DEF EngineInv, EngineTypes, Setting
<1>2. UNCHANGED <<day, bars, actions>> /\ phase = "splits"
  BY <1>1, SplitsActionIs DEF corporate
<1>3. EventsOf("split") = {}
  BY <1>2, NothingOwed DEF EngineInv
<1>4. /\ phase' = "open" /\ account' = SplitSteps[Len(SplitList)]
      /\ latest' = Scaled(latest) /\ highs' = Scaled(highs)
      /\ pending' = SplitOrders(pending)
      /\ UNCHANGED <<stopped, peak, halted>>
  BY <1>1, <1>3, SplitsActionIs
<1>5. Len(SplitList) = 0
  <2>1. ~ (1 \in 1..Len(SplitList)) /\ Len(SplitList) \in Nat
    BY <1>1, <1>3, SplitListIs
  <2> QED
    BY <2>1
<1>6. account' = account
  BY <1>1, <1>4, <1>5, SplitStepsAre
<1>7. \A values \in Quantities : Scaled(values) = values
  BY <1>3 DEF Scaled, Quantities
<1>8. pending' = pending
  BY <1>1, <1>3, <1>4, SplitOrdersAre
<1> QED
  BY <1>1, <1>2, <1>4, <1>6, <1>7, <1>8 DEF Plain!vars

LEMMA PlainExecuteOrders ==
  ASSUME EngineInv, ExecuteOrders, actions' = 0
  PROVE  Plain!ExecuteOrders
<1>1. /\ phase = "open" /\ account' = Executed.account
      /\ highs' = [s \in Symbols |-> IF s \in Held(Executed.account) THEN Executed.highs[s]
                                                                    ELSE 0]
      /\ pending' = <<>>
      /\ latest' = [s \in Symbols |-> IF bars[s] # NoBar THEN bars[s].close ELSE latest[s]]
      /\ phase' = IF day >= TradeStart THEN "close" ELSE "night"
      /\ UNCHANGED <<day, bars, stopped, peak, halted, actions>>
  BY ExecuteOrdersIs DEF corporate
<1>2. EngineTypes /\ Accrued = 0 /\ day \in Nat /\ TradeStart \in Nat
  BY <1>1, NothingOwed, MarketAssumption DEF EngineInv, EngineTypes, Setting
<1> DEFINE filled == Plain!FoldLeft(Plain!FillAtOpen, [account |-> account, highs |-> highs], pending)
<1>3. filled = Executed
  BY <1>2, PlainExecuted DEF Opening
<1>4. Plain!NoBar = NoBar
  BY DEF Plain!NoBar, NoBar
<1>5. \A s \in Symbols : Plain!Trades(s) <=> bars[s] # NoBar
  BY <1>4 DEF Plain!Trades
<1>6. \A s \in Symbols : s \in Held(Executed.account) <=> Executed.account.quantity[s] > 0
  BY DEF Held
<1> HIDE DEF filled
<1>7. account' = filled.account
  BY <1>1, <1>3
<1>8. highs' = [s \in Symbols |-> IF filled.account.quantity[s] > 0 THEN filled.highs[s] ELSE 0]
  BY <1>1, <1>3, <1>6
<1>9. latest' = [s \in Symbols |-> IF Plain!Trades(s) THEN bars[s].close ELSE latest[s]]
  BY <1>1, <1>5
<1>10. phase' = IF day < TradeStart THEN "night" ELSE "close"
  BY <1>1, <1>2
<1> QED
  BY <1>1, <1>7, <1>8, <1>9, <1>10 DEF Plain!ExecuteOrders, filled

LEMMA PlainBarStops ==
  ASSUME EngineInv, BarStops, actions' = 0
  PROVE  Plain!BarStops
<1>1. /\ phase = "close" /\ phase' = "assess"
      /\ account' = AfterStops /\ stopped' = Hit
      /\ highs' = [s \in Symbols |-> IF s \notin Held(AfterStops) THEN 0
                                    ELSE Greatest(HighOf(s), bars[s].high)]
      /\ UNCHANGED <<day, bars, latest, pending, peak, halted>>
  BY BarStopsIs
<1>2. Setting /\ account \in Accounts /\ highs \in Quantities
  BY DEF EngineInv, EngineTypes
<1> DEFINE hit == {s \in Plain!Held(account) : Plain!Trades(s) /\ Plain!StopOf(s) > 0}
           after == Plain!FoldLeft(LAMBDA acc, s : Plain!Sold(acc, s, acc.quantity[s], Plain!StopOf(s), day),
                                   account, Plain!SetToSeq(hit))
<1>3. Plain!NoBar = NoBar /\ Plain!Held(account) = Held(account) /\ Held(account) \subseteq Symbols
  BY DEF Plain!NoBar, NoBar, Plain!Held, Held
<1>4. \A s \in Symbols : (Plain!Trades(s) <=> bars[s] # NoBar) /\ Plain!StopOf(s) = StopAt(s)
  BY <1>2, <1>3, PlainStopOf DEF Plain!Trades
<1>5. hit = Hit
  BY <1>3, <1>4 DEF Hit, HitBy
<1> HIDE DEF hit
<1>6. Plain!SetToSeq(hit) = SetToSeq(Hit)
  BY <1>5, PlainList
<1>7. after = AfterStops
  BY <1>2, <1>6, PlainStopped
<1> HIDE DEF after
<1>8. AfterStops \in Accounts
  BY <1>2, AfterStopsIs
<1>9. \A s \in Symbols : s \notin Held(AfterStops) <=> AfterStops.quantity[s] = 0
  BY <1>8 DEF Held, Accounts, Quantities
<1>10. \A s \in Symbols : Plain!Greatest(Plain!HighOf(s), bars[s].high) = Greatest(HighOf(s), bars[s].high)
  BY <1>2, PlainStopOf DEF Plain!Greatest, Greatest
<1>11. account' = after /\ stopped' = hit
  BY <1>1, <1>5, <1>7
<1>12. highs' = [s \in Symbols |-> IF after.quantity[s] = 0 THEN 0
                                  ELSE Plain!Greatest(Plain!HighOf(s), bars[s].high)]
  BY <1>1, <1>7, <1>9, <1>10
<1> QED
  BY <1>1, <1>11, <1>12 DEF Plain!BarStops, hit, after

LEMMA PlainAssess ==
  ASSUME EngineInv, Assess, actions' = 0
  PROVE  Plain!Assess
<1>1. /\ phase = "assess" /\ phase' = "night" /\ stopped' = {} /\ peak' = Top
      /\ halted' = (halted \/ 100 * (Top - Worth(account, latest)) >= MaxDrawdownPct * Top)
      /\ \/ halted' /\ pending' = LiquidationOrders(account)
         \/ ~halted' /\ \E said \in SignalChoices : pending' = Planned(said)
      /\ UNCHANGED <<day, bars, account, latest, highs, actions>>
  BY AssessIs DEF corporate
<1>2. /\ EngineTypes /\ account \in Accounts /\ latest \in Quantities /\ Accrued = 0
      /\ peak \in Nat /\ MaxDrawdownPct \in Nat
  <2>1. MaxDrawdownPct \in Nat
    BY AccountAssumption DEF ValidConfig
  <2>2. Accrued = 0
    BY <1>1, NothingOwed DEF EngineInv
  <2> QED
    BY <2>1, <2>2 DEF EngineInv, EngineTypes, Setting
<1> DEFINE equity == Plain!Equity(account, latest)
           highest == Plain!Greatest(peak, equity)
           counts == {s \in Symbols : Plain!Trades(s)} \ stopped
<1>3. equity = Worth(account, latest) /\ equity \in Nat
  <2>1. Equity(account, latest) \in Nat
    BY <1>2, EquityIs
  <2> QED
    BY <1>2, <2>1, PlainEquity DEF Worth
<1>4. highest = Top /\ highest \in Nat
  BY <1>2, <1>3 DEF Top, Greatest, Plain!Greatest
<1>5. counts = Counting
  BY DEF Counting, Plain!Trades, Plain!NoBar, NoBar
<1>6. \A said : Plain!BuildOrderPlan(account, latest, equity, day,
                   Plain!Only(said.sells, counts), Plain!Only(said.buys, counts)) = Planned(said)
  <2> SUFFICES ASSUME NEW said
               PROVE  Plain!BuildOrderPlan(account, latest, equity, day,
                        Plain!Only(said.sells, counts), Plain!Only(said.buys, counts)) = Planned(said)
    OBVIOUS
  <2> HIDE DEF equity, counts
  <2>1. /\ Plain!Only(said.sells, counts) = Only(said.sells, Counting)
        /\ Plain!Only(said.buys, counts) = Only(said.buys, Counting)
    BY <1>5, PlainOnly
  <2> QED
    BY <1>3, <2>1, PlainPlan DEF Planned
<1> HIDE DEF equity, highest, counts
<1>7. halted' = (halted \/ 100 * (highest - equity) >= highest * MaxDrawdownPct)
  <2>1. MaxDrawdownPct * Top = highest * MaxDrawdownPct
    BY <1>2, <1>4
  <2> QED
    BY <1>1, <1>3, <1>4, <2>1
<1>8. \/ halted' /\ pending' = Plain!LiquidationOrders(account)
      \/ /\ ~halted'
         /\ \E said \in SignalChoices :
              pending' = Plain!BuildOrderPlan(account, latest, equity, day,
                            Plain!Only(said.sells, counts), Plain!Only(said.buys, counts))
  BY <1>1, <1>6, PlainLiquidation
<1>9. peak' = highest
  BY <1>1, <1>4
<1> QED
  BY <1>1, <1>7, <1>8, <1>9 DEF Plain!Assess, equity, highest, counts

LEMMA PlainStep ==
  ASSUME EngineInv, [Next]_vars, actions' = 0
  PROVE  Plain!Next \/ UNCHANGED Plain!vars
<1>1. CASE NewDay
  BY <1>1, PlainNewDay DEF Plain!Next
<1>2. CASE Dividends
  BY <1>2, PlainDividends
<1>3. CASE Splits
  BY <1>3, PlainSplits
<1>4. CASE ExecuteOrders
  BY <1>4, PlainExecuteOrders DEF Plain!Next
<1>5. CASE BarStops
  BY <1>5, PlainBarStops DEF Plain!Next
<1>6. CASE Assess
  BY <1>6, PlainAssess DEF Plain!Next
<1>7. CASE UNCHANGED vars
  BY <1>7 DEF vars, engine, Plain!vars
<1> QED
  BY <1>1, <1>2, <1>3, <1>4, <1>5, <1>6, <1>7 DEF Next

\* Step by step, the engine on raw prices is the plain engine until the first
\* corporate action: every fill, stop, halt and plan is the same.
THEOREM RefinesTradingEngine == Spec => SameAsTradingEngine
<1>1. Init => Plain!Init
  BY DEF Init, Plain!Init, Plain!NoBar, NoBar, Plain!NewAccount, NewAccount
<1>2. EngineInv /\ [Next]_vars => [actions' = 0 => Plain!Next]_(Plain!vars)
  BY PlainStep
<1> QED
  BY <1>1, <1>2, EngineAlways, PTL DEF Spec, SameAsTradingEngine
=============================================================================
