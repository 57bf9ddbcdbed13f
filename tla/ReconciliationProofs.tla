-------------------------- MODULE ReconciliationProofs --------------------------
(* The books of Reconciliation can be reconciled, for any users, wallets,  *)
(* requests, bodies and amounts.                                           *)
EXTENDS Reconciliation, WalletLedgerProofs, FiniteSetTheorems

-------------------------------------------------------------------------------
(* The inductive invariant.                                                *)

\* Which legs a request can have moved, and what its row says of them.
LegFits(q) ==
    /\ job[q].op = "exchange" => txs[q] = "none"
    /\ job[q].op # "exchange" => moved[q] \subseteq {"from"}
    /\ job[q].op # "exchange" /\ moved[q] # {} => txs[q] # "none"
    /\ txs[q] = "completed" => moved[q] = {"from"}

LegsFit == \A q \in Req : LegFits(q)

\* What leg l of request q has added to wallet w so far.
Share(q, l, w) == IF l \in moved[q] /\ WalletOf(q, l) = w THEN Delta(q, l) ELSE 0

\* What each request has added to w so far.
Shares(w) == [q \in Req |-> Share(q, "from", w) + Share(q, "to", w)]

\* A wallet on which no change was lost has its opening balance and every
\* change that is in the database.
Balanced == \A w \in Wallet \ lost : wallets[w] = Opening[w] + SumOver(Shares(w), Req)

-------------------------------------------------------------------------------
(* Sums over finite sets.  Induction is by a smallest counterexample.      *)

\* The element a fold takes out of a set first.
Chosen(T) == CHOOSE x \in T : TRUE

\* The equation a fold is defined by, for a sum g over the sets in D.
SumsUp(g, f, D) ==
    g = [T \in D |-> IF T = {} THEN 0 ELSE f[Chosen(T)] + g[T \ {Chosen(T)}]]

\* A finite set that has a property has a smallest subset with it.
LEMMA SmallestSubset ==
    ASSUME NEW S, IsFiniteSet(S), NEW B \in SUBSET (SUBSET S), B # {}
    PROVE  \E T \in B : \A U \in B : U \subseteq T => U = T
<1> DEFINE R == StrictSubsetOrdering(S)
           F == FiniteSubsetsOf(S)
<1>1. IsWellFoundedOn(R, F) BY FS_StrictSubsetOrderingWellFounded
<1>2. B \subseteq F BY FS_FiniteSubsetsOfFinite
<1>3. \A T, U \in B : U \subseteq T /\ U # T => <<U, T>> \in R BY DEF StrictSubsetOrdering
<1> HIDE DEF R, F
<1>4. \E T \in B : \A U \in B : ~(<<U, T>> \in R) BY <1>1, <1>2, WFMin
<1> QED BY <1>3, <1>4

\* A set of numbers has a smallest one.
LEMMA SmallestNumber ==
    ASSUME NEW n \in Nat, NEW B \in SUBSET (0 .. n), B # {}
    PROVE  \E k \in B : \A m \in B : k <= m
<1> DEFINE N == 0 .. n
           I == {0 .. k : k \in B}
<1>1. IsFiniteSet(N) BY FS_Interval
<1>2. I \in SUBSET (SUBSET N) OBVIOUS
<1>3. I # {} OBVIOUS
<1> HIDE DEF I, N
<1>4. PICK T \in I : \A U \in I : U \subseteq T => U = T
  BY <1>1, <1>2, <1>3, SmallestSubset
<1> USE DEF I
<1>5. PICK k \in B : T = 0 .. k BY <1>4
<1>6. ASSUME NEW m \in B PROVE k <= m
  <2> SUFFICES ASSUME m < k PROVE FALSE OBVIOUS
  <2>1. 0 .. m \in I /\ 0 .. m \subseteq 0 .. k OBVIOUS
  <2>2. 0 .. m = 0 .. k BY <1>4, <1>5, <2>1
  <2> QED BY <2>2
<1> QED BY <1>6

\* The subsets of S with at most k elements.
UpTo(S, k) == {T \in SUBSET S : Cardinality(T) <= k}

LEMMA ChosenIsElement == ASSUME NEW T, T # {} PROVE Chosen(T) \in T
BY DEF Chosen

\* A sum over the sets with at most k elements goes on to those with k + 1.
LEMMA SumExtends ==
    ASSUME NEW S, IsFiniteSet(S), NEW f, \A x \in S : f[x] \in Int, NEW k \in Nat,
           NEW h \in [UpTo(S, k) -> Int], SumsUp(h, f, UpTo(S, k))
    PROVE  \E g \in [UpTo(S, k + 1) -> Int] : SumsUp(g, f, UpTo(S, k + 1))
<1> DEFINE D == UpTo(S, k)
           E == UpTo(S, k + 1)
           g == [T \in E |-> IF T = {} THEN 0 ELSE f[Chosen(T)] + h[T \ {Chosen(T)}]]
<1>1. \A T \in SUBSET S : IsFiniteSet(T) /\ Cardinality(T) \in Nat BY FS_Subset, FS_CardinalityType
<1>2. D \subseteq E BY <1>1 DEF UpTo
<1>3. ASSUME NEW T \in E, T # {}
      PROVE  Chosen(T) \in S /\ T \ {Chosen(T)} \in D
  <2>1. Chosen(T) \in T BY <1>3, ChosenIsElement
  <2>2. T \in SUBSET S /\ Cardinality(T) <= k + 1 BY DEF UpTo
  <2>3. IsFiniteSet(T) /\ Cardinality(T) \in Nat BY <1>1, <2>2
  <2>4. Cardinality(T \ {Chosen(T)}) = Cardinality(T) - 1 BY <2>1, <2>3, FS_RemoveElement
  <2>5. T \ {Chosen(T)} \in SUBSET S BY <2>2
  <2> QED BY <2>1, <2>2, <2>3, <2>4, <2>5 DEF UpTo
<1>4. h \in [D -> Int] /\ SumsUp(h, f, D) OBVIOUS
<1> HIDE DEF D, E
<1>5. \A T \in E : g[T] \in Int BY <1>3, <1>4
<1>6. ASSUME NEW T \in D PROVE g[T] = h[T]
  <2>1. h[T] = IF T = {} THEN 0 ELSE f[Chosen(T)] + h[T \ {Chosen(T)}] BY <1>4 DEF SumsUp
  <2> QED BY <1>2, <2>1
<1>7. \A T \in E : g[T] = IF T = {} THEN 0 ELSE f[Chosen(T)] + g[T \ {Chosen(T)}] BY <1>3, <1>6
<1>8. g = [T \in E |-> g[T]] OBVIOUS
<1> HIDE DEF g
<1>9. g \in [E -> Int] BY <1>5, <1>8
<1>10. SumsUp(g, f, E) BY <1>7, <1>8 DEF SumsUp
<1> QED BY <1>9, <1>10 DEF E

\* Every finite set has a sum.
LEMMA SumExists ==
    ASSUME NEW S, IsFiniteSet(S), NEW f, \A x \in S : f[x] \in Int
    PROVE  \E g \in [SUBSET S -> Int] : SumsUp(g, f, SUBSET S)
<1> DEFINE n == Cardinality(S)
           Has(k) == \E g \in [UpTo(S, k) -> Int] : SumsUp(g, f, UpTo(S, k))
           B == {k \in 0 .. n : ~Has(k)}
<1>1. n \in Nat BY FS_CardinalityType
<1>2. \A T \in SUBSET S : IsFiniteSet(T) /\ Cardinality(T) \in Nat /\ Cardinality(T) <= n
  BY <1>1, FS_Subset, FS_CardinalityType
<1>3. Has(0)
  <2>1. \A T \in UpTo(S, 0) : T = {} BY <1>2, FS_EmptySet DEF UpTo
  <2> DEFINE g == [T \in UpTo(S, 0) |-> 0]
  <2>2. g \in [UpTo(S, 0) -> Int] OBVIOUS
  <2>3. SumsUp(g, f, UpTo(S, 0)) BY <2>1 DEF SumsUp
  <2> QED BY <2>2, <2>3
<1>4. ASSUME NEW k \in Nat, Has(k) PROVE Has(k + 1) BY <1>4, SumExtends
<1> HIDE DEF Has
<1>5. B = {}
  <2> SUFFICES ASSUME B # {} PROVE FALSE OBVIOUS
  <2>1. B \in SUBSET (0 .. n) OBVIOUS
  <2>2. PICK k \in B : \A m \in B : k <= m
    <3> HIDE DEF B
    <3> QED BY <1>1, <2>1, SmallestNumber
  <2>3. k \in Nat /\ k <= n /\ ~Has(k) BY <1>1
  <2>4. k # 0 BY <1>3, <2>3
  <2>5. k - 1 \in 0 .. n BY <1>1, <2>3, <2>4
  <2>6. Has(k - 1) BY <2>2, <2>3, <2>5
  <2>7. k - 1 \in Nat /\ (k - 1) + 1 = k BY <2>3, <2>5
  <2> QED BY <1>4, <2>3, <2>6, <2>7
<1>6. Has(n) BY <1>1, <1>5
<1>7. UpTo(S, n) = SUBSET S BY <1>2 DEF UpTo
<1> QED BY <1>6, <1>7 DEF Has

\* Sums are unique: two of them agree on the sets both are about.
LEMMA SumUnique ==
    ASSUME NEW S, IsFiniteSet(S), NEW f, NEW A \in SUBSET S,
           NEW g, SumsUp(g, f, SUBSET S), NEW h, SumsUp(h, f, SUBSET A)
    PROVE  g[A] = h[A]
<1> DEFINE B == {T \in SUBSET A : g[T] # h[T]}
<1>1. \A T \in SUBSET S : g[T] = IF T = {} THEN 0 ELSE f[Chosen(T)] + g[T \ {Chosen(T)}]
  BY DEF SumsUp
<1>2. \A T \in SUBSET A : h[T] = IF T = {} THEN 0 ELSE f[Chosen(T)] + h[T \ {Chosen(T)}]
  BY DEF SumsUp
<1>3. B = {}
  <2> SUFFICES ASSUME B # {} PROVE FALSE OBVIOUS
  <2>1. B \in SUBSET (SUBSET S) OBVIOUS
  <2>2. PICK T \in B : \A U \in B : U \subseteq T => U = T
    <3> HIDE DEF B
    <3> QED BY <2>1, SmallestSubset
  <2>3. T # {} BY <1>1, <1>2
  <2>4. Chosen(T) \in T BY <2>3, ChosenIsElement
  <2>5. T \ {Chosen(T)} \notin B BY <2>2, <2>4
  <2>6. g[T \ {Chosen(T)}] = h[T \ {Chosen(T)}] BY <2>5
  <2>7. T \in SUBSET A /\ T \in SUBSET S BY <2>2
  <2>8. g[T] = h[T] BY <1>1, <1>2, <2>3, <2>6, <2>7
  <2> QED BY <2>8
<1> QED BY <1>3

\* The fold is such a sum.
LEMMA SumOverIsFold ==
    ASSUME NEW f, NEW S
    PROVE  SumOver(f, S) = (CHOOSE g : SumsUp(g, f, SUBSET S))[S]
BY DEF SumOver, MapThenSumSet, MapThenFoldSet, SumsUp, Chosen

LEMMA SumOverValue ==
    ASSUME NEW S, IsFiniteSet(S), NEW f, \A x \in S : f[x] \in Int,
           NEW g, SumsUp(g, f, SUBSET S), NEW A \in SUBSET S
    PROVE  SumOver(f, A) = g[A]
<1> DEFINE h == CHOOSE hh : SumsUp(hh, f, SUBSET A)
<1>1. IsFiniteSet(A) /\ \A x \in A : f[x] \in Int BY FS_Subset
<1>2. \E hh : SumsUp(hh, f, SUBSET A) BY <1>1, SumExists
<1>3. SumsUp(h, f, SUBSET A) BY <1>2
<1>4. SumOver(f, A) = h[A] BY SumOverIsFold
<1> HIDE DEF h
<1> QED BY <1>3, <1>4, SumUnique

\* The sum over no elements, and over some.
LEMMA SumUnfolds ==
    ASSUME NEW S, IsFiniteSet(S), NEW f, \A x \in S : f[x] \in Int
    PROVE  /\ SumOver(f, S) \in Int
           /\ S = {} => SumOver(f, S) = 0
           /\ S # {} => SumOver(f, S) = f[Chosen(S)] + SumOver(f, S \ {Chosen(S)})
<1>1. PICK g \in [SUBSET S -> Int] : SumsUp(g, f, SUBSET S) BY SumExists
<1>2. \A A \in SUBSET S : SumOver(f, A) = g[A] BY <1>1, SumOverValue
<1>3. \A T \in SUBSET S : g[T] = IF T = {} THEN 0 ELSE f[Chosen(T)] + g[T \ {Chosen(T)}]
  BY <1>1 DEF SumsUp
<1>4. S \in SUBSET S /\ S \ {Chosen(S)} \in SUBSET S OBVIOUS
<1>5. SumOver(f, S) = g[S] /\ SumOver(f, S \ {Chosen(S)}) = g[S \ {Chosen(S)}] BY <1>2, <1>4
<1>6. g[S] \in Int BY <1>1, <1>4
<1>7. g[S] = IF S = {} THEN 0 ELSE f[Chosen(S)] + g[S \ {Chosen(S)}] BY <1>3, <1>4
<1> QED BY <1>5, <1>6, <1>7

\* The elements may be taken out in any order.
LEMMA SumTakesAny ==
    ASSUME NEW S, IsFiniteSet(S), NEW f, \A x \in S : f[x] \in Int, NEW x \in S
    PROVE  SumOver(f, S) = f[x] + SumOver(f, S \ {x})
<1> DEFINE Any(T) == \A y \in T : SumOver(f, T) = f[y] + SumOver(f, T \ {y})
           B == {T \in SUBSET S : ~Any(T)}
<1>1. \A T \in SUBSET S : IsFiniteSet(T) /\ \A y \in T : f[y] \in Int BY FS_Subset
<1>2. B = {}
  <2> SUFFICES ASSUME B # {} PROVE FALSE OBVIOUS
  <2>1. B \in SUBSET (SUBSET S) OBVIOUS
  <2>2. PICK T \in B : \A U \in B : U \subseteq T => U = T
    <3> HIDE DEF B
    <3> QED BY <2>1, SmallestSubset
  <2>3. PICK y \in T : SumOver(f, T) # f[y] + SumOver(f, T \ {y}) OBVIOUS
  <2>4. T \in SUBSET S /\ IsFiniteSet(T) /\ \A z \in T : f[z] \in Int BY <1>1
  <2> DEFINE c == Chosen(T)
             R == T \ {c, y}
  <2>5. c \in T BY <2>3, ChosenIsElement
  <2>6. SumOver(f, T) = f[c] + SumOver(f, T \ {c}) BY <2>3, <2>4, SumUnfolds
  <2>7. c # y BY <2>3, <2>6
  <2> HIDE DEF c
  <2>8. Any(T \ {c}) /\ Any(T \ {y})
    <3>1. T \ {c} \in SUBSET S /\ T \ {y} \in SUBSET S BY <2>4
    <3>2. T \ {c} \notin B /\ T \ {y} \notin B BY <2>2, <2>3, <2>5
    <3> QED BY <3>1, <3>2
  <2>9. (T \ {c}) \ {y} = R /\ (T \ {y}) \ {c} = R OBVIOUS
  <2>10. SumOver(f, T \ {c}) = f[y] + SumOver(f, R) BY <2>3, <2>7, <2>8, <2>9
  <2>11. SumOver(f, T \ {y}) = f[c] + SumOver(f, R) BY <2>5, <2>7, <2>8, <2>9
  <2>12. SumOver(f, R) \in Int
    <3>1. R \in SUBSET S BY <2>4
    <3> QED BY <1>1, <3>1, SumUnfolds
  <2>13. f[c] \in Int /\ f[y] \in Int BY <2>3, <2>4, <2>5
  <2> QED BY <2>3, <2>6, <2>10, <2>11, <2>12, <2>13
<1>3. S \in SUBSET S OBVIOUS
<1> QED BY <1>2, <1>3

\* Elements that count nothing may be left out of a sum.
LEMMA SumOverPart ==
    ASSUME NEW S, IsFiniteSet(S), NEW f, \A x \in S : f[x] \in Int, NEW A \in SUBSET S,
           NEW e, \A x \in S : e[x] = IF x \in A THEN f[x] ELSE 0
    PROVE  SumOver(e, S) = SumOver(f, A)
<1> DEFINE Same(T) == SumOver(e, T) = SumOver(f, T \cap A)
           B == {T \in SUBSET S : ~Same(T)}
<1>1. \A T \in SUBSET S : /\ IsFiniteSet(T) /\ IsFiniteSet(T \cap A)
                          /\ \A y \in T : f[y] \in Int /\ e[y] \in Int
  BY FS_Subset
<1>2. B = {}
  <2> SUFFICES ASSUME B # {} PROVE FALSE OBVIOUS
  <2>1. B \in SUBSET (SUBSET S) OBVIOUS
  <2>2. PICK T \in B : \A U \in B : U \subseteq T => U = T
    <3> HIDE DEF B
    <3> QED BY <2>1, SmallestSubset
  <2>3. /\ T \in SUBSET S /\ IsFiniteSet(T) /\ IsFiniteSet(T \cap A)
        /\ \A y \in T : f[y] \in Int /\ e[y] \in Int
    BY <1>1
  <2>4. T # {}
    <3> SUFFICES ASSUME T = {} PROVE FALSE OBVIOUS
    <3>1. T \cap A = {} OBVIOUS
    <3>2. SumOver(e, T) = 0 BY <2>3, SumUnfolds
    <3>3. SumOver(f, T \cap A) = 0 BY <2>3, <3>1, SumUnfolds
    <3> QED BY <2>2, <3>2, <3>3
  <2>5. PICK y : y \in T BY <2>4
  <2>6. Same(T \ {y})
    <3>1. T \ {y} \in SUBSET S BY <2>3
    <3>2. T \ {y} \notin B BY <2>2, <2>5
    <3> QED BY <3>1, <3>2
  <2>7. SumOver(e, T) = e[y] + SumOver(e, T \ {y}) BY <2>3, <2>5, SumTakesAny
  <2>8. CASE y \in A
    <3>1. (T \ {y}) \cap A = (T \cap A) \ {y} /\ y \in T \cap A BY <2>5, <2>8
    <3>2. \A z \in T \cap A : f[z] \in Int BY <2>3
    <3>3. SumOver(f, T \cap A) = f[y] + SumOver(f, (T \cap A) \ {y})
      BY <2>3, <3>1, <3>2, SumTakesAny
    <3>4. e[y] = f[y] BY <2>3, <2>5, <2>8
    <3>5. SumOver(e, T \ {y}) = SumOver(f, (T \cap A) \ {y}) BY <2>6, <3>1
    <3>6. Same(T) BY <2>7, <3>3, <3>4, <3>5
    <3> QED BY <2>2, <3>6
  <2>9. CASE y \notin A
    <3>1. (T \ {y}) \cap A = T \cap A BY <2>9
    <3>2. e[y] = 0 BY <2>3, <2>5, <2>9
    <3>3. SumOver(f, T \cap A) \in Int BY <2>3, SumUnfolds
    <3>4. SumOver(e, T \ {y}) = SumOver(f, T \cap A) BY <2>6, <3>1
    <3>5. Same(T) BY <2>7, <3>2, <3>3, <3>4
    <3> QED BY <2>2, <3>5
  <2> QED BY <2>8, <2>9
<1>3. S \in SUBSET S /\ S \cap A = A OBVIOUS
<1>4. Same(S) BY <1>2, <1>3
<1> QED BY <1>3, <1>4

\* A sum changes by as much as one of its terms.
LEMMA SumChanges ==
    ASSUME NEW S, IsFiniteSet(S), NEW f, \A x \in S : f[x] \in Int, NEW q \in S,
           NEW e, \A x \in S \ {q} : e[x] = f[x], e[q] \in Int
    PROVE  SumOver(e, S) = SumOver(f, S) + (e[q] - f[q])
<1> DEFINE R == S \ {q}
<1>1. IsFiniteSet(R) /\ R \in SUBSET R /\ \A x \in R : f[x] \in Int BY FS_Subset
<1>2. \A x \in S : e[x] \in Int OBVIOUS
<1>3. SumOver(e, R) = SumOver(f, R)
  <2>1. \A x \in R : e[x] = IF x \in R THEN f[x] ELSE 0 OBVIOUS
  <2> HIDE DEF R
  <2> QED BY <1>1, <2>1, SumOverPart
<1>4. SumOver(f, R) \in Int BY <1>1, SumUnfolds
<1>5. SumOver(e, S) = e[q] + SumOver(e, R) BY <1>2, SumTakesAny
<1>6. SumOver(f, S) = f[q] + SumOver(f, R) BY SumTakesAny
<1>7. e[q] \in Int /\ f[q] \in Int OBVIOUS
<1> HIDE DEF R
<1> QED BY <1>3, <1>4, <1>5, <1>6, <1>7

-------------------------------------------------------------------------------
(* Rows and moved legs.                                                    *)

LEMMA LegsOfStep ==
    ASSUME TypeOK, StagesFit, NEW q \in Req, LegFits(q), RequestStep(q)
    PROVE  LegFits(q)'
<1>1. job' = job BY DirtyGrows
<1>2. StageFits(q) BY DEF StagesFit
<1>3. txs' = txs /\ moved' = moved => LegFits(q)' BY <1>1 DEF LegFits
<1>4. ASSUME NEW l, NEW b, NEW m, NEW s, NEW t, UpdateRow(q, l, b, m, s, t)
      PROVE  txs' = txs /\ (moved' = moved \/ moved' = [moved EXCEPT ![q] = m])
  BY <1>4, Zenon DEF UpdateRow
<1>5. CASE Book(q)
  <2>1. moved[q] = {} /\ job[q].op # "exchange" BY <1>2, <1>5 DEF Book, StageFits, Reading
  <2>2. moved' = moved /\ (txs' = txs \/ txs' = [txs EXCEPT ![q] = "pending"])
    BY <1>5 DEF Book
  <2>3. CASE txs' = [txs EXCEPT ![q] = "pending"]
    <3>1. txs'[q] = "pending" BY <2>3 DEF TypeOK
    <3> QED BY <1>1, <2>1, <2>2, <3>1 DEF LegFits
  <2> QED BY <1>3, <2>2, <2>3
<1>6. CASE Settle(q)
  <2>1. moved[q] = {"from"} /\ job[q].op # "exchange" BY <1>2, <1>6 DEF Settle, StageFits
  <2>2. moved' = moved /\ (txs' = txs \/ txs' = [txs EXCEPT ![q] = "completed"])
    BY <1>6 DEF Settle
  <2>3. CASE txs' = [txs EXCEPT ![q] = "completed"]
    <3>1. txs'[q] = "completed" BY <2>3 DEF TypeOK
    <3> QED BY <1>1, <2>1, <2>2, <3>1 DEF LegFits
  <2> QED BY <1>3, <2>2, <2>3
<1>7. CASE Move(q)
  <2>1. txs[q] = "pending" /\ job[q].op # "exchange" BY <1>2, <1>7 DEF Move, StageFits
  <2>2. txs' = txs /\ (moved' = moved \/ moved' = [moved EXCEPT ![q] = {"from"}])
    BY <1>4, <1>7 DEF Move
  <2>3. CASE moved' = [moved EXCEPT ![q] = {"from"}]
    <3>1. moved'[q] = {"from"} BY <2>3 DEF TypeOK
    <3> QED BY <1>1, <2>1, <2>2, <3>1 DEF LegFits
  <2> QED BY <1>3, <2>2, <2>3
<1>8. CASE Debit(q) \/ Credit(q) \/ Revert(q) \/ UndoDebit(q) \/ UndoCredit(q)
  <2>1. job[q].op = "exchange"
    BY <1>2, <1>8 DEF Debit, Credit, Revert, UndoDebit, UndoCredit, StageFits, Swapping
  <2>2. txs' = txs BY <1>4, <1>8 DEF Debit, Credit, Revert, UndoDebit, UndoCredit
  <2> QED BY <1>1, <2>1, <2>2 DEF LegFits
<1>9. CASE ReadWallets(q) \/ Start(q) \/ Insufficient(q) \/ Cancel(q) \/ Record(q)
  BY <1>3, <1>9 DEF ReadWallets, LookupFrom, LookupTo, Lookup, SelectFrom, SelectTo, SelectWallet,
                    FillFrom, FillTo, FillWallet, Start, Insufficient, Cancel, Record, dbVars
<1>10. CASE \/ Moved(q) \/ Debited(q) \/ Credited(q)
            \/ Reverted(q) \/ UndidDebit(q) \/ UndidCredit(q)
  BY <1>3, <1>10 DEF Moved, Debited, Credited, Reverted, UndidDebit, UndidCredit, CacheRow, dbVars
<1> QED BY <1>5, <1>6, <1>7, <1>8, <1>9, <1>10 DEF RequestStep, Serve, Transfer, Swap, Rollback

\* A deposit or withdrawal moves its first leg only, and only after its row is
\* there; an exchange has no row in transactions.
THEOREM LegsCorrect == Spec => []LegsFit
<1>1. Init => LegsFit BY DEF Init, LegsFit, LegFits
<1>2. TypeOK /\ StagesFit /\ LegsFit /\ [Next]_vars => LegsFit'
  <2> SUFFICES ASSUME TypeOK, StagesFit, LegsFit, [Next]_vars, NEW p \in Req PROVE LegFits(p)'
    BY DEF LegsFit
  <2>0. LegFits(p) BY DEF LegsFit
  <2>1. ASSUME NEW q \in Req, RequestStep(q) PROVE LegFits(p)'
    <3>1. CASE p = q BY <2>0, <2>1, <3>1, LegsOfStep
    <3>2. CASE p # q
      <4>1. Untouched(p) BY <2>1, <3>2, Frame
      <4> QED BY <2>0, <4>1 DEF Untouched, LegFits
    <3> QED BY <3>1, <3>2
  <2>2. ASSUME NEW v \in Reader, ReaderStep(v) PROVE LegFits(p)'
    BY <2>0, <2>2 DEF ReaderStep, ListSelect, ListFill, ListMiss, LegFits, dbVars
  <2>3. CASE Restart BY <2>0, <2>3 DEF Restart, LegFits, dbVars
  <2>4. CASE UNCHANGED vars BY <2>0, <2>4 DEF vars, LegFits
  <2> QED BY <2>1, <2>2, <2>3, <2>4 DEF Next, RequestStep, ReaderStep
<1> QED BY <1>1, <1>2, TypeCorrect, StagesCorrect, PTL DEF Spec

-------------------------------------------------------------------------------
(* Balances and shares.                                                    *)

LEMMA ShareIsInt ==
    ASSUME TypeOK, NEW w
    PROVE  /\ \A q \in Req, l \in Leg : Share(q, l, w) \in Int
           /\ \A q \in Req : /\ Shares(w)[q] = Share(q, "from", w) + Share(q, "to", w)
                             /\ Shares(w)[q] \in Int
           /\ SumOver(Shares(w), Req) \in Int
<1>1. \A q \in Req, l \in Leg : Share(q, l, w) \in Int BY DeltaIsInt DEF Share
<1>2. \A q \in Req : /\ Shares(w)[q] = Share(q, "from", w) + Share(q, "to", w)
                     /\ Shares(w)[q] \in Int
  BY <1>1 DEF Shares, Leg
<1>3. SumOver(Shares(w), Req) \in Int BY <1>2, RequestsFinite, SumUnfolds
<1> QED BY <1>1, <1>2, <1>3

\* Steps that change no balance and no leg leave the books as they are.
LEMMA BalancedOfOthers ==
    ASSUME Balanced, UNCHANGED <<wallets, moved, job, lost>>
    PROVE  Balanced'
<1>1. \A w : Shares(w)' = Shares(w) BY DEF Shares, Share, WalletOf, Delta
<1> QED BY <1>1 DEF Balanced

\* An UPDATE that overwrites nobody's change adds to the balance just what it
\* adds to the shares of its request, or takes it back.
LEMMA BalancedOfUpdate ==
    ASSUME TypeOK, Balanced, NEW q \in Req, NEW l \in Leg, UpdateStep(q, l)
    PROVE  Balanced'
<1> DEFINE x == WalletOf(q, l)
           b(m) == IF l \in m THEN bal[q][l] + Delta(q, l) ELSE bal[q][l]
<1>1. PICK m \in SUBSET Leg : \E s, t : m \ {l} = moved[q] \ {l} /\ UpdateRow(q, l, b(m), m, s, t)
  BY DEF UpdateStep
<1>2. job' = job BY <1>1 DEF UpdateRow
<1>3. CASE UNCHANGED <<wallets, moved, lost>> BY <1>2, <1>3, BalancedOfOthers
<1>4. CASE /\ wallets' = [wallets EXCEPT ![x] = b(m)]
           /\ moved' = [moved EXCEPT ![q] = m]
           /\ lost' = IF wallets[x] # Current(q, l) THEN lost \cup {x} ELSE lost
  <2> SUFFICES ASSUME NEW w \in Wallet \ lost'
               PROVE  wallets'[w] = Opening[w] + SumOver(Shares(w)', Req)
    BY DEF Balanced
  <2>1. w \in Wallet \ lost BY <1>4
  <2>2. wallets[w] = Opening[w] + SumOver(Shares(w), Req) BY <2>1 DEF Balanced
  <2>3. moved'[q] = m /\ \A p \in Req \ {q} : moved'[p] = moved[p] BY <1>4 DEF TypeOK
  <2>4. /\ \A p, k : Delta(p, k)' = Delta(p, k) /\ WalletOf(p, k)' = WalletOf(p, k)
        /\ Shares(w)' = [p \in Req |-> Share(p, "from", w)' + Share(p, "to", w)']
    BY <1>2 DEF Delta, WalletOf, Shares
  <2>5. \A p \in Req \ {q} : \A k : Share(p, k, w)' = Share(p, k, w) BY <2>3, <2>4 DEF Share
  <2>6. \A p \in Req \ {q} : Shares(w)'[p] = Shares(w)[p] BY <2>4, <2>5, ShareIsInt
  <2>7. \A k \in Leg \ {l} : Share(q, k, w)' = Share(q, k, w) BY <1>1, <2>3, <2>4 DEF Share
  <2>8. /\ Share(q, l, w) = IF l \in moved[q] /\ x = w THEN Delta(q, l) ELSE 0
        /\ Share(q, l, w)' = IF l \in m /\ x = w THEN Delta(q, l) ELSE 0
    BY <2>3, <2>4 DEF Share
  <2>9. Delta(q, l) \in Int /\ bal[q][l] \in Int BY DeltaIsInt DEF TypeOK
  <2>10. Share(q, l, w)' \in Int /\ \A k \in Leg : Share(q, k, w) \in Int
    BY <2>8, <2>9, ShareIsInt
  <2>11. /\ Shares(w)'[q] \in Int /\ Shares(w)[q] \in Int
         /\ Shares(w)'[q] - Shares(w)[q] = Share(q, l, w)' - Share(q, l, w)
    <3>1. Shares(w)'[q] = Share(q, "from", w)' + Share(q, "to", w)' BY <2>4
    <3>2. Shares(w)[q] = Share(q, "from", w) + Share(q, "to", w) BY ShareIsInt
    <3>3. CASE l = "from"
      <4>1. Share(q, "to", w)' = Share(q, "to", w) BY <2>7, <3>3 DEF Leg
      <4>2. Share(q, "from", w) \in Int /\ Share(q, "to", w) \in Int BY <2>10 DEF Leg
      <4> QED BY <2>10, <3>1, <3>2, <3>3, <4>1, <4>2
    <3>4. CASE l = "to"
      <4>1. Share(q, "from", w)' = Share(q, "from", w) BY <2>7, <3>4 DEF Leg
      <4>2. Share(q, "from", w) \in Int /\ Share(q, "to", w) \in Int BY <2>10 DEF Leg
      <4> QED BY <2>10, <3>1, <3>2, <3>4, <4>1, <4>2
    <3> QED BY <3>3, <3>4 DEF Leg
  <2>12. /\ SumOver(Shares(w), Req) \in Int
         /\ SumOver(Shares(w)', Req)
              = SumOver(Shares(w), Req) + (Shares(w)'[q] - Shares(w)[q])
    <3>1. \A p \in Req : Shares(w)[p] \in Int BY ShareIsInt
    <3> QED BY <2>6, <2>11, <3>1, RequestsFinite, ShareIsInt, SumChanges
  <2>13. Opening[w] \in Int BY LedgerAssumption
  <2>14. CASE w # x
    <3>1. Share(q, l, w)' - Share(q, l, w) = 0 BY <2>8, <2>14
    <3>2. wallets'[w] = wallets[w] BY <1>4, <2>14 DEF TypeOK
    <3> QED BY <2>2, <2>11, <2>12, <3>1, <3>2
  <2>15. CASE w = x
    <3>1. wallets[w] = Current(q, l) BY <1>4, <2>15
    <3>2. wallets'[w] = b(m) BY <1>4, <2>15 DEF TypeOK
    <3>3. b(m) - Current(q, l) = Share(q, l, w)' - Share(q, l, w)
      BY <2>8, <2>9, <2>15 DEF Current
    <3>4. b(m) \in Int /\ Current(q, l) \in Int BY <2>9 DEF Current
    <3> HIDE DEF b
    <3> QED BY <2>2, <2>10, <2>11, <2>12, <2>13, <3>1, <3>2, <3>3, <3>4
  <2> QED BY <2>14, <2>15
<1> QED BY <1>1, <1>3, <1>4 DEF UpdateRow

\* A wallet on which no update overwrote another has its opening balance and
\* every change that is in the database, of whole and of broken-off requests.
THEOREM BalancesAddUp == Spec => []Balanced
<1>1. Init => Balanced
  <2> SUFFICES ASSUME Init, NEW w \in Wallet PROVE wallets[w] = Opening[w] + SumOver(Shares(w), Req)
    BY DEF Balanced
  <2>1. \A q \in Req : Shares(w)[q] = 0 BY DEF Init, Shares, Share
  <2>2. SumOver(Shares(w), Req) = 0
    <3> DEFINE none == [q \in Req |-> 0]
    <3>1. \A q \in Req : none[q] \in Int OBVIOUS
    <3>2. \A q \in Req : Shares(w)[q] = IF q \in {} THEN none[q] ELSE 0 BY <2>1
    <3> HIDE DEF none
    <3>3. SumOver(Shares(w), Req) = SumOver(none, {}) BY <3>1, <3>2, RequestsFinite, SumOverPart
    <3>4. SumOver(none, {}) = 0
      <4>1. \A x \in {} : none[x] \in Int OBVIOUS
      <4> QED BY <4>1, FS_EmptySet, SumUnfolds
    <3> QED BY <3>3, <3>4
  <2>3. wallets[w] = Opening[w] /\ Opening[w] \in Int BY LedgerAssumption DEF Init
  <2> QED BY <2>2, <2>3
<1>2. TypeOK /\ StagesFit /\ Balanced /\ [Next]_vars => Balanced'
  <2> SUFFICES ASSUME TypeOK, StagesFit, Balanced, [Next]_vars PROVE Balanced' OBVIOUS
  <2>1. ASSUME NEW q \in Req, RequestStep(q) PROVE Balanced'
    <3>1. CASE QuietStep(q) BY <3>1, BalancedOfOthers DEF QuietStep
    <3>2. ASSUME NEW l \in Leg, FillStep(q, l) \/ CacheStep(q, l) PROVE Balanced'
      BY <3>2, BalancedOfOthers DEF FillStep, CacheStep
    <3>3. ASSUME NEW l \in Leg, UpdateStep(q, l) PROVE Balanced' BY <3>3, BalancedOfUpdate
    <3> QED BY <2>1, <3>1, <3>2, <3>3, StepKinds
  <2>2. ASSUME NEW v \in Reader, ReaderStep(v) PROVE Balanced'
    BY <2>2, BalancedOfOthers DEF ReaderStep, ListSelect, ListFill, ListMiss, dbVars
  <2>3. CASE Restart BY <2>3, BalancedOfOthers DEF Restart, dbVars
  <2>4. CASE UNCHANGED vars BY <2>4, BalancedOfOthers DEF vars
  <2> QED BY <2>1, <2>2, <2>3, <2>4 DEF Next, RequestStep, ReaderStep
<1> QED BY <1>1, <1>2, TypeCorrect, StagesCorrect, PTL DEF Spec

-------------------------------------------------------------------------------
(* From shares to rows.                                                    *)

\* A deposit or a withdrawal counts once it has moved its leg: its row says
\* completed, or it is one of the pending rows whose UPDATE was applied.
LEMMA ShareOfTransfer ==
    ASSUME TypeOK, NEW q \in Req, LegFits(q), job[q].op # "exchange", NEW w
    PROVE  /\ Shares(w)[q] = IF moved[q] # {} /\ job[q].from = w THEN Delta(q, "from") ELSE 0
           /\ moved[q] # {} <=> (txs[q] = "completed" \/ (txs[q] = "pending" /\ "from" \in moved[q]))
<1>1. moved[q] \subseteq {"from"} BY DEF LegFits
<1>2. txs[q] \in {"none", "pending", "completed"} BY DEF TypeOK
<1>3. Delta(q, "from") \in Int BY DeltaIsInt DEF Leg
<1>4. Shares(w)[q] = Share(q, "from", w) + Share(q, "to", w) BY ShareIsInt
<1>5. Share(q, "to", w) = 0 BY <1>1 DEF Share
<1>6. Share(q, "from", w) = IF moved[q] # {} /\ job[q].from = w THEN Delta(q, "from") ELSE 0
  BY <1>1 DEF Share, WalletOf
<1>7. Shares(w)[q] = IF moved[q] # {} /\ job[q].from = w THEN Delta(q, "from") ELSE 0
  BY <1>3, <1>4, <1>5, <1>6
<1>8. moved[q] # {} <=> (txs[q] = "completed" \/ (txs[q] = "pending" /\ "from" \in moved[q]))
  BY <1>1, <1>2 DEF LegFits
<1> QED BY <1>7, <1>8

\* A settled exchange counts on both of its wallets, or on none.
LEMMA ShareOfSwap ==
    ASSUME TypeOK, NEW q \in Req, StageFits(q), job[q].op = "exchange", NEW w,
           w \in {job[q].from, job[q].to} => moved[q] = {} \/ pc[q] = "ok"
    PROVE  Shares(w)[q] = IF w \in {job[q].from, job[q].to} /\ pc[q] = "ok" THEN Booked(w)[q] ELSE 0
<1>1. Shares(w)[q] = Share(q, "from", w) + Share(q, "to", w) BY ShareIsInt
<1>2. Delta(q, "from") \in Int /\ Delta(q, "to") \in Int BY DeltaIsInt DEF Leg
<1>3. job[q] \in Job BY DEF TypeOK
<1>4. job[q].from # job[q].to BY <1>3, LedgerAssumption DEF ExchangeAssumption
<1>5. Booked(w)[q] = IF job[q].from = w THEN Delta(q, "from") ELSE Delta(q, "to") BY DEF Booked
<1>6. CASE w \notin {job[q].from, job[q].to}
  <2>1. Share(q, "from", w) = 0 /\ Share(q, "to", w) = 0 BY <1>6 DEF Share, WalletOf
  <2> QED BY <1>1, <1>6, <2>1
<1>7. CASE w \in {job[q].from, job[q].to} /\ pc[q] = "ok"
  <2>1. moved[q] = {"from", "to"} BY <1>7 DEF StageFits, Leg
  <2>2. CASE w = job[q].from
    <3>1. Share(q, "from", w) = Delta(q, "from") /\ Share(q, "to", w) = 0
      BY <1>4, <2>1, <2>2 DEF Share, WalletOf
    <3> QED BY <1>1, <1>2, <1>5, <1>7, <2>2, <3>1
  <2>3. CASE w = job[q].to
    <3>1. Share(q, "to", w) = Delta(q, "to") /\ Share(q, "from", w) = 0
      BY <1>4, <2>1, <2>3 DEF Share, WalletOf
    <3> QED BY <1>1, <1>2, <1>4, <1>5, <1>7, <2>3, <3>1
  <2> QED BY <1>7, <2>2, <2>3
<1>8. CASE w \in {job[q].from, job[q].to} /\ pc[q] # "ok"
  <2>1. moved[q] = {} BY <1>8
  <2>2. Share(q, "from", w) = 0 /\ Share(q, "to", w) = 0 BY <2>1 DEF Share
  <2> QED BY <1>1, <1>8, <2>2
<1> QED BY <1>6, <1>7, <1>8

\* The pending rows that explain a balance are those whose UPDATE was applied.
LEMMA RowsExplainShares ==
    ASSUME TypeOK, StagesFit, LegsFit, NEW w \in Wallet,
           \A q \in Swaps(w) : moved[q] = {} \/ pc[q] = "ok"
    PROVE  \E S \in SUBSET Rows(w, "pending") :
               SumOver(Shares(w), Req)
                   = SumOver(Booked(w), Rows(w, "completed") \cup S \cup Answered(w))
<1> DEFINE S == {q \in Rows(w, "pending") : "from" \in moved[q]}
           T == Rows(w, "completed") \cup S \cup Answered(w)
<1>1. \A q : q \in T <=> /\ q \in Req
                         /\ \/ txs[q] = "completed" /\ job[q].from = w
                            \/ txs[q] = "pending" /\ job[q].from = w /\ "from" \in moved[q]
                            \/ /\ job[q].op = "exchange" /\ w \in {job[q].from, job[q].to}
                               /\ pc[q] = "ok"
  BY DEF Rows, Answered, Swaps
<1>2. S \in SUBSET Rows(w, "pending") OBVIOUS
<1> HIDE DEF S, T
<1>3. T \in SUBSET Req BY <1>1
<1>4. \A q \in Req : Booked(w)[q] \in Int BY DeltaIsInt DEF Booked, Leg
<1>5. ASSUME NEW q \in Req
      PROVE  Shares(w)[q] = IF q \in T THEN Booked(w)[q] ELSE 0
  <2>1. LegFits(q) /\ StageFits(q) BY DEF LegsFit, StagesFit
  <2>2. CASE job[q].op # "exchange"
    <3>1. q \in T <=> moved[q] # {} /\ job[q].from = w
      <4>1. moved[q] # {} <=> (txs[q] = "completed" \/ (txs[q] = "pending" /\ "from" \in moved[q]))
        BY <2>1, <2>2, ShareOfTransfer
      <4> QED BY <1>1, <2>2, <4>1
    <3>2. job[q].from = w => Booked(w)[q] = Delta(q, "from") BY DEF Booked
    <3>3. Shares(w)[q] = IF moved[q] # {} /\ job[q].from = w THEN Delta(q, "from") ELSE 0
      BY <2>1, <2>2, ShareOfTransfer
    <3> QED BY <3>1, <3>2, <3>3
  <2>3. CASE job[q].op = "exchange"
    <3>1. txs[q] = "none" BY <2>1, <2>3 DEF LegFits
    <3>2. q \in T <=> w \in {job[q].from, job[q].to} /\ pc[q] = "ok" BY <1>1, <2>3, <3>1
    <3>3. w \in {job[q].from, job[q].to} => moved[q] = {} \/ pc[q] = "ok" BY <2>3 DEF Swaps
    <3> QED BY <2>1, <2>3, <3>2, <3>3, ShareOfSwap
  <2> QED BY <2>2, <2>3
<1>6. SumOver(Shares(w), Req) = SumOver(Booked(w), T)
  BY <1>3, <1>4, <1>5, RequestsFinite, SumOverPart
<1> QED BY <1>2, <1>6 DEF T

\* On a wallet where no update overwrote another and no exchange stopped
\* half-way, the balance is the opening balance, the completed rows and some
\* of the pending ones, for any number of requests (wallet_service.go:53-58).
THEOREM BooksReconciled == Spec => []PendingRowsExplainBalance
<1>1. ASSUME TypeOK, StagesFit, LegsFit, Balanced PROVE PendingRowsExplainBalance
  <2> SUFFICES ASSUME NEW w \in Wallet \ lost,
                      \A q \in Swaps(w) : moved[q] = {} \/ pc[q] = "ok"
               PROVE  \E S \in SUBSET Rows(w, "pending") :
                          wallets[w] = Opening[w]
                            + SumOver(Booked(w), Rows(w, "completed") \cup S \cup Answered(w))
    BY DEF PendingRowsExplainBalance
  <2>1. wallets[w] = Opening[w] + SumOver(Shares(w), Req) BY <1>1 DEF Balanced
  <2>2. PICK S \in SUBSET Rows(w, "pending") :
            SumOver(Shares(w), Req)
                = SumOver(Booked(w), Rows(w, "completed") \cup S \cup Answered(w))
    BY <1>1, RowsExplainShares
  <2> QED BY <2>1, <2>2
<1> QED BY <1>1, TypeCorrect, StagesCorrect, LegsCorrect, BalancesAddUp, PTL

===============================================================================
