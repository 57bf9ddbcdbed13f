--------------------------- MODULE WalletLedgerProofs ---------------------------
(* What holds of WalletLedger for any users, wallets, requests and bodies. *)
EXTENDS WalletLedger, TLAPS

\* Every action of one request, for the case split on a step.
RequestStep(q) == Start(q) \/ Serve(q) \/ Cancel(q)

ReaderStep(v) == ListSelect(v) \/ ListFill(v) \/ \E u \in User : ListMiss(v, u)

\* The balance change of a leg is a whole number.
LEMMA DeltaIsInt == ASSUME TypeOK, NEW q \in Req, NEW l \in Leg PROVE Delta(q, l) \in Int
BY LedgerAssumption DEF JobAssumption, TypeOK, Delta, WithdrawFee

\* A leg's wallet is a row of the table.
LEMMA WalletOfIsWallet == ASSUME TypeOK, NEW q \in Req, NEW l \in Leg PROVE WalletOf(q, l) \in Wallet
BY LedgerAssumption DEF JobAssumption, TypeOK, WalletOf

\* The rows of a user make a list that a reader may see.
LEMMA BalancesIsList == ASSUME TypeOK, NEW u \in User PROVE Balances(u) \in Lists
BY DEF TypeOK, Balances, Lists, WalletsOf

\* What a reader holds depends on where it is.
LEMMA ViewCases ==
    ASSUME NEW r \in View
    PROVE  /\ r.at = "select" => r.user \in User
           /\ r.at = "fill" => r.user \in User /\ r.list \in Lists
BY DEF View, NoView, Selecting, Filling

LEMMA FillingIsView ==
    ASSUME NEW u \in User, NEW rows \in Lists, NEW isOld \in BOOLEAN
    PROVE  Filling(u, rows, isOld) \in View
BY DEF View, Filling

LEMMA InitTypeOK == Init => TypeOK
BY LedgerAssumption DEF Init, TypeOK, Stage, Idle, View, NoView, Leg, Lists

LEMMA LookupTypeOK ==
    ASSUME TypeOK, NEW q \in Req, NEW l \in Leg, NEW h \in Stage, NEW m \in Stage, Lookup(q, l, h, m)
    PROVE  TypeOK'
<1> USE DEF Lookup, Goto, dbVars
<1>1. WalletOf(q, l) \in Wallet BY WalletOfIsWallet
<1> DEFINE w == WalletOf(q, l)
<1>2. pc' \in [Req -> Stage] BY DEF TypeOK
<1>3. bal' \in [Req -> [Leg -> Int]]
  <2>1. CASE walletCache[w] # Miss
    <3>1. walletCache[w] \in Int BY <1>1, <2>1 DEF TypeOK
    <3>2. bal' = [bal EXCEPT ![q] = [bal[q] EXCEPT ![l] = walletCache[w]]] BY <2>1
    <3>3. bal \in [Req -> [Leg -> Int]] BY DEF TypeOK
    <3>4. [bal[q] EXCEPT ![l] = walletCache[w]] \in [Leg -> Int] BY <3>1, <3>3
    <3> QED BY <3>2, <3>3, <3>4
  <2>2. CASE walletCache[w] = Miss BY <2>2 DEF TypeOK
  <2> QED BY <2>1, <2>2
<1>4. dirty' \subseteq Wallet BY <1>1 DEF TypeOK
<1> QED BY <1>2, <1>3, <1>4 DEF TypeOK

LEMMA SelectTypeOK ==
    ASSUME TypeOK, NEW q \in Req, NEW l \in Leg, NEW s \in Stage, SelectWallet(q, l, s)
    PROVE  TypeOK'
<1> USE DEF SelectWallet, Goto, dbVars
<1>1. WalletOf(q, l) \in Wallet BY WalletOfIsWallet
<1>2. pc' \in [Req -> Stage] BY DEF TypeOK, Stage, Ended
<1>3. bal' \in [Req -> [Leg -> Int]] BY <1>1 DEF TypeOK
<1> QED BY <1>2, <1>3 DEF TypeOK

\* SetWallet with a number, followed by any stage, keeps the types.
LEMMA SetTypeOK ==
    ASSUME TypeOK, NEW q \in Req, NEW l \in Leg, NEW b \in Int, NEW s \in Stage,
           SetWallet(WalletOf(q, l), b), Goto(q, s),
           UNCHANGED <<dbVars, job, bal, cancelled, view, moved, taken, dirty, lost>>
    PROVE  TypeOK'
<1> USE DEF SetWallet, Goto, dbVars
<1>1. WalletOf(q, l) \in Wallet BY WalletOfIsWallet
<1>2. walletCache' \in [Wallet -> Int \cup {Miss}] BY <1>1 DEF TypeOK
<1>3. listCache' \in [User -> {Miss} \cup Lists] BY DEF TypeOK
<1>4. pc' \in [Req -> Stage] BY DEF TypeOK
<1>5. listStale' \subseteq User BY DEF TypeOK
<1> QED BY <1>2, <1>3, <1>4, <1>5 DEF TypeOK

\* What exchanges took from a wallet only grows.
LEMMA UpdateTaken ==
    ASSUME TypeOK, NEW q \in Req, NEW l \in Leg, NEW b \in Int, NEW m, NEW s, NEW t,
           UpdateRow(q, l, b, m, s, t)
    PROVE  taken' \in [Wallet -> Nat] /\ \A w \in Wallet : taken'[w] >= taken[w]
<1>1. bal[q][l] \in Int /\ taken \in [Wallet -> Nat] BY DEF TypeOK
<1>2. CASE taken' = taken BY <1>1, <1>2
<1>3. CASE b < bal[q][l] /\ taken' = [taken EXCEPT ![WalletOf(q, l)] = @ + (bal[q][l] - b)]
  <2> DEFINE d == bal[q][l] - b
  <2>1. d \in Nat BY <1>1, <1>3
  <2>2. taken' = [taken EXCEPT ![WalletOf(q, l)] = taken[WalletOf(q, l)] + d] BY <1>3
  <2> HIDE DEF d
  <2>3. \A w \in Wallet : /\ taken[w] \in Nat
                          /\ taken'[w] = IF w = WalletOf(q, l) THEN taken[w] + d ELSE taken[w]
    BY <1>1, <2>2
  <2>4. \A w \in Wallet : taken'[w] \in Nat /\ taken'[w] >= taken[w] BY <2>1, <2>3
  <2>5. DOMAIN taken' = Wallet /\ taken' = [w \in Wallet |-> taken'[w]] BY <1>1, <2>2
  <2> QED BY <2>4, <2>5
<1> QED BY <1>2, <1>3 DEF UpdateRow

LEMMA UpdateTypeOK ==
    ASSUME TypeOK, NEW q \in Req, NEW l \in Leg, NEW b \in Int, NEW m \in SUBSET Leg,
           NEW s \in Stage, NEW t \in Stage, UpdateRow(q, l, b, m, s, t)
    PROVE  TypeOK'
<1>8. taken' \in [Wallet -> Nat] BY UpdateTaken
<1> USE DEF UpdateRow, Goto
<1>1. WalletOf(q, l) \in Wallet /\ Owner[WalletOf(q, l)] \in User
  BY WalletOfIsWallet, LedgerAssumption
<1>2. pc' \in [Req -> Stage] BY DEF TypeOK
<1>3. wallets' \in [Wallet -> Int] BY <1>1 DEF TypeOK
<1>4. moved' \in [Req -> SUBSET Leg]
  <2>1. moved' = moved \/ moved' = [moved EXCEPT ![q] = m] OBVIOUS
  <2>2. moved \in [Req -> SUBSET Leg] BY DEF TypeOK
  <2> HIDE DEF UpdateRow
  <2> QED BY <2>1, <2>2
<1>5. dirty' \subseteq Wallet /\ lost' \subseteq Wallet BY <1>1 DEF TypeOK
<1>6. listStale' \subseteq User BY <1>1 DEF TypeOK
<1>7. view' \in [Reader -> View]
  <2>1. \A v \in Reader : view[v].at = "fill" => Filling(view[v].user, view[v].list, TRUE) \in View
    BY ViewCases, FillingIsView DEF TypeOK
  <2>2. CASE view' = view BY <2>2 DEF TypeOK
  <2>3. CASE view' = [v \in Reader |->
                        IF view[v].at = "fill" /\ view[v].user = Owner[WalletOf(q, l)]
                        THEN Filling(view[v].user, view[v].list, TRUE) ELSE view[v]]
    BY <2>1, <2>3 DEF TypeOK
  <2> QED BY <2>2, <2>3
<1> QED BY <1>2, <1>3, <1>4, <1>5, <1>6, <1>7, <1>8 DEF TypeOK

\* The steps that change neither a balance nor the cache.
LEMMA PlainTypeOK ==
    ASSUME TypeOK, NEW q \in Req,
           Start(q) \/ Insufficient(q) \/ Book(q) \/ Settle(q) \/ Record(q) \/ Cancel(q)
    PROVE  TypeOK'
<1> USE DEF Goto, dbVars
<1>1. CASE Start(q) \/ Insufficient(q) BY <1>1 DEF TypeOK, Start, Insufficient, Stage, Ended
<1>2. CASE Book(q)
  <2>1. txs' \in [Req -> {"none", "pending", "completed"}] BY <1>2 DEF Book, TypeOK
  <2>2. pc' \in [Req -> Stage] BY <1>2 DEF Book, TypeOK, Stage, Ended, FromSpan
  <2> QED BY <1>2, <2>1, <2>2 DEF Book, TypeOK
<1>3. CASE Settle(q)
  <2>1. txs' \in [Req -> {"none", "pending", "completed"}] BY <1>3 DEF Settle, TypeOK
  <2>2. pc' \in [Req -> Stage] BY <1>3 DEF Settle, TypeOK, Stage, Ended
  <2> QED BY <1>3, <2>1, <2>2 DEF Settle, TypeOK
<1>4. CASE Record(q)
  <2>1. exchanges' \subseteq Req BY <1>4 DEF Record, TypeOK
  <2>2. pc' \in [Req -> Stage] BY <1>4 DEF Record, TypeOK, Stage, Ended, FromSpan
  <2> QED BY <1>4, <2>1, <2>2 DEF Record, TypeOK
<1>5. CASE Cancel(q) BY <1>5 DEF Cancel, TypeOK
<1> QED BY <1>1, <1>2, <1>3, <1>4, <1>5

LEMMA ReadTypeOK == ASSUME TypeOK, NEW q \in Req, ReadWallets(q) PROVE TypeOK'
<1>1. {"select", "fill", "lookupTo", "book", "selectTo", "fillTo", "debit"} \subseteq Stage
  BY DEF Stage, FromSpan, ToSpan
<1>2. AfterFrom(q) \in Stage BY <1>1 DEF AfterFrom
<1>3. "from" \in Leg /\ "to" \in Leg BY DEF Leg
<1>4. bal[q]["from"] \in Int /\ bal[q]["to"] \in Int BY <1>3 DEF TypeOK
<1>5. CASE LookupFrom(q) BY <1>5, <1>1, <1>2, <1>3, LookupTypeOK DEF LookupFrom
<1>6. CASE SelectFrom(q) BY <1>6, <1>1, <1>3, SelectTypeOK DEF SelectFrom
<1>7. CASE FillFrom(q) BY <1>7, <1>2, <1>3, <1>4, SetTypeOK DEF FillFrom, FillWallet
<1>8. CASE LookupTo(q) BY <1>8, <1>1, <1>3, LookupTypeOK DEF LookupTo
<1>9. CASE SelectTo(q) BY <1>9, <1>1, <1>3, SelectTypeOK DEF SelectTo
<1>10. CASE FillTo(q) BY <1>10, <1>1, <1>3, <1>4, SetTypeOK DEF FillTo, FillWallet
<1> QED BY <1>5, <1>6, <1>7, <1>8, <1>9, <1>10 DEF ReadWallets

LEMMA WriteTypeOK ==
    ASSUME TypeOK, NEW q \in Req,
           \/ Move(q) \/ Moved(q) \/ Debit(q) \/ Debited(q) \/ Credit(q) \/ Credited(q)
           \/ Rollback(q)
    PROVE  TypeOK'
<1>1. {"moved", "error", "settle", "debited", "credit", "credited", "revert", "record", "reverted",
       "undidDebit", "undoCredit", "undidCredit"} \subseteq Stage
  BY DEF Stage, FromSpan, ToSpan, FromWriting, Ended
<1>2. "from" \in Leg /\ "to" \in Leg /\ {"from"} \in SUBSET Leg /\ {"from", "to"} \in SUBSET Leg
  BY DEF Leg
<1>3. bal[q]["from"] \in Int /\ bal[q]["to"] \in Int BY <1>2 DEF TypeOK
<1>4. Delta(q, "from") \in Int /\ Delta(q, "to") \in Int BY <1>2, DeltaIsInt
<1>5. moved[q] \ {"from"} \in SUBSET Leg /\ moved[q] \ {"to"} \in SUBSET Leg BY DEF TypeOK
<1>6. bal[q]["from"] + Delta(q, "from") \in Int /\ bal[q]["to"] + Delta(q, "to") \in Int
  BY <1>3, <1>4
<1>7. CASE Move(q) BY <1>7, <1>1, <1>2, <1>6, UpdateTypeOK DEF Move
<1>8. CASE Moved(q) BY <1>8, <1>1, <1>2, <1>6, SetTypeOK DEF Moved, CacheRow
<1>9. CASE Debit(q) BY <1>9, <1>1, <1>2, <1>6, UpdateTypeOK DEF Debit
<1>10. CASE Debited(q) BY <1>10, <1>1, <1>2, <1>6, SetTypeOK DEF Debited, CacheRow
<1>11. CASE Credit(q) BY <1>11, <1>1, <1>2, <1>6, UpdateTypeOK DEF Credit
<1>12. CASE Credited(q) BY <1>12, <1>1, <1>2, <1>6, SetTypeOK DEF Credited, CacheRow
<1>13. CASE Revert(q) BY <1>13, <1>1, <1>2, <1>3, <1>5, UpdateTypeOK DEF Revert
<1>14. CASE Reverted(q) BY <1>14, <1>1, <1>2, <1>3, SetTypeOK DEF Reverted, CacheRow
<1>15. CASE UndoDebit(q) BY <1>15, <1>1, <1>2, <1>3, <1>5, UpdateTypeOK DEF UndoDebit
<1>16. CASE UndidDebit(q) BY <1>16, <1>1, <1>2, <1>3, SetTypeOK DEF UndidDebit, CacheRow
<1>17. CASE UndoCredit(q) BY <1>17, <1>1, <1>2, <1>3, <1>5, UpdateTypeOK DEF UndoCredit
<1>18. CASE UndidCredit(q) BY <1>18, <1>1, <1>2, <1>3, SetTypeOK DEF UndidCredit, CacheRow
<1> QED BY <1>7, <1>8, <1>9, <1>10, <1>11, <1>12, <1>13, <1>14, <1>15, <1>16, <1>17, <1>18
        DEF Rollback

LEMMA ReaderTypeOK == ASSUME TypeOK, NEW v \in Reader, ReaderStep(v) PROVE TypeOK'
<1> USE DEF dbVars
<1>1. ASSUME NEW u \in User, ListMiss(v, u) PROVE TypeOK'
  <2>1. Selecting(u) \in View BY DEF View
  <2>2. view' \in [Reader -> View] BY <1>1, <2>1 DEF ListMiss, TypeOK
  <2> QED BY <1>1, <2>2 DEF ListMiss, TypeOK
<1>2. CASE ListSelect(v)
  <2>1. view[v].user \in User BY <1>2, ViewCases DEF ListSelect, TypeOK
  <2>2. Balances(view[v].user) \in Lists BY <2>1, BalancesIsList
  <2>3. Filling(view[v].user, Balances(view[v].user), FALSE) \in View BY <2>1, <2>2, FillingIsView
  <2>4. NoView \in View BY DEF View
  <2>5. view' \in [Reader -> View] BY <1>2, <2>3, <2>4 DEF ListSelect, TypeOK
  <2> QED BY <1>2, <2>5 DEF ListSelect, TypeOK
<1>3. CASE ListFill(v)
  <2>1. view[v].user \in User /\ view[v].list \in Lists BY <1>3, ViewCases DEF ListFill, TypeOK
  <2>2. NoView \in View BY DEF View
  <2>3. view' \in [Reader -> View] BY <1>3, <2>2 DEF ListFill, TypeOK
  <2>4. listCache' \in [User -> {Miss} \cup Lists] BY <1>3, <2>1 DEF ListFill, TypeOK
  <2>5. listStale' \subseteq User BY <1>3, <2>1 DEF ListFill, TypeOK
  <2> QED BY <1>3, <2>3, <2>4, <2>5 DEF ListFill, TypeOK
<1> QED BY <1>1, <1>2, <1>3 DEF ReaderStep

LEMMA RestartTypeOK == ASSUME TypeOK, Restart PROVE TypeOK'
<1>1. NoView \in View BY DEF View
<1>2. "dead" \in Stage BY DEF Stage, Ended
<1> QED BY <1>1, <1>2 DEF Restart, TypeOK, dbVars

\* Every variable keeps its shape, for any users, wallets, requests and bodies.
THEOREM TypeCorrect == Spec => []TypeOK
<1>1. Init => TypeOK BY InitTypeOK
<1>2. TypeOK /\ [Next]_vars => TypeOK'
  <2> SUFFICES ASSUME TypeOK, [Next]_vars PROVE TypeOK' OBVIOUS
  <2>1. ASSUME NEW q \in Req, RequestStep(q) PROVE TypeOK'
    <3>1. CASE ReadWallets(q) BY <3>1, ReadTypeOK
    <3>2. CASE Start(q) \/ Insufficient(q) \/ Book(q) \/ Settle(q) \/ Record(q) \/ Cancel(q)
      BY <3>2, PlainTypeOK
    <3>3. CASE \/ Move(q) \/ Moved(q) \/ Debit(q) \/ Debited(q) \/ Credit(q) \/ Credited(q)
               \/ Rollback(q)
      BY <3>3, WriteTypeOK
    <3> QED BY <2>1, <3>1, <3>2, <3>3 DEF RequestStep, Serve, Transfer, Swap
  <2>2. ASSUME NEW v \in Reader, ReaderStep(v) PROVE TypeOK' BY <2>2, ReaderTypeOK
  <2>3. CASE Restart BY <2>3, RestartTypeOK
  <2>4. CASE UNCHANGED vars BY <2>4 DEF vars, TypeOK
  <2> QED BY <2>1, <2>2, <2>3, <2>4 DEF Next, RequestStep, ReaderStep
<1> QED BY <1>1, <1>2, PTL DEF Spec

-------------------------------------------------------------------------------
(* Which stage goes with which rows and which moved legs.                  *)

Reading == {"idle", "lookup", "select", "fill", "lookupTo", "selectTo", "fillTo", "book", "debit"}
Swapping == {"lookupTo", "selectTo", "fillTo", "debit", "debited", "credit", "credited", "record",
             "revert", "reverted", "undoDebit", "undidDebit", "undoCredit", "undidCredit"}

StageFits(q) ==
    /\ pc[q] \in Swapping => job[q].op = "exchange"
    /\ pc[q] \in {"book", "move", "moved", "settle"} => job[q].op # "exchange"
    /\ pc[q] \in Reading => txs[q] = "none" /\ moved[q] = {}
    /\ pc[q] = "move" => txs[q] = "pending" /\ moved[q] = {}
    /\ pc[q] \in {"moved", "settle"} => txs[q] = "pending" /\ moved[q] = {"from"}
    /\ pc[q] \in {"debited", "credit"} => moved[q] = {"from"}
    /\ pc[q] \in {"credited", "record", "undoDebit"} => moved[q] = {"from", "to"}
    /\ pc[q] = "revert" => "from" \in moved[q]
    /\ pc[q] = "reverted" => "from" \notin moved[q]
    /\ pc[q] = "undidDebit" => moved[q] = {"to"}
    /\ pc[q] = "undoCredit" => "to" \in moved[q]
    /\ pc[q] = "undidCredit" => "to" \notin moved[q]
    /\ pc[q] = "ok" /\ job[q].op = "exchange" => q \in exchanges /\ moved[q] = {"from", "to"}

StagesFit == \A q \in Req : StageFits(q)

\* What a step of another request leaves alone.
Untouched(p) ==
    /\ pc'[p] = pc[p] /\ job' = job /\ txs'[p] = txs[p] /\ bal'[p] = bal[p]
    /\ moved'[p] = moved[p] /\ (p \in exchanges' <=> p \in exchanges)

\* A step of request q touches no other request's local state and rows.
LEMMA Frame == ASSUME TypeOK, NEW q \in Req, RequestStep(q), NEW p \in Req \ {q} PROVE Untouched(p)
<1> USE DEF Goto, dbVars, Untouched, TypeOK
<1>1. CASE ReadWallets(q)
  <2>1. CASE LookupFrom(q) \/ LookupTo(q) BY <2>1 DEF LookupFrom, LookupTo, Lookup
  <2>2. CASE SelectFrom(q) \/ SelectTo(q) BY <2>2 DEF SelectFrom, SelectTo, SelectWallet
  <2>3. CASE FillFrom(q) \/ FillTo(q) BY <2>3 DEF FillFrom, FillTo, FillWallet
  <2> QED BY <1>1, <2>1, <2>2, <2>3 DEF ReadWallets
<1>2. CASE Start(q) \/ Insufficient(q) \/ Cancel(q) BY <1>2 DEF Start, Insufficient, Cancel
<1>3. CASE Book(q) \/ Settle(q) \/ Record(q) BY <1>3 DEF Book, Settle, Record
<1>4. CASE Move(q) \/ Debit(q) \/ Credit(q) BY <1>4 DEF Move, Debit, Credit, UpdateRow
<1>5. CASE Revert(q) \/ UndoDebit(q) \/ UndoCredit(q)
  BY <1>5 DEF Revert, UndoDebit, UndoCredit, UpdateRow
<1>6. CASE Moved(q) \/ Debited(q) \/ Credited(q) BY <1>6 DEF Moved, Debited, Credited, CacheRow
<1>7. CASE Reverted(q) \/ UndidDebit(q) \/ UndidCredit(q)
  BY <1>7 DEF Reverted, UndidDebit, UndidCredit, CacheRow
<1> QED BY <1>1, <1>2, <1>3, <1>4, <1>5, <1>6, <1>7
        DEF RequestStep, Serve, Transfer, Swap, Rollback

\* UpdateBalance moves the request on, to one stage when its UPDATE was
\* answered and to another when not; only then may it have changed nothing.
LEMMA UpdateOutcome ==
    ASSUME TypeOK, NEW q \in Req, NEW l, NEW b, NEW m, NEW s, NEW t, UpdateRow(q, l, b, m, s, t)
    PROVE  /\ job' = job /\ txs' = txs /\ exchanges' = exchanges /\ bal' = bal
           /\ \/ pc'[q] = s /\ moved'[q] = m
              \/ pc'[q] = t /\ (moved'[q] = m \/ moved'[q] = moved[q])
BY DEF UpdateRow, Goto, TypeOK

LEMMA StageOfStep == ASSUME TypeOK, NEW q \in Req, StageFits(q), RequestStep(q) PROVE StageFits(q)'
<1> USE DEF Goto, dbVars, TypeOK, StageFits, Reading, Swapping
<1>1. CASE ReadWallets(q)
  <2> USE DEF AfterFrom
  <2>1. CASE LookupFrom(q) BY <2>1 DEF LookupFrom, Lookup
  <2>2. CASE LookupTo(q) BY <2>2 DEF LookupTo, Lookup
  <2>3. CASE SelectFrom(q) BY <2>3 DEF SelectFrom, SelectWallet
  <2>4. CASE SelectTo(q) BY <2>4 DEF SelectTo, SelectWallet
  <2>5. CASE FillFrom(q) BY <2>5 DEF FillFrom, FillWallet
  <2>6. CASE FillTo(q) BY <2>6 DEF FillTo, FillWallet
  <2> QED BY <1>1, <2>1, <2>2, <2>3, <2>4, <2>5, <2>6 DEF ReadWallets
<1>2. CASE Start(q) BY <1>2 DEF Start
<1>3. CASE Insufficient(q) BY <1>3 DEF Insufficient
<1>4. CASE Cancel(q) BY <1>4 DEF Cancel
<1>5. CASE Book(q) BY <1>5 DEF Book
<1>6. CASE Settle(q) BY <1>6 DEF Settle
<1>7. CASE Record(q) BY <1>7 DEF Record
<1>8. CASE Move(q) BY <1>8, UpdateOutcome DEF Move
<1>9. CASE Moved(q) BY <1>9 DEF Moved, CacheRow
<1>10. CASE Debit(q) BY <1>10, UpdateOutcome DEF Debit
<1>11. CASE Debited(q) BY <1>11 DEF Debited, CacheRow
<1>12. CASE Credit(q) BY <1>12, UpdateOutcome DEF Credit
<1>13. CASE Credited(q) BY <1>13 DEF Credited, CacheRow
<1>14. CASE Revert(q) BY <1>14, UpdateOutcome DEF Revert
<1>15. CASE Reverted(q) BY <1>15 DEF Reverted, CacheRow
<1>16. CASE UndoDebit(q)
  <2>1. {"from", "to"} \ {"from"} = {"to"} OBVIOUS
  <2>2. moved[q] = {"from", "to"} BY <1>16 DEF UndoDebit
  <2> QED BY <1>16, <2>1, <2>2, UpdateOutcome DEF UndoDebit
<1>17. CASE UndidDebit(q) BY <1>17 DEF UndidDebit, CacheRow
<1>18. CASE UndoCredit(q) BY <1>18, UpdateOutcome DEF UndoCredit
<1>19. CASE UndidCredit(q) BY <1>19 DEF UndidCredit, CacheRow
<1> QED BY <1>1, <1>2, <1>3, <1>4, <1>5, <1>6, <1>7, <1>8, <1>9, <1>10, <1>11, <1>12, <1>13,
           <1>14, <1>15, <1>16, <1>17, <1>18, <1>19
        DEF RequestStep, Serve, Transfer, Swap, Rollback

\* Stages, rows and moved legs stay in step through every interleaving,
\* failure and restart.
THEOREM StagesCorrect == Spec => []StagesFit
<1>1. Init => StagesFit BY DEF Init, StagesFit, StageFits, Reading, Swapping
<1>2. TypeOK /\ StagesFit /\ [Next]_vars => StagesFit'
  <2> SUFFICES ASSUME TypeOK, StagesFit, [Next]_vars, NEW p \in Req PROVE StageFits(p)'
    BY DEF StagesFit
  <2>0. StageFits(p) BY DEF StagesFit
  <2>1. ASSUME NEW q \in Req, RequestStep(q) PROVE StageFits(p)'
    <3>1. CASE p = q BY <2>0, <2>1, <3>1, StageOfStep
    <3>2. CASE p # q
      <4>1. Untouched(p) BY <2>1, <3>2, Frame
      <4> QED BY <2>0, <4>1 DEF Untouched, StageFits
    <3> QED BY <3>1, <3>2
  <2>2. ASSUME NEW v \in Reader, ReaderStep(v) PROVE StageFits(p)'
    BY <2>0, <2>2 DEF ReaderStep, ListSelect, ListFill, ListMiss, StageFits, dbVars
  <2>3. CASE Restart
    BY <2>0, <2>3 DEF Restart, StageFits, Reading, Swapping, Idle, Ended, dbVars
  <2>4. CASE UNCHANGED vars BY <2>0, <2>4 DEF vars, StageFits
  <2> QED BY <2>1, <2>2, <2>3, <2>4 DEF Next, RequestStep, ReaderStep
<1> QED BY <1>1, <1>2, TypeCorrect, PTL DEF Spec

\* An exchange whose client was told of success has its row, and both wallets
\* show its effect: no rollback and no crash comes between (order_service.go).
THEOREM AnsweredExchangeCorrect == Spec => []AnsweredExchangeMovedBothLegs
<1>1. StagesFit => AnsweredExchangeMovedBothLegs
  BY DEF StagesFit, StageFits, AnsweredExchangeMovedBothLegs, Leg
<1> QED BY <1>1, StagesCorrect, PTL

-------------------------------------------------------------------------------
(* The balances never go deeper than one fee, and what exchanges took,     *)
(* below zero.                                                             *)

\* The balance test of the service still holds when its result is used.
Tested(q) ==
    /\ pc[q] \in {"move", "moved"} /\ job[q].op = "withdraw" => Covered(q)
    /\ pc[q] = "debited" => Covered(q)

RowsAbove ==
    \A w \in Wallet :
        /\ AboveFloor(wallets[w] + taken[w])
        /\ walletCache[w] # Miss => AboveFloor(walletCache[w] + taken[w])

HandsAbove(q) == \A l \in Leg : AboveFloor(bal[q][l] + taken[WalletOf(q, l)])

\* A credit that is in the row may be put into the cache.
CreditAbove(q) ==
    pc[q] = "credited" => AboveFloor((bal[q]["to"] + Delta(q, "to")) + taken[WalletOf(q, "to")])

FloorInv == RowsAbove /\ \A q \in Req : HandsAbove(q) /\ Tested(q) /\ CreditAbove(q)

LEMMA FloorUp == ASSUME NEW n \in Int, NEW d \in Nat, AboveFloor(n) PROVE AboveFloor(n + d)
<1>1. CASE n >= 0 BY <1>1 DEF AboveFloor
<1>2. CASE \E j \in Job : j.op = "withdraw" /\ n >= 0 - WithdrawFee(j.amount)
  <2>1. PICK j \in Job : j.op = "withdraw" /\ n >= 0 - WithdrawFee(j.amount) BY <1>2
  <2>2. WithdrawFee(j.amount) \in Int BY LedgerAssumption DEF JobAssumption, WithdrawFee
  <2>3. n + d >= 0 - WithdrawFee(j.amount) BY <2>1, <2>2
  <2> QED BY <2>1, <2>3 DEF AboveFloor
<1> QED BY <1>1, <1>2 DEF AboveFloor

\* A balance stays above the floor when more is taken from its wallet.
LEMMA FloorGrown ==
    ASSUME NEW n \in Int, NEW k \in Nat, NEW m \in Nat, m >= k, AboveFloor(n + k)
    PROVE  AboveFloor(n + m)
<1> DEFINE d == m - k
<1>1. d \in Nat /\ n + k \in Int /\ (n + k) + d = n + m OBVIOUS
<1> HIDE DEF d
<1>2. AboveFloor((n + k) + d) BY <1>1, FloorUp
<1> QED BY <1>1, <1>2

\* What a request writes to its first wallet on its way forward is above the
\* floor, given that what it read is and that its balance test holds.
LEMMA ForwardAboveFloor ==
    ASSUME TypeOK, NEW q \in Req, NEW k \in Nat, AboveFloor(bal[q]["from"] + k),
           job[q].op # "deposit" => Covered(q)
    PROVE  AboveFloor((bal[q]["from"] + Delta(q, "from")) + k)
<1>0. bal[q]["from"] \in Int BY DEF TypeOK, Leg
<1>1. job[q] \in Job /\ job[q].amount \in Nat /\ job[q].op \in {"deposit", "withdraw", "exchange"}
  BY LedgerAssumption DEF TypeOK, JobAssumption
<1>2. CASE job[q].op = "deposit"
  <2>1. AboveFloor((bal[q]["from"] + k) + job[q].amount)
    <3>1. bal[q]["from"] + k \in Int BY <1>0
    <3> QED BY <1>1, <3>1, FloorUp
  <2>2. (bal[q]["from"] + k) + job[q].amount = (bal[q]["from"] + Delta(q, "from")) + k
    BY <1>0, <1>1, <1>2 DEF Delta
  <2> QED BY <2>1, <2>2
<1>3. CASE job[q].op = "withdraw"
  <2>1. WithdrawFee(job[q].amount) \in Int BY <1>1 DEF WithdrawFee
  <2>2. (bal[q]["from"] + Delta(q, "from")) + k >= 0 - WithdrawFee(job[q].amount)
    BY <1>0, <1>1, <1>3, <2>1 DEF Delta, Covered
  <2> QED BY <1>1, <1>3, <2>2 DEF AboveFloor
<1>4. CASE job[q].op = "exchange"
  BY <1>0, <1>1, <1>4 DEF Delta, Covered, AboveFloor
<1> QED BY <1>1, <1>2, <1>3, <1>4

\* SetWallet with a balance above the floor, and nothing else that matters.
LEMMA SetFloor ==
    ASSUME TypeOK, RowsAbove, NEW w \in Wallet, NEW b \in Int, AboveFloor(b + taken[w]),
           SetWallet(w, b), UNCHANGED <<wallets, taken>>
    PROVE  RowsAbove'
BY DEF TypeOK, RowsAbove, SetWallet

\* The UPDATE of a row: a credit that takes is counted, so that only the first
\* wallet's new balance has to be above the floor by itself.
LEMMA WrittenAbove ==
    ASSUME TypeOK, NEW q \in Req, NEW l \in Leg, HandsAbove(q), NEW b \in Int,
           l = "from" => AboveFloor(b + taken[WalletOf(q, l)]),
           taken' = IF l = "to" /\ b < bal[q][l]
                    THEN [taken EXCEPT ![WalletOf(q, l)] = @ + (bal[q][l] - b)] ELSE taken
    PROVE  AboveFloor(b + taken'[WalletOf(q, l)])
<1> DEFINE w == WalletOf(q, l)
           k == taken[w]
           c == bal[q][l]
<1>1. w \in Wallet /\ k \in Nat /\ c \in Int /\ AboveFloor(c + k)
  BY WalletOfIsWallet DEF TypeOK, HandsAbove
<1>2. CASE l = "from" BY <1>2
<1>3. CASE l = "to" /\ b < c
  <2>1. taken'[w] = k + (c - b) BY <1>1, <1>3 DEF TypeOK
  <2>2. b + (k + (c - b)) = c + k BY <1>1
  <2> QED BY <1>1, <2>1, <2>2
<1>4. CASE l = "to" /\ ~(b < c)
  <2>1. taken'[w] = k BY <1>4
  <2>2. AboveFloor((c + k) + (b - c))
    <3>1. b - c \in Nat /\ c + k \in Int BY <1>1, <1>4
    <3> QED BY <1>1, <3>1, FloorUp
  <2>3. (c + k) + (b - c) = b + k BY <1>1
  <2> QED BY <2>1, <2>2, <2>3
<1> QED BY <1>2, <1>3, <1>4 DEF Leg

LEMMA UpdateFloor ==
    ASSUME TypeOK, RowsAbove, NEW q \in Req, HandsAbove(q), NEW l \in Leg, NEW b \in Int,
           l = "from" => AboveFloor(b + taken[WalletOf(q, l)]), NEW m, NEW s, NEW t,
           UpdateRow(q, l, b, m, s, t)
    PROVE  RowsAbove'
<1>1. walletCache' = walletCache BY DEF UpdateRow
<1>2. CASE wallets' = wallets /\ taken' = taken BY <1>1, <1>2 DEF RowsAbove
<1>3. CASE /\ wallets' = [wallets EXCEPT ![WalletOf(q, l)] = b]
           /\ taken' = IF l = "to" /\ b < bal[q][l]
                       THEN [taken EXCEPT ![WalletOf(q, l)] = @ + (bal[q][l] - b)] ELSE taken
  <2> SUFFICES ASSUME NEW w \in Wallet
               PROVE  /\ AboveFloor(wallets'[w] + taken'[w])
                      /\ walletCache[w] # Miss => AboveFloor(walletCache[w] + taken'[w])
    BY <1>1 DEF RowsAbove
  <2>1. taken'[w] \in Nat /\ taken[w] \in Nat /\ taken'[w] >= taken[w] BY UpdateTaken DEF TypeOK
  <2>2. walletCache[w] # Miss => AboveFloor(walletCache[w] + taken'[w])
    <3>1. walletCache[w] # Miss => walletCache[w] \in Int /\ AboveFloor(walletCache[w] + taken[w])
      BY DEF TypeOK, RowsAbove
    <3> QED BY <2>1, <3>1, FloorGrown
  <2>3. CASE w # WalletOf(q, l)
    <3>1. wallets'[w] = wallets[w] /\ wallets[w] \in Int /\ AboveFloor(wallets[w] + taken[w])
      BY <1>3, <2>3 DEF TypeOK, RowsAbove
    <3> QED BY <2>1, <2>2, <3>1, FloorGrown
  <2>4. CASE w = WalletOf(q, l)
    <3>1. wallets'[w] = b BY <1>3, <2>4 DEF TypeOK
    <3>2. AboveFloor(b + taken'[w]) BY <1>3, <2>4, WrittenAbove
    <3> QED BY <2>2, <3>1, <3>2
  <2> QED BY <2>3, <2>4
<1> QED BY <1>2, <1>3 DEF UpdateRow

\* The steps of a request, by what they do: read, update a row, set the cache.
\* Each update and each cache set is the one its stage calls for.
LEMMA WriteCases ==
    ASSUME TypeOK, StagesFit, NEW q \in Req, RequestStep(q)
    PROVE  \/ UNCHANGED <<wallets, walletCache, taken>>
           \/ \E l \in Leg : pc[q] = (IF l = "from" THEN "fill" ELSE "fillTo")
                            /\ SetWallet(WalletOf(q, l), bal[q][l]) /\ UNCHANGED <<wallets, taken>>
           \/ \E l \in Leg, m \in SUBSET Leg, s \in Stage, t \in Stage :
                  /\ pc[q] \in (IF l = "from" THEN {"move", "debit"} ELSE {"credit"})
                  /\ pc[q] = "debit" => Covered(q)
                  /\ UpdateRow(q, l, bal[q][l] + Delta(q, l), m, s, t)
           \/ \E l \in Leg, m \in SUBSET Leg, s \in Stage, t \in Stage :
                  /\ pc[q] \in (IF l = "from" THEN {"revert", "undoDebit"} ELSE {"undoCredit"})
                  /\ UpdateRow(q, l, bal[q][l], m, s, t)
           \/ \E l \in Leg :
                  /\ pc[q] \in (IF l = "from" THEN {"moved", "debited"} ELSE {"credited"})
                  /\ SetWallet(WalletOf(q, l), bal[q][l] + Delta(q, l)) /\ UNCHANGED <<wallets, taken>>
           \/ \E l \in Leg :
                  /\ pc[q] \in (IF l = "from" THEN {"reverted", "undidDebit"} ELSE {"undidCredit"})
                  /\ SetWallet(WalletOf(q, l), bal[q][l]) /\ UNCHANGED <<wallets, taken>>
<1>1. "from" \in Leg /\ "to" \in Leg /\ "to" # "from" BY DEF Leg
<1>2. {"moved", "error", "debited", "credited", "revert", "reverted", "undidDebit", "undoCredit",
       "undidCredit"} \subseteq Stage
  BY DEF Stage, FromSpan, ToSpan, FromWriting, ToWriting, Ended
<1>3. {"from"} \in SUBSET Leg /\ {"from", "to"} \in SUBSET Leg
      /\ moved[q] \ {"from"} \in SUBSET Leg /\ moved[q] \ {"to"} \in SUBSET Leg
  BY DEF Leg, TypeOK
<1>4. CASE FillFrom(q) BY <1>1, <1>4 DEF FillFrom, FillWallet, dbVars
<1>5. CASE FillTo(q) BY <1>1, <1>5 DEF FillTo, FillWallet, dbVars
<1>6. CASE LookupFrom(q) \/ SelectFrom(q) \/ LookupTo(q) \/ SelectTo(q)
  BY <1>6 DEF LookupFrom, SelectFrom, LookupTo, SelectTo, Lookup, SelectWallet, dbVars
<1>7. CASE Start(q) \/ Insufficient(q) \/ Cancel(q) \/ Book(q) \/ Settle(q) \/ Record(q)
  BY <1>7 DEF Start, Insufficient, Cancel, Book, Settle, Record, dbVars
<1>8. CASE Move(q) BY <1>1, <1>2, <1>3, <1>8 DEF Move
<1>9. CASE Debit(q) BY <1>1, <1>2, <1>3, <1>9 DEF Debit
<1>10. CASE Credit(q) BY <1>1, <1>2, <1>3, <1>10 DEF Credit
<1>11. CASE Revert(q) BY <1>1, <1>2, <1>3, <1>11 DEF Revert
<1>12. CASE UndoDebit(q) BY <1>1, <1>2, <1>3, <1>12 DEF UndoDebit
<1>13. CASE UndoCredit(q) BY <1>1, <1>2, <1>3, <1>13 DEF UndoCredit
<1>14. CASE Moved(q) BY <1>1, <1>14 DEF Moved, CacheRow, dbVars
<1>15. CASE Debited(q) BY <1>1, <1>15 DEF Debited, CacheRow, dbVars
<1>16. CASE Credited(q) BY <1>1, <1>16 DEF Credited, CacheRow, dbVars
<1>17. CASE Reverted(q) BY <1>1, <1>17 DEF Reverted, CacheRow, dbVars
<1>18. CASE UndidDebit(q) BY <1>1, <1>18 DEF UndidDebit, CacheRow, dbVars
<1>19. CASE UndidCredit(q) BY <1>1, <1>19 DEF UndidCredit, CacheRow, dbVars
<1> QED BY <1>4, <1>5, <1>6, <1>7, <1>8, <1>9, <1>10, <1>11, <1>12, <1>13, <1>14, <1>15, <1>16,
           <1>17, <1>18, <1>19
        DEF RequestStep, Serve, ReadWallets, Transfer, Swap, Rollback

LEMMA FloorOfWrites ==
    ASSUME TypeOK, StagesFit, FloorInv, NEW q \in Req, RequestStep(q)
    PROVE  RowsAbove'
<1>0. "from" \in Leg /\ "to" \in Leg /\ "from" # "to" BY DEF Leg
<1>1. RowsAbove /\ StageFits(q) /\ Tested(q) /\ HandsAbove(q) /\ CreditAbove(q)
  BY DEF StagesFit, FloorInv
<1>2. \A l \in Leg : /\ bal[q][l] \in Int /\ bal[q][l] + Delta(q, l) \in Int
                     /\ WalletOf(q, l) \in Wallet /\ taken[WalletOf(q, l)] \in Nat
                     /\ AboveFloor(bal[q][l] + taken[WalletOf(q, l)])
  BY <1>1, DeltaIsInt, WalletOfIsWallet DEF TypeOK, HandsAbove
<1>3. CASE UNCHANGED <<wallets, walletCache, taken>>
  BY <1>1, <1>3 DEF RowsAbove
<1>4. ASSUME NEW l \in Leg, SetWallet(WalletOf(q, l), bal[q][l]), UNCHANGED <<wallets, taken>>
      PROVE  RowsAbove'
  BY <1>1, <1>2, <1>4, SetFloor
<1>5. ASSUME NEW l \in Leg, NEW m, NEW s, NEW t, UpdateRow(q, l, bal[q][l], m, s, t)
      PROVE  RowsAbove'
  BY <1>1, <1>2, <1>5, UpdateFloor
<1>6. ASSUME pc[q] \in {"move", "moved", "debited"} \/ (pc[q] = "debit" /\ Covered(q))
      PROVE  AboveFloor((bal[q]["from"] + Delta(q, "from")) + taken[WalletOf(q, "from")])
  <2>1. job[q].op # "deposit" => Covered(q)
    <3>1. job[q].op \in {"deposit", "withdraw", "exchange"} BY LedgerAssumption DEF TypeOK, JobAssumption
    <3>2. CASE pc[q] \in {"move", "moved"} BY <1>1, <3>1, <3>2 DEF Tested, StageFits
    <3>3. CASE pc[q] = "debited" BY <1>1, <3>3 DEF Tested
    <3>4. CASE Covered(q) BY <3>4
    <3> QED BY <1>6, <3>2, <3>3, <3>4
  <2> QED BY <1>0, <1>2, <2>1, ForwardAboveFloor
<1>7. ASSUME NEW l \in Leg,
             pc[q] \in (IF l = "from" THEN {"moved", "debited"} ELSE {"credited"}),
             SetWallet(WalletOf(q, l), bal[q][l] + Delta(q, l)), UNCHANGED <<wallets, taken>>
      PROVE  RowsAbove'
  <2>1. AboveFloor((bal[q][l] + Delta(q, l)) + taken[WalletOf(q, l)])
    <3>1. CASE l = "from" BY <1>6, <1>7, <3>1
    <3>2. CASE l = "to" BY <1>0, <1>1, <1>7, <3>2 DEF CreditAbove
    <3> QED BY <3>1, <3>2 DEF Leg
  <2> QED BY <1>1, <1>2, <1>7, <2>1, SetFloor
<1>8. ASSUME NEW l \in Leg, NEW m, NEW s, NEW t,
             pc[q] \in (IF l = "from" THEN {"move", "debit"} ELSE {"credit"}),
             pc[q] = "debit" => Covered(q),
             UpdateRow(q, l, bal[q][l] + Delta(q, l), m, s, t)
      PROVE  RowsAbove'
  <2>1. l = "from" => AboveFloor((bal[q][l] + Delta(q, l)) + taken[WalletOf(q, l)])
    BY <1>6, <1>8
  <2> QED BY <1>1, <1>2, <1>8, <2>1, UpdateFloor
<1> QED BY <1>3, <1>4, <1>5, <1>7, <1>8, WriteCases

\* An UPDATE leaves a credit that may be put into the cache.
LEMMA CreditOfStep ==
    ASSUME TypeOK, StagesFit, FloorInv, NEW q \in Req, RequestStep(q)
    PROVE  CreditAbove(q)'
<1> SUFFICES ASSUME pc'[q] = "credited"
             PROVE  AboveFloor((bal[q]["to"] + Delta(q, "to")) + taken[WalletOf(q, "to")])'
  BY DEF CreditAbove
<1>1. "to" \in Leg /\ CreditAbove(q) /\ HandsAbove(q) BY DEF Leg, FloorInv
<1>2. ASSUME pc[q] = "credited", bal' = bal, job' = job, taken' = taken
      PROVE  AboveFloor((bal[q]["to"] + Delta(q, "to")) + taken[WalletOf(q, "to")])'
  BY <1>1, <1>2 DEF CreditAbove, AboveFloor, Delta, WalletOf
<1>3. CASE Cancel(q) BY <1>2, <1>3 DEF Cancel
<1>4. CASE Credit(q)
  <2> DEFINE b == bal[q]["to"] + Delta(q, "to")
  <2>1. UpdateRow(q, "to", b, {"from", "to"}, "credited", "revert") BY <1>4 DEF Credit
  <2>2. b \in Int BY <1>1, DeltaIsInt DEF TypeOK
  <2>3. bal' = bal /\ job' = job BY <2>1 DEF UpdateRow
  <2> HIDE DEF b
  <2>4. taken' = IF "to" = "to" /\ b < bal[q]["to"]
                 THEN [taken EXCEPT ![WalletOf(q, "to")] = @ + (bal[q]["to"] - b)] ELSE taken
    BY <2>1 DEF UpdateRow, Goto, TypeOK
  <2>5. AboveFloor(b + taken'[WalletOf(q, "to")]) BY <1>1, <2>2, <2>4, WrittenAbove
  <2> QED BY <2>3, <2>5 DEF b, AboveFloor, Delta, WalletOf
<1>5. CASE ReadWallets(q)
  <2> USE DEF Goto, TypeOK, AfterFrom
  <2>1. CASE LookupFrom(q) \/ LookupTo(q) BY <2>1 DEF LookupFrom, LookupTo, Lookup
  <2>2. CASE SelectFrom(q) \/ SelectTo(q) BY <2>2 DEF SelectFrom, SelectTo, SelectWallet
  <2>3. CASE FillFrom(q) \/ FillTo(q) BY <2>3 DEF FillFrom, FillTo, FillWallet
  <2> QED BY <1>5, <2>1, <2>2, <2>3 DEF ReadWallets
<1>6. CASE Start(q) \/ Insufficient(q) \/ Book(q) \/ Settle(q) \/ Record(q)
  BY <1>6 DEF Goto, TypeOK, Start, Insufficient, Book, Settle, Record
<1>7. CASE Moved(q) \/ Debited(q) \/ Credited(q) \/ Reverted(q) \/ UndidDebit(q) \/ UndidCredit(q)
  BY <1>7 DEF Goto, TypeOK, Moved, Debited, Credited, Reverted, UndidDebit, UndidCredit, CacheRow
<1>8. CASE Move(q) \/ Debit(q) \/ Revert(q) \/ UndoDebit(q) \/ UndoCredit(q)
  BY <1>8 DEF Goto, TypeOK, Move, Debit, Revert, UndoDebit, UndoCredit, UpdateRow
<1> QED BY <1>3, <1>4, <1>5, <1>6, <1>7, <1>8 DEF RequestStep, Serve, Transfer, Swap, Rollback

\* Only the look at the cache and the SELECT give a request a balance.
LEMMA BalChangesOnRead ==
    ASSUME NEW q \in Req, RequestStep(q)
    PROVE  LookupFrom(q) \/ LookupTo(q) \/ SelectFrom(q) \/ SelectTo(q) \/ UNCHANGED bal
<1>1. CASE FillFrom(q) \/ FillTo(q) BY <1>1 DEF FillFrom, FillTo, FillWallet
<1>2. CASE Start(q) \/ Insufficient(q) \/ Cancel(q) \/ Book(q) \/ Settle(q) \/ Record(q)
  BY <1>2 DEF Start, Insufficient, Cancel, Book, Settle, Record
<1>3. CASE Move(q) \/ Debit(q) \/ Credit(q) BY <1>3 DEF Move, Debit, Credit, UpdateRow
<1>4. CASE Revert(q) \/ UndoDebit(q) \/ UndoCredit(q)
  BY <1>4 DEF Revert, UndoDebit, UndoCredit, UpdateRow
<1>5. CASE \/ Moved(q) \/ Debited(q) \/ Credited(q)
           \/ Reverted(q) \/ UndidDebit(q) \/ UndidCredit(q)
  BY <1>5 DEF Moved, Debited, Credited, Reverted, UndidDebit, UndidCredit, CacheRow
<1> QED BY <1>1, <1>2, <1>3, <1>4, <1>5
        DEF RequestStep, Serve, ReadWallets, Transfer, Swap, Rollback

\* What was taken grows with each step.
LEMMA TakenGrows ==
    ASSUME TypeOK, StagesFit, NEW q \in Req, RequestStep(q)
    PROVE  \A w \in Wallet : taken'[w] \in Nat /\ taken'[w] >= taken[w]
<1>1. \A w \in Wallet : taken[w] \in Nat BY DEF TypeOK
<1>2. CASE taken' = taken BY <1>1, <1>2
<1>3. ASSUME NEW l \in Leg, NEW b \in Int, NEW m, NEW s, NEW t, UpdateRow(q, l, b, m, s, t)
      PROVE  \A w \in Wallet : taken'[w] \in Nat /\ taken'[w] >= taken[w]
  BY <1>3, UpdateTaken
<1>4. \A l \in Leg : bal[q][l] \in Int /\ bal[q][l] + Delta(q, l) \in Int BY DeltaIsInt DEF TypeOK
<1> QED BY <1>2, <1>3, <1>4, WriteCases

\* A request's body stays what it is.
LEMMA JobKept == ASSUME NEW q \in Req, RequestStep(q) PROVE job' = job
<1>1. CASE ReadWallets(q)
  BY <1>1 DEF ReadWallets, LookupFrom, LookupTo, Lookup, SelectFrom, SelectTo, SelectWallet, FillFrom,
              FillTo, FillWallet
<1>2. CASE Start(q) \/ Insufficient(q) \/ Cancel(q) \/ Book(q) \/ Settle(q) \/ Record(q)
  BY <1>2 DEF Start, Insufficient, Cancel, Book, Settle, Record
<1>3. CASE Move(q) \/ Debit(q) \/ Credit(q) \/ Revert(q) \/ UndoDebit(q) \/ UndoCredit(q)
  BY <1>3 DEF Move, Debit, Credit, Revert, UndoDebit, UndoCredit, UpdateRow
<1>4. CASE Moved(q) \/ Debited(q) \/ Credited(q) \/ Reverted(q) \/ UndidDebit(q) \/ UndidCredit(q)
  BY <1>4 DEF Moved, Debited, Credited, Reverted, UndidDebit, UndidCredit, CacheRow
<1> QED BY <1>1, <1>2, <1>3, <1>4 DEF RequestStep, Serve, Transfer, Swap, Rollback

\* A read hands the request a row or a cache entry, both above the floor.
LEMMA FloorOfReads ==
    ASSUME TypeOK, StagesFit, FloorInv, NEW q \in Req, RequestStep(q)
    PROVE  HandsAbove(q)'
<1>1. "from" \in Leg /\ "to" \in Leg /\ "to" # "from" BY DEF Leg
<1>2. HandsAbove(q) /\ RowsAbove BY DEF FloorInv
<1>3. \A l \in Leg : WalletOf(q, l) \in Wallet /\ WalletOf(q, l)' = WalletOf(q, l)
  BY WalletOfIsWallet, JobKept DEF WalletOf
<1>4. ASSUME NEW l \in Leg, NEW n \in Int, AboveFloor(n + taken[WalletOf(q, l)]), taken' = taken,
             bal' = [bal EXCEPT ![q] = [@ EXCEPT ![l] = n]]
      PROVE  HandsAbove(q)'
  <2> SUFFICES ASSUME NEW k \in Leg PROVE AboveFloor(bal'[q][k] + taken[WalletOf(q, k)])
    BY <1>3, <1>4 DEF HandsAbove
  <2>1. bal'[q][k] = IF k = l THEN n ELSE bal[q][k] BY <1>4 DEF TypeOK
  <2> QED BY <1>2, <1>4, <2>1 DEF HandsAbove
<1>5. ASSUME bal' = bal PROVE HandsAbove(q)'
  <2> SUFFICES ASSUME NEW k \in Leg PROVE AboveFloor(bal[q][k] + taken'[WalletOf(q, k)])
    BY <1>3, <1>5 DEF HandsAbove
  <2>1. /\ bal[q][k] \in Int /\ AboveFloor(bal[q][k] + taken[WalletOf(q, k)])
        /\ WalletOf(q, k) \in Wallet /\ taken[WalletOf(q, k)] \in Nat
    BY <1>2, <1>3 DEF TypeOK, HandsAbove
  <2> QED BY <2>1, TakenGrows, FloorGrown
<1>6. ASSUME NEW l \in Leg, NEW h, NEW m, Lookup(q, l, h, m)
      PROVE  HandsAbove(q)'
  <2>1. CASE UNCHANGED bal BY <1>5, <2>1
  <2>2. CASE walletCache[WalletOf(q, l)] # Miss
             /\ bal' = [bal EXCEPT ![q] = [@ EXCEPT ![l] = walletCache[WalletOf(q, l)]]]
    <3>1. /\ walletCache[WalletOf(q, l)] \in Int
          /\ AboveFloor(walletCache[WalletOf(q, l)] + taken[WalletOf(q, l)])
      BY <1>2, <1>3, <2>2 DEF RowsAbove, TypeOK
    <3>2. taken' = taken BY <1>6 DEF Lookup
    <3> QED BY <1>4, <2>2, <3>1, <3>2
  <2> QED BY <1>6, <2>1, <2>2 DEF Lookup
<1>7. ASSUME NEW l \in Leg, NEW s, SelectWallet(q, l, s)
      PROVE  HandsAbove(q)'
  <2>1. CASE UNCHANGED bal BY <1>5, <2>1
  <2>2. CASE bal' = [bal EXCEPT ![q] = [@ EXCEPT ![l] = wallets[WalletOf(q, l)]]]
    <3>1. /\ wallets[WalletOf(q, l)] \in Int
          /\ AboveFloor(wallets[WalletOf(q, l)] + taken[WalletOf(q, l)])
      BY <1>2, <1>3 DEF RowsAbove, TypeOK
    <3>2. taken' = taken BY <1>7 DEF SelectWallet
    <3> QED BY <1>4, <2>2, <3>1, <3>2
  <2> QED BY <1>7, <2>1, <2>2 DEF SelectWallet
<1>8. CASE LookupFrom(q) \/ LookupTo(q) BY <1>1, <1>6, <1>8 DEF LookupFrom, LookupTo
<1>9. CASE SelectFrom(q) \/ SelectTo(q) BY <1>1, <1>7, <1>9 DEF SelectFrom, SelectTo
<1>10. CASE UNCHANGED bal BY <1>5, <1>10
<1> QED BY <1>8, <1>9, <1>10, BalChangesOnRead

LEMMA TestedOfStep ==
    ASSUME TypeOK, StagesFit, NEW q \in Req, Tested(q), RequestStep(q)
    PROVE  Tested(q)'
<1> USE DEF Tested, Covered, Goto, dbVars, TypeOK
<1>1. CASE LookupFrom(q) \/ LookupTo(q) \/ SelectFrom(q) \/ SelectTo(q)
  BY <1>1 DEF LookupFrom, LookupTo, SelectFrom, SelectTo, Lookup, SelectWallet, AfterFrom
<1>2. CASE FillFrom(q) \/ FillTo(q) BY <1>2 DEF FillFrom, FillTo, FillWallet, AfterFrom
<1>3. CASE Start(q) \/ Insufficient(q) \/ Cancel(q) \/ Settle(q) \/ Record(q)
  BY <1>3 DEF Start, Insufficient, Cancel, Settle, Record
<1>4. CASE Book(q) BY <1>4 DEF Book
<1>5. CASE Move(q) BY <1>5, UpdateOutcome DEF Move
<1>6. CASE Debit(q) BY <1>6, UpdateOutcome DEF Debit
<1>7. CASE Credit(q) \/ Revert(q) \/ UndoDebit(q) \/ UndoCredit(q)
  <2>1. CASE Credit(q) BY <2>1, UpdateOutcome DEF Credit
  <2>2. CASE Revert(q) BY <2>2, UpdateOutcome DEF Revert
  <2>3. CASE UndoDebit(q) BY <2>3, UpdateOutcome DEF UndoDebit
  <2>4. CASE UndoCredit(q) BY <2>4, UpdateOutcome DEF UndoCredit
  <2> QED BY <1>7, <2>1, <2>2, <2>3, <2>4
<1>8. CASE Moved(q) \/ Debited(q) \/ Credited(q) BY <1>8 DEF Moved, Debited, Credited, CacheRow
<1>9. CASE Reverted(q) \/ UndidDebit(q) \/ UndidCredit(q)
  BY <1>9 DEF Reverted, UndidDebit, UndidCredit, CacheRow
<1> QED BY <1>1, <1>2, <1>3, <1>4, <1>5, <1>6, <1>7, <1>8, <1>9
        DEF RequestStep, Serve, ReadWallets, Transfer, Swap, Rollback

\* Every request keeps its balances above the floor, whoever takes the step.
LEMMA StepAbove ==
    ASSUME TypeOK, StagesFit, FloorInv, NEW q \in Req, RequestStep(q), NEW p \in Req
    PROVE  HandsAbove(p)' /\ Tested(p)' /\ CreditAbove(p)'
<1>1. HandsAbove(p) /\ Tested(p) /\ CreditAbove(p) BY DEF FloorInv
<1>2. CASE p = q BY <1>1, <1>2, FloorOfReads, TestedOfStep, CreditOfStep
<1>3. CASE p # q
  <2>1. Untouched(p) BY <1>3, Frame
  <2>2. /\ \A l \in Leg : WalletOf(p, l)' = WalletOf(p, l) /\ Delta(p, l)' = Delta(p, l)
        /\ bal'[p] = bal[p] /\ pc'[p] = pc[p] /\ job' = job
    BY <2>1 DEF Untouched, WalletOf, Delta
  <2>3. \A l \in Leg : /\ bal[p][l] \in Int /\ bal[p][l] + Delta(p, l) \in Int
                       /\ WalletOf(p, l) \in Wallet /\ taken[WalletOf(p, l)] \in Nat
                       /\ taken'[WalletOf(p, l)] \in Nat
                       /\ taken'[WalletOf(p, l)] >= taken[WalletOf(p, l)]
    BY TakenGrows, DeltaIsInt, WalletOfIsWallet DEF TypeOK
  <2>4. HandsAbove(p)'
    <3> SUFFICES ASSUME NEW l \in Leg PROVE AboveFloor(bal[p][l] + taken'[WalletOf(p, l)])
      BY <2>2 DEF HandsAbove
    <3>1. AboveFloor(bal[p][l] + taken[WalletOf(p, l)]) BY <1>1 DEF HandsAbove
    <3> QED BY <2>3, <3>1, FloorGrown
  <2>5. CreditAbove(p)'
    <3> SUFFICES ASSUME pc[p] = "credited"
                 PROVE  AboveFloor((bal[p]["to"] + Delta(p, "to")) + taken'[WalletOf(p, "to")])
      BY <2>2 DEF CreditAbove, Leg
    <3>1. "to" \in Leg /\ AboveFloor((bal[p]["to"] + Delta(p, "to")) + taken[WalletOf(p, "to")])
      BY <1>1 DEF CreditAbove, Leg
    <3> QED BY <2>3, <3>1, FloorGrown
  <2>6. Tested(p)' BY <1>1, <2>2 DEF Tested, Covered
  <2> QED BY <2>4, <2>5, <2>6
<1> QED BY <1>2, <1>3

\* Whatever overlaps, fails or is rolled back, no balance falls below zero by
\* more than the fee of one withdrawal and what exchanges at a fee above 100 %
\* took from its wallet.
THEOREM OverdraftBounded == Spec => []OverdraftExplained
<1>1. Init => FloorInv
  <2> SUFFICES ASSUME Init PROVE FloorInv OBVIOUS
  <2>1. TypeOK BY InitTypeOK
  <2>2. AboveFloor(0 + 0) /\ \A n \in Nat : AboveFloor(n + 0) BY DEF AboveFloor
  <2>3. RowsAbove BY <2>2, LedgerAssumption DEF Init, RowsAbove
  <2>4. \A q \in Req : HandsAbove(q)
    <3> SUFFICES ASSUME NEW q \in Req, NEW l \in Leg
                 PROVE  AboveFloor(bal[q][l] + taken[WalletOf(q, l)])
      BY DEF HandsAbove
    <3>1. WalletOf(q, l) \in Wallet BY <2>1, WalletOfIsWallet
    <3> QED BY <2>2, <3>1 DEF Init
  <2>5. \A q \in Req : Tested(q) /\ CreditAbove(q) BY DEF Init, Tested, CreditAbove
  <2> QED BY <2>3, <2>4, <2>5 DEF FloorInv
<1>2. TypeOK /\ StagesFit /\ FloorInv /\ [Next]_vars => FloorInv'
  <2> SUFFICES ASSUME TypeOK, StagesFit, FloorInv, [Next]_vars PROVE FloorInv' OBVIOUS
  <2>1. ASSUME NEW q \in Req, RequestStep(q) PROVE FloorInv'
    BY <2>1, FloorOfWrites, StepAbove DEF FloorInv
  <2>2. ASSUME UNCHANGED <<wallets, walletCache, pc, job, bal, taken>> PROVE FloorInv'
    BY <2>2 DEF FloorInv, RowsAbove, HandsAbove, Tested, CreditAbove, Covered, WalletOf, Delta, AboveFloor
  <2>3. ASSUME NEW v \in Reader, ReaderStep(v) PROVE FloorInv'
    BY <2>2, <2>3 DEF ReaderStep, ListSelect, ListFill, ListMiss, dbVars
  <2>4. CASE Restart
    <3>1. RowsAbove' BY <2>4 DEF Restart, dbVars, FloorInv, RowsAbove
    <3>2. \A q \in Req : pc'[q] = "dead" \/ pc'[q] = pc[q] BY <2>4 DEF Restart
    <3>3. ASSUME NEW q \in Req PROVE HandsAbove(q)' /\ Tested(q)' /\ CreditAbove(q)'
      BY <2>4, <3>2 DEF Restart, FloorInv, HandsAbove, Tested, CreditAbove, Covered, WalletOf, Delta,
                        AboveFloor
    <3> QED BY <3>1, <3>3 DEF FloorInv
  <2>5. CASE UNCHANGED vars BY <2>2, <2>5 DEF vars
  <2> QED BY <2>1, <2>3, <2>4, <2>5 DEF Next, RequestStep, ReaderStep
<1>3. FloorInv => OverdraftExplained BY DEF FloorInv, RowsAbove, HandsAbove, OverdraftExplained
<1> QED BY <1>1, <1>2, <1>3, TypeCorrect, StagesCorrect, PTL DEF Spec

-------------------------------------------------------------------------------
(* The cache and the rows.                                                 *)

\* A request has the balance of its wallet l and may still act on it.
HasRead(q, l) == IF l = "from" THEN pc[q] \in FromSpan \ {"select"}
                               ELSE pc[q] \in ToSpan \ {"selectTo"}

WritingStages(l) == IF l = "from" THEN FromWriting ELSE ToWriting

\* On a wallet that was not shared, what was read and done is what the row has.
ReadsFresh ==
    \A q \in Req, l \in Leg :
        HasRead(q, l) /\ WalletOf(q, l) \notin dirty => wallets[WalletOf(q, l)] = Current(q, l)

SoleUser ==
    \A w \in Wallet \ dirty : \A p, q \in Req : p # q => ~(Using(p, w) /\ Using(q, w))

CoherenceInv == CacheTrueWithoutOverlap /\ ReadsFresh /\ SoleUser

(* The four kinds of steps a request takes.                                *)

QuietStep(q) ==
    /\ \/ pc[q] \notin FromWriting \cup ToWriting /\ pc'[q] \notin FromWriting \cup ToWriting
       \/ pc'[q] = pc[q]
    /\ dirty \subseteq dirty'
    /\ UNCHANGED <<wallets, walletCache, listCache, moved, job, view, lost, listStale>>

FillStep(q, l) ==
    /\ pc[q] = (IF l = "from" THEN "fill" ELSE "fillTo")
    /\ pc'[q] \notin FromWriting \cup ToWriting
    /\ SetWallet(WalletOf(q, l), Current(q, l))
    /\ UNCHANGED <<wallets, bal, moved, job, view, dirty, lost>>

UpdateStep(q, l) ==
    \E m \in SUBSET Leg, s \in WritingStages(l), t \in Stage \ (FromWriting \cup ToWriting) :
        /\ pc[q] \in (IF l = "from" THEN {"move", "debit", "revert", "undoDebit"}
                                   ELSE {"credit", "undoCredit"})
        /\ m \ {l} = moved[q] \ {l}
        /\ UpdateRow(q, l, IF l \in m THEN bal[q][l] + Delta(q, l) ELSE bal[q][l], m, s, t)

CacheStep(q, l) ==
    /\ pc[q] \in WritingStages(l)
    /\ pc'[q] \notin FromWriting \cup ToWriting
    /\ SetWallet(WalletOf(q, l), Current(q, l))
    /\ UNCHANGED <<wallets, bal, moved, job, view, dirty, lost>>

LEMMA StepKinds ==
    ASSUME TypeOK, StagesFit, NEW q \in Req, RequestStep(q)
    PROVE  QuietStep(q) \/ \E l \in Leg : FillStep(q, l) \/ UpdateStep(q, l) \/ CacheStep(q, l)
<1>1. "from" \in Leg /\ "to" \in Leg /\ "to" # "from" BY DEF Leg
<1>2. StageFits(q) BY DEF StagesFit
<1>3. \A s : Goto(q, s) => pc'[q] = s BY DEF Goto, TypeOK
<1>4. {"error", "revert", "undoCredit"} \subseteq Stage \ (FromWriting \cup ToWriting)
  BY DEF Stage, FromSpan, ToSpan, FromWriting, ToWriting, Ended
<1>5. {"from"} \in SUBSET Leg /\ {"from", "to"} \in SUBSET Leg
      /\ moved[q] \ {"from"} \in SUBSET Leg /\ moved[q] \ {"to"} \in SUBSET Leg
  BY DEF Leg, TypeOK
<1>6. CASE LookupFrom(q) \/ SelectFrom(q) \/ LookupTo(q) \/ SelectTo(q)
  <2> QED BY <1>3, <1>6 DEF LookupFrom, SelectFrom, LookupTo, SelectTo, Lookup, SelectWallet, dbVars,
                   QuietStep, FromWriting, ToWriting, AfterFrom
<1>7. CASE Start(q) \/ Insufficient(q) \/ Cancel(q) \/ Book(q) \/ Settle(q) \/ Record(q)
  <2>1. CASE Start(q) BY <1>3, <2>1 DEF Start, dbVars, QuietStep, FromWriting, ToWriting
  <2>2. CASE Insufficient(q) BY <1>3, <2>2 DEF Insufficient, dbVars, QuietStep, FromWriting, ToWriting
  <2>3. CASE Cancel(q)
    BY <2>3 DEF Cancel, dbVars, QuietStep
  <2>4. CASE Book(q) BY <1>3, <2>4 DEF Book, QuietStep, FromWriting, ToWriting
  <2>5. CASE Settle(q) BY <1>3, <2>5 DEF Settle, QuietStep, FromWriting, ToWriting
  <2>6. CASE Record(q) BY <1>3, <2>6 DEF Record, QuietStep, FromWriting, ToWriting
  <2> QED BY <1>7, <2>1, <2>2, <2>3, <2>4, <2>5, <2>6
<1>8. CASE FillFrom(q)
  <2>1. moved[q] = {} BY <1>2, <1>8 DEF FillFrom, StageFits, Reading
  <2> QED BY <1>1, <1>3, <1>8, <2>1
          DEF FillFrom, FillWallet, FillStep, Current, AfterFrom, FromWriting, ToWriting, dbVars
<1>9. CASE FillTo(q)
  <2>1. moved[q] = {} BY <1>2, <1>9 DEF FillTo, StageFits, Reading
  <2> QED BY <1>1, <1>3, <1>9, <2>1
          DEF FillTo, FillWallet, FillStep, Current, FromWriting, ToWriting, dbVars
<1>10. CASE Move(q)
  <2>1. moved[q] = {} BY <1>2, <1>10 DEF Move, StageFits
  <2>2. {"from"} \ {"from"} = {} \ {"from"} /\ "from" \in {"from"} OBVIOUS
  <2>3. "moved" \in WritingStages("from") BY DEF WritingStages, FromWriting
  <2>4. UpdateStep(q, "from") BY <1>4, <1>5, <1>10, <2>1, <2>2, <2>3 DEF Move, UpdateStep
  <2> QED BY <1>1, <2>4
<1>11. CASE Debit(q)
  <2>1. moved[q] = {} BY <1>2, <1>11 DEF Debit, StageFits, Reading
  <2>2. {"from"} \ {"from"} = {} \ {"from"} /\ "from" \in {"from"} OBVIOUS
  <2>3. "debited" \in WritingStages("from") BY DEF WritingStages, FromWriting
  <2>4. UpdateStep(q, "from") BY <1>4, <1>5, <1>11, <2>1, <2>2, <2>3 DEF Debit, UpdateStep
  <2> QED BY <1>1, <2>4
<1>12. CASE Credit(q)
  <2>1. moved[q] = {"from"} BY <1>2, <1>12 DEF Credit, StageFits
  <2>2. {"from", "to"} \ {"to"} = {"from"} \ {"to"} /\ "to" \in {"from", "to"} OBVIOUS
  <2>3. "credited" \in WritingStages("to") BY DEF WritingStages, ToWriting
  <2>4. UpdateStep(q, "to") BY <1>1, <1>4, <1>5, <1>12, <2>1, <2>2, <2>3 DEF Credit, UpdateStep
  <2> QED BY <1>1, <2>4
<1>13. CASE Revert(q)
  <2>1. (moved[q] \ {"from"}) \ {"from"} = moved[q] \ {"from"} /\ "from" \notin moved[q] \ {"from"} OBVIOUS
  <2>2. "reverted" \in WritingStages("from") BY DEF WritingStages, FromWriting
  <2>3. UpdateStep(q, "from") BY <1>4, <1>5, <1>13, <2>1, <2>2 DEF Revert, UpdateStep
  <2> QED BY <1>1, <2>3
<1>14. CASE UndoDebit(q)
  <2>1. (moved[q] \ {"from"}) \ {"from"} = moved[q] \ {"from"} /\ "from" \notin moved[q] \ {"from"} OBVIOUS
  <2>2. "undidDebit" \in WritingStages("from") BY DEF WritingStages, FromWriting
  <2>3. UpdateStep(q, "from") BY <1>4, <1>5, <1>14, <2>1, <2>2 DEF UndoDebit, UpdateStep
  <2> QED BY <1>1, <2>3
<1>15. CASE UndoCredit(q)
  <2>1. (moved[q] \ {"to"}) \ {"to"} = moved[q] \ {"to"} /\ "to" \notin moved[q] \ {"to"} OBVIOUS
  <2>2. "undidCredit" \in WritingStages("to") BY DEF WritingStages, ToWriting
  <2>3. UpdateStep(q, "to") BY <1>1, <1>4, <1>5, <1>15, <2>1, <2>2 DEF UndoCredit, UpdateStep
  <2> QED BY <1>1, <2>3
<1> USE DEF CacheRow, CacheStep, Current, WritingStages, FromWriting, ToWriting, dbVars
<1>16. CASE Moved(q)
  <2>1. "from" \in moved[q] BY <1>2, <1>16 DEF Moved, StageFits
  <2> QED BY <1>1, <1>3, <1>16, <2>1 DEF Moved
<1>17. CASE Debited(q)
  <2>1. "from" \in moved[q] BY <1>2, <1>17 DEF Debited, StageFits
  <2> QED BY <1>1, <1>3, <1>17, <2>1 DEF Debited
<1>18. CASE Credited(q)
  <2>1. "to" \in moved[q] BY <1>2, <1>18 DEF Credited, StageFits
  <2> QED BY <1>1, <1>3, <1>18, <2>1 DEF Credited
<1>19. CASE Reverted(q)
  <2>1. "from" \notin moved[q] BY <1>2, <1>19 DEF Reverted, StageFits
  <2> QED BY <1>1, <1>3, <1>19, <2>1 DEF Reverted
<1>20. CASE UndidDebit(q)
  <2>1. "from" \notin moved[q] BY <1>2, <1>20 DEF UndidDebit, StageFits
  <2> QED BY <1>1, <1>3, <1>20, <2>1 DEF UndidDebit
<1>21. CASE UndidCredit(q)
  <2>1. "to" \notin moved[q] BY <1>2, <1>21 DEF UndidCredit, StageFits
  <2> QED BY <1>1, <1>3, <1>21, <2>1 DEF UndidCredit
<1> QED BY <1>6, <1>7, <1>8, <1>9, <1>10, <1>11, <1>12, <1>13, <1>14, <1>15, <1>16, <1>17, <1>18,
           <1>19, <1>20, <1>21
        DEF RequestStep, Serve, ReadWallets, Transfer, Swap, Rollback

Reads(q) == LookupFrom(q) \/ LookupTo(q) \/ SelectFrom(q) \/ SelectTo(q)

LEMMA SpansOfStep ==
    ASSUME TypeOK, StagesFit, NEW q \in Req, RequestStep(q)
    PROVE  /\ pc'[q] \in FromSpan => pc[q] \in FromSpan \/ LookupFrom(q)
           /\ pc'[q] \in ToSpan => pc[q] \in ToSpan \/ LookupTo(q)
           /\ ~Reads(q) /\ pc'[q] \in FromSpan \ {"select"} => pc[q] \in FromSpan \ {"select"}
           /\ ~Reads(q) /\ pc'[q] \in ToSpan \ {"selectTo"} => pc[q] \in ToSpan \ {"selectTo"}
<1> USE DEF FromSpan, ToSpan, FromWriting, ToWriting
<1>1. \A s : Goto(q, s) => pc'[q] = s BY DEF Goto, TypeOK
<1>2. StageFits(q) BY DEF StagesFit
<1>3. CASE LookupFrom(q) BY <1>1, <1>2, <1>3 DEF LookupFrom, Lookup, AfterFrom, Reads, StageFits
<1>4. CASE LookupTo(q) BY <1>1, <1>4 DEF LookupTo, Lookup, Reads
<1>5. CASE SelectFrom(q) BY <1>1, <1>5 DEF SelectFrom, SelectWallet, Reads
<1>6. CASE SelectTo(q) BY <1>1, <1>6 DEF SelectTo, SelectWallet, Reads
<1>7. CASE FillFrom(q) BY <1>1, <1>7 DEF FillFrom, FillWallet, AfterFrom
<1>8. CASE FillTo(q) BY <1>1, <1>8 DEF FillTo, FillWallet
<1>9. CASE Start(q) BY <1>1, <1>9 DEF Start
<1>10. CASE Insufficient(q) BY <1>1, <1>10 DEF Insufficient
<1>11. CASE Cancel(q) BY <1>11 DEF Cancel
<1>12. CASE Book(q) BY <1>1, <1>12 DEF Book
<1>13. CASE Settle(q) BY <1>1, <1>13 DEF Settle
<1>14. CASE Record(q) BY <1>1, <1>14 DEF Record
<1>15. CASE Move(q) BY <1>15, UpdateOutcome DEF Move
<1>16. CASE Debit(q) BY <1>16, UpdateOutcome DEF Debit
<1>17. CASE Credit(q) BY <1>17, UpdateOutcome DEF Credit
<1>18. CASE Revert(q) BY <1>18, UpdateOutcome DEF Revert
<1>19. CASE UndoDebit(q) BY <1>19, UpdateOutcome DEF UndoDebit
<1>20. CASE UndoCredit(q) BY <1>20, UpdateOutcome DEF UndoCredit
<1>21. CASE Moved(q) BY <1>1, <1>21 DEF Moved, CacheRow
<1>22. CASE Debited(q) BY <1>1, <1>22 DEF Debited, CacheRow
<1>23. CASE Credited(q) BY <1>1, <1>23 DEF Credited, CacheRow
<1>24. CASE Reverted(q) BY <1>1, <1>24 DEF Reverted, CacheRow
<1>25. CASE UndidDebit(q) BY <1>1, <1>25 DEF UndidDebit, CacheRow
<1>26. CASE UndidCredit(q) BY <1>1, <1>26 DEF UndidCredit, CacheRow
<1> QED BY <1>3, <1>4, <1>5, <1>6, <1>7, <1>8, <1>9, <1>10, <1>11, <1>12, <1>13, <1>14, <1>15,
           <1>16, <1>17, <1>18, <1>19, <1>20, <1>21, <1>22, <1>23, <1>24, <1>25, <1>26
        DEF RequestStep, Serve, ReadWallets, Transfer, Swap, Rollback

\* A wallet the request starts to use while another uses it becomes dirty.
LEMMA LookMarks ==
    ASSUME NEW q \in Req, NEW p \in Req \ {q}, NEW l \in Leg, NEW h, NEW m, Lookup(q, l, h, m),
           Using(p, WalletOf(q, l))
    PROVE  WalletOf(q, l) \in dirty'
BY DEF Lookup

LEMMA DirtyGrows ==
    ASSUME TypeOK, StagesFit, NEW q \in Req, RequestStep(q) PROVE dirty \subseteq dirty' /\ job' = job
<1>1. ASSUME NEW l \in Leg, UpdateStep(q, l) PROVE dirty \subseteq dirty' /\ job' = job
  BY <1>1 DEF UpdateStep, UpdateRow
<1> QED BY <1>1, StepKinds DEF QuietStep, FillStep, CacheStep

LEMMA SoleUserKept ==
    ASSUME TypeOK, StagesFit, CoherenceInv, NEW q \in Req, RequestStep(q) PROVE SoleUser'
<1> SUFFICES ASSUME NEW w \in Wallet, w \notin dirty', NEW p1 \in Req, NEW p2 \in Req, p1 # p2,
                    Using(p1, w)', Using(p2, w)'
             PROVE  FALSE
  BY DEF SoleUser
<1>1. w \notin dirty /\ job' = job BY DirtyGrows
<1>2. \A p \in Req \ {q} : Using(p, w)' => Using(p, w) BY Frame DEF Untouched, Using
<1>3. Using(q, w)' => Using(q, w) \/ (LookupFrom(q) /\ w = WalletOf(q, "from"))
                                 \/ (LookupTo(q) /\ w = WalletOf(q, "to"))
  BY <1>1, SpansOfStep DEF Using, WalletOf
<1>4. ~Using(p1, w) \/ ~Using(p2, w) BY <1>1 DEF CoherenceInv, SoleUser
<1>5. ASSUME NEW p \in Req \ {q}, Using(p, w), Using(q, w)', ~Using(q, w) PROVE FALSE
  <2>1. "from" \in Leg /\ "to" \in Leg BY DEF Leg
  <2>2. CASE LookupFrom(q) /\ w = WalletOf(q, "from") BY <1>5, <2>1, <2>2, LookMarks DEF LookupFrom
  <2>3. CASE LookupTo(q) /\ w = WalletOf(q, "to") BY <1>5, <2>1, <2>3, LookMarks DEF LookupTo
  <2> QED BY <1>3, <1>5, <2>2, <2>3
<1> QED BY <1>2, <1>4, <1>5

LEMMA UsesWhatItHas ==
    ASSUME NEW q \in Req, NEW l \in Leg, HasRead(q, l) PROVE Using(q, WalletOf(q, l))
BY DEF HasRead, Using, WalletOf, Leg

LEMMA WriterUses == ASSUME NEW q \in Req, NEW w, Writing(q, w) PROVE Using(q, w)
BY DEF Writing, Using, FromSpan, ToSpan, FromWriting, ToWriting

\* Only an UpdateStep of q on wallet w changes row w.
LEMMA RowsKept ==
    ASSUME TypeOK, StagesFit, NEW q \in Req, RequestStep(q), NEW w \in Wallet,
           \A l \in Leg : UpdateStep(q, l) => WalletOf(q, l) # w
    PROVE  wallets'[w] = wallets[w]
<1>1. ASSUME NEW l \in Leg, UpdateStep(q, l) PROVE wallets'[w] = wallets[w]
  BY <1>1 DEF UpdateStep, UpdateRow, TypeOK
<1> QED BY <1>1, StepKinds DEF QuietStep, FillStep, CacheStep

LEMMA UpdaterUses ==
    ASSUME NEW q \in Req, NEW l \in Leg, UpdateStep(q, l)
    PROVE  Using(q, WalletOf(q, l)) /\ ~\E w : Writing(q, w)
BY DEF UpdateStep, Using, Writing, WalletOf, FromSpan, ToSpan, FromWriting, ToWriting, Leg

LEMMA OthersReadsFresh ==
    ASSUME TypeOK, StagesFit, CoherenceInv, NEW q \in Req, RequestStep(q), NEW p \in Req \ {q},
           NEW l \in Leg, HasRead(p, l)', WalletOf(p, l)' \notin dirty'
    PROVE  (wallets[WalletOf(p, l)] = Current(p, l))'
<1>1. Untouched(p) BY Frame
<1>2. HasRead(p, l) /\ WalletOf(p, l)' = WalletOf(p, l) /\ Current(p, l)' = Current(p, l)
  BY <1>1 DEF Untouched, HasRead, WalletOf, Current, Delta
<1>3. WalletOf(p, l) \in Wallet \ dirty BY <1>2, DirtyGrows, WalletOfIsWallet
<1>4. wallets[WalletOf(p, l)] = Current(p, l) BY <1>2, <1>3 DEF CoherenceInv, ReadsFresh
<1>5. Using(p, WalletOf(p, l)) BY <1>2, UsesWhatItHas
<1>6. \A m \in Leg : UpdateStep(q, m) => WalletOf(q, m) # WalletOf(p, l)
  BY <1>3, <1>5, UpdaterUses DEF CoherenceInv, SoleUser
<1>7. wallets'[WalletOf(p, l)] = wallets[WalletOf(p, l)] BY <1>3, <1>6, RowsKept
<1> QED BY <1>2, <1>4, <1>7

\* A hit on an unshared wallet returns what the row has.
LEMMA HitIsFresh ==
    ASSUME TypeOK, CoherenceInv, NEW q \in Req, NEW l \in Leg, NEW h, NEW m, Lookup(q, l, h, m),
           pc[q] \notin FromWriting \cup ToWriting, WalletOf(q, l) \notin dirty',
           walletCache[WalletOf(q, l)] # Miss
    PROVE  walletCache[WalletOf(q, l)] = wallets[WalletOf(q, l)]
<1>1. WalletOf(q, l) \in Wallet \ dirty BY WalletOfIsWallet DEF Lookup
<1>2. \A p \in Req \ {q} : ~Using(p, WalletOf(q, l)) BY LookMarks
<1>3. \A p \in Req : ~Writing(p, WalletOf(q, l)) BY <1>2, WriterUses DEF Writing
<1> QED BY <1>1, <1>3 DEF CoherenceInv, CacheTrueWithoutOverlap

LEMMA OwnReadFresh ==
    ASSUME TypeOK, StagesFit, CoherenceInv, NEW q \in Req, Reads(q), NEW l \in Leg, HasRead(q, l)',
           WalletOf(q, l)' \notin dirty'
    PROVE  (wallets[WalletOf(q, l)] = Current(q, l))'
<1> USE DEF HasRead, FromSpan, ToSpan, FromWriting, ToWriting, Leg
<1>1. \A s : Goto(q, s) => pc'[q] = s BY DEF Goto, TypeOK
<1>2. job' = job /\ wallets' = wallets /\ moved' = moved /\ WalletOf(q, l)' = WalletOf(q, l)
  BY DEF Reads, LookupFrom, LookupTo, SelectFrom, SelectTo, Lookup, SelectWallet, dbVars, WalletOf
<1>3. moved[q] = {} BY DEF StagesFit, StageFits, Reading, Reads, LookupFrom, LookupTo, SelectFrom, SelectTo
<1>4. Current(q, l)' = bal'[q][l] /\ Current(q, l) = bal[q][l] BY <1>2, <1>3 DEF Current
<1>5. dirty \subseteq dirty'
  BY DEF Reads, LookupFrom, LookupTo, SelectFrom, SelectTo, Lookup, SelectWallet
<1>6. HasRead(q, l) /\ bal'[q][l] = bal[q][l] => wallets[WalletOf(q, l)] = bal'[q][l]
  BY <1>2, <1>4, <1>5 DEF CoherenceInv, ReadsFresh
<1>7. CASE LookupFrom(q)
  <2>1. l = "from" /\ walletCache[WalletOf(q, l)] # Miss
    BY <1>1, <1>7 DEF LookupFrom, Lookup, AfterFrom
  <2>2. bal'[q][l] = walletCache[WalletOf(q, l)] BY <1>7, <2>1 DEF LookupFrom, Lookup, TypeOK
  <2>3. walletCache[WalletOf(q, l)] = wallets[WalletOf(q, l)]
    BY <1>2, <1>7, <2>1, HitIsFresh DEF LookupFrom
  <2> QED BY <1>2, <1>4, <2>2, <2>3
<1>8. CASE LookupTo(q)
  <2>1. CASE l = "from"
    <3>1. bal'[q][l] = bal[q][l] BY <1>8, <2>1 DEF LookupTo, Lookup, TypeOK
    <3>2. HasRead(q, l) BY <1>8, <2>1 DEF LookupTo
    <3> QED BY <1>2, <1>4, <1>6, <3>1, <3>2
  <2>2. CASE l = "to"
    <3>1. walletCache[WalletOf(q, l)] # Miss BY <1>1, <1>8, <2>2 DEF LookupTo, Lookup
    <3>2. bal'[q][l] = walletCache[WalletOf(q, l)] BY <1>8, <2>2, <3>1 DEF LookupTo, Lookup, TypeOK
    <3>3. walletCache[WalletOf(q, l)] = wallets[WalletOf(q, l)]
      BY <1>2, <1>8, <2>2, <3>1, HitIsFresh DEF LookupTo
    <3> QED BY <1>2, <1>4, <3>2, <3>3
  <2> QED BY <2>1, <2>2
<1>9. CASE SelectFrom(q)
  <2>1. l = "from" /\ pc'[q] # "error" BY <1>1, <1>9 DEF SelectFrom, SelectWallet
  <2>2. bal'[q][l] = wallets[WalletOf(q, l)] BY <1>1, <1>9, <2>1 DEF SelectFrom, SelectWallet, TypeOK
  <2> QED BY <1>2, <1>4, <2>2
<1>10. CASE SelectTo(q)
  <2>1. pc'[q] # "error" OBVIOUS
  <2>2. bal' = [bal EXCEPT ![q] = [@ EXCEPT !["to"] = wallets[WalletOf(q, "to")]]]
    BY <1>1, <1>10, <2>1 DEF SelectTo, SelectWallet
  <2>3. CASE l = "from"
    <3>1. bal'[q][l] = bal[q][l] BY <2>2, <2>3 DEF TypeOK
    <3>2. HasRead(q, l) BY <1>10, <2>3 DEF SelectTo
    <3> QED BY <1>2, <1>4, <1>6, <3>1, <3>2
  <2>4. CASE l = "to"
    <3>1. bal'[q][l] = wallets[WalletOf(q, l)] BY <2>2, <2>4 DEF TypeOK
    <3> QED BY <1>2, <1>4, <3>1
  <2> QED BY <2>3, <2>4
<1> QED BY <1>7, <1>8, <1>9, <1>10 DEF Reads

LEMMA OwnWriteFresh ==
    ASSUME TypeOK, StagesFit, CoherenceInv, NEW q \in Req, RequestStep(q), ~Reads(q), NEW l \in Leg,
           HasRead(q, l)', WalletOf(q, l)' \notin dirty'
    PROVE  (wallets[WalletOf(q, l)] = Current(q, l))'
<1>1. job' = job /\ dirty \subseteq dirty' /\ bal' = bal BY DirtyGrows, BalChangesOnRead DEF Reads
<1>2. WalletOf(q, l)' = WalletOf(q, l) /\ Delta(q, l)' = Delta(q, l) BY <1>1 DEF WalletOf, Delta
<1>3. HasRead(q, l) BY SpansOfStep DEF HasRead
<1>4. wallets[WalletOf(q, l)] = Current(q, l) BY <1>1, <1>2, <1>3 DEF CoherenceInv, ReadsFresh
<1>5. CASE wallets' = wallets /\ moved' = moved BY <1>1, <1>2, <1>4, <1>5 DEF Current
<1>6. ASSUME NEW k \in Leg, UpdateStep(q, k) PROVE (wallets[WalletOf(q, l)] = Current(q, l))'
  <2>1. PICK m \in SUBSET Leg, s \in WritingStages(k), t \in Stage :
           /\ m \ {k} = moved[q] \ {k}
           /\ UpdateRow(q, k, IF k \in m THEN bal[q][k] + Delta(q, k) ELSE bal[q][k], m, s, t)
    BY <1>6 DEF UpdateStep
  <2>2. CASE wallets' = wallets /\ moved' = moved BY <1>5, <2>2
  <2>3. CASE /\ wallets' = [wallets EXCEPT ![WalletOf(q, k)] = IF k \in m THEN bal[q][k] + Delta(q, k)
                                                                           ELSE bal[q][k]]
             /\ moved' = [moved EXCEPT ![q] = m]
    <3>1. moved'[q] = m BY <2>3 DEF TypeOK
    <3>2. CASE k = l
      <4>1. wallets'[WalletOf(q, l)] = IF l \in m THEN bal[q][l] + Delta(q, l) ELSE bal[q][l]
        BY <2>3, <3>2, WalletOfIsWallet DEF TypeOK
      <4> QED BY <1>1, <1>2, <3>1, <4>1 DEF Current
    <3>3. CASE k # l
      <4>1. job[q].op = "exchange"
        BY <1>3, <1>6, <3>3 DEF HasRead, UpdateStep, StagesFit, StageFits, Swapping, FromSpan, ToSpan,
                                FromWriting, ToWriting, Leg
      <4>2. job[q].from # job[q].to BY <4>1, LedgerAssumption DEF ExchangeAssumption, TypeOK
      <4>3. WalletOf(q, k) # WalletOf(q, l) BY <3>3, <4>2 DEF WalletOf, Leg
      <4>4. wallets'[WalletOf(q, l)] = wallets[WalletOf(q, l)]
        BY <2>3, <4>3, WalletOfIsWallet DEF TypeOK
      <4>5. l \in m <=> l \in moved[q] BY <2>1, <3>3
      <4>6. Current(q, l)' = Current(q, l) BY <1>1, <1>2, <3>1, <4>5 DEF Current
      <4> QED BY <1>2, <1>4, <4>4, <4>6
    <3> QED BY <3>2, <3>3
  <2> QED BY <2>1, <2>2, <2>3 DEF UpdateRow
<1> QED BY <1>5, <1>6, StepKinds DEF QuietStep, FillStep, CacheStep

LEMMA ReadsFreshKept ==
    ASSUME TypeOK, StagesFit, CoherenceInv, NEW q \in Req, RequestStep(q) PROVE ReadsFresh'
<1>1. ASSUME NEW p \in Req, NEW l \in Leg, HasRead(p, l)', WalletOf(p, l)' \notin dirty'
      PROVE  (wallets[WalletOf(p, l)] = Current(p, l))'
  <2>1. CASE p # q BY <1>1, <2>1, OthersReadsFresh
  <2>2. CASE p = q /\ Reads(q) BY <1>1, <2>2, OwnReadFresh
  <2>3. CASE p = q /\ ~Reads(q) BY <1>1, <2>3, OwnWriteFresh
  <2> QED BY <2>1, <2>2, <2>3
<1> QED BY <1>1 DEF ReadsFresh

\* A step that puts into the cache what the request believes its row has.
LEMMA SetTruth ==
    ASSUME TypeOK, CoherenceInv, NEW q \in Req, NEW l \in Leg, HasRead(q, l),
           SetWallet(WalletOf(q, l), Current(q, l)), wallets' = wallets, dirty' = dirty,
           NEW w \in Wallet \ dirty', w # WalletOf(q, l) => walletCache[w] \in {Miss, wallets[w]}
    PROVE  walletCache'[w] \in {Miss, wallets'[w]}
<1>1. CASE w = WalletOf(q, l)
  <2>1. walletCache'[w] = Current(q, l) BY <1>1 DEF SetWallet, TypeOK
  <2>2. wallets[w] = Current(q, l) BY <1>1 DEF CoherenceInv, ReadsFresh
  <2> QED BY <2>1, <2>2
<1>2. CASE w # WalletOf(q, l)
  <2>1. walletCache'[w] = walletCache[w] BY <1>2 DEF SetWallet, TypeOK
  <2> QED BY <1>2, <2>1
<1> QED BY <1>1, <1>2

LEMMA CacheTrueKept ==
    ASSUME TypeOK, StagesFit, CoherenceInv, NEW q \in Req, RequestStep(q)
    PROVE  CacheTrueWithoutOverlap'
<1> SUFFICES ASSUME NEW w \in Wallet, w \notin dirty', \A p \in Req : ~Writing(p, w)'
             PROVE  walletCache'[w] \in {Miss, wallets'[w]}
  BY DEF CacheTrueWithoutOverlap
<1>1. w \notin dirty /\ job' = job BY DirtyGrows
<1>2. \A p \in Req \ {q} : ~Writing(p, w) BY Frame DEF Untouched, Writing
<1>3. ~Writing(q, w) => walletCache[w] \in {Miss, wallets[w]}
  BY <1>1, <1>2 DEF CoherenceInv, CacheTrueWithoutOverlap
<1>4. CASE QuietStep(q)
  <2>1. ~Writing(q, w) BY <1>1, <1>4 DEF QuietStep, Writing
  <2> QED BY <1>3, <1>4, <2>1 DEF QuietStep
<1>5. ASSUME NEW l \in Leg, FillStep(q, l) PROVE walletCache'[w] \in {Miss, wallets'[w]}
  <2>1. HasRead(q, l) BY <1>5 DEF FillStep, HasRead, FromSpan, ToSpan, Leg
  <2>2. ~Writing(q, w) BY <1>5 DEF FillStep, Writing, FromWriting, ToWriting
  <2> QED BY <1>3, <1>5, <2>1, <2>2, SetTruth DEF FillStep
<1>6. ASSUME NEW l \in Leg, UpdateStep(q, l) PROVE walletCache'[w] \in {Miss, wallets'[w]}
  <2>1. walletCache[w] \in {Miss, wallets[w]} BY <1>3, <1>6, UpdaterUses
  <2>2. walletCache' = walletCache BY <1>6 DEF UpdateStep, UpdateRow
  <2>3. CASE WalletOf(q, l) # w \/ wallets' = wallets
    <3>1. wallets'[w] = wallets[w] BY <1>6, <2>3 DEF UpdateStep, UpdateRow, TypeOK
    <3> QED BY <2>1, <2>2, <3>1
  <2>4. CASE WalletOf(q, l) = w /\ wallets' # wallets
    <3>1. pc'[q] \in WritingStages(l)
      BY <1>6, <2>4 DEF UpdateStep, UpdateRow, Goto, TypeOK
    <3>2. Writing(q, w)' BY <1>1, <2>4, <3>1 DEF Writing, WritingStages, WalletOf, Leg
    <3> QED BY <3>2
  <2> QED BY <2>3, <2>4
<1>7. ASSUME NEW l \in Leg, CacheStep(q, l) PROVE walletCache'[w] \in {Miss, wallets'[w]}
  <2>1. HasRead(q, l)
    BY <1>7 DEF CacheStep, WritingStages, HasRead, FromSpan, ToSpan, FromWriting, ToWriting, Leg
  <2>2. w # WalletOf(q, l) => ~Writing(q, w)
    BY <1>7 DEF CacheStep, WritingStages, Writing, WalletOf, FromWriting, ToWriting, Leg
  <2> QED BY <1>3, <1>7, <2>1, <2>2, SetTruth DEF CacheStep
<1> QED BY <1>4, <1>5, <1>6, <1>7, StepKinds

LEMMA CoherenceOfReaders ==
    ASSUME CoherenceInv, NEW v \in Reader, ReaderStep(v) PROVE CoherenceInv'
<1>1. UNCHANGED <<wallets, walletCache, pc, job, bal, moved, dirty>>
  BY DEF ReaderStep, ListSelect, ListFill, ListMiss, dbVars
<1> QED BY <1>1 DEF CoherenceInv, CacheTrueWithoutOverlap, ReadsFresh, SoleUser, HasRead, Using,
                    Writing, Current, WalletOf, Delta

LEMMA CoherenceOfRestart == ASSUME TypeOK, Restart PROVE CoherenceInv'
<1>1. \A q \in Req : pc'[q] \in Idle \cup Ended BY DEF Restart, Ended
<1>2. \A q \in Req : pc'[q] \notin FromSpan \cup ToSpan
  BY <1>1 DEF FromSpan, ToSpan, FromWriting, ToWriting, Idle, Ended
<1>3. \A w \in Wallet : walletCache'[w] = Miss BY DEF Restart
<1>4. CacheTrueWithoutOverlap' BY <1>3 DEF CacheTrueWithoutOverlap
<1>5. ReadsFresh' BY <1>2 DEF ReadsFresh, HasRead
<1>6. SoleUser' BY <1>2 DEF SoleUser, Using
<1> QED BY <1>4, <1>5, <1>6 DEF CoherenceInv

\* CoherenceInv is the inductive invariant behind the two theorems below.
THEOREM Coherent == Spec => []CoherenceInv
<1>1. Init => CoherenceInv
  BY DEF Init, CoherenceInv, CacheTrueWithoutOverlap, ReadsFresh, SoleUser, HasRead, Using,
         FromSpan, ToSpan, FromWriting, ToWriting
<1>2. TypeOK /\ StagesFit /\ CoherenceInv /\ [Next]_vars => CoherenceInv'
  <2> SUFFICES ASSUME TypeOK, StagesFit, CoherenceInv, [Next]_vars PROVE CoherenceInv' OBVIOUS
  <2>1. ASSUME NEW q \in Req, RequestStep(q) PROVE CoherenceInv'
    BY <2>1, SoleUserKept, ReadsFreshKept, CacheTrueKept DEF CoherenceInv
  <2>2. ASSUME NEW v \in Reader, ReaderStep(v) PROVE CoherenceInv' BY <2>2, CoherenceOfReaders
  <2>3. CASE Restart BY <2>3, CoherenceOfRestart
  <2>4. CASE UNCHANGED vars
    BY <2>4 DEF vars, CoherenceInv, CacheTrueWithoutOverlap, ReadsFresh, SoleUser, HasRead, Using,
                Writing, Current, WalletOf, Delta
  <2> QED BY <2>1, <2>2, <2>3, <2>4 DEF Next, RequestStep, ReaderStep
<1> QED BY <1>1, <1>2, TypeCorrect, StagesCorrect, PTL DEF Spec

\* The cache tells the truth about every wallet that no two requests shared
\* and whose updates were all answered, outside UpdateBalance.
THEOREM CacheTruthful == Spec => []CacheTrueWithoutOverlap
<1>1. CoherenceInv => CacheTrueWithoutOverlap BY DEF CoherenceInv
<1> QED BY <1>1, Coherent, PTL

\* No step overwrites another request's change of a wallet it does not share.
THEOREM LostUpdatesExplained == Spec => LostUpdateNeedsOverlap
<1>1. TypeOK /\ StagesFit /\ CoherenceInv /\ [Next]_vars => [lost' \subseteq lost \cup dirty]_vars
  <2> SUFFICES ASSUME TypeOK, StagesFit, CoherenceInv, Next PROVE lost' \subseteq lost \cup dirty OBVIOUS
  <2>1. ASSUME NEW q \in Req, RequestStep(q) PROVE lost' \subseteq lost \cup dirty
    <3>1. ASSUME NEW l \in Leg, UpdateStep(q, l) PROVE lost' \subseteq lost \cup dirty
      <4>1. HasRead(q, l) BY <3>1 DEF UpdateStep, HasRead, FromSpan, ToSpan, Leg
      <4>2. WalletOf(q, l) \notin dirty => wallets[WalletOf(q, l)] = Current(q, l)
        BY <4>1 DEF CoherenceInv, ReadsFresh
      <4>3. lost' \subseteq lost \cup (IF wallets[WalletOf(q, l)] # Current(q, l)
                                      THEN {WalletOf(q, l)} ELSE {})
        BY <3>1 DEF UpdateStep, UpdateRow
      <4> QED BY <4>2, <4>3
    <3> QED BY <2>1, <3>1, StepKinds DEF QuietStep, FillStep, CacheStep
  <2>2. ASSUME NEW v \in Reader, ReaderStep(v) PROVE lost' \subseteq lost \cup dirty
    BY <2>2 DEF ReaderStep, ListSelect, ListFill, ListMiss
  <2>3. CASE Restart BY <2>3 DEF Restart
  <2> QED BY <2>1, <2>2, <2>3 DEF Next, RequestStep, ReaderStep
<1> QED BY <1>1, TypeCorrect, StagesCorrect, Coherent, PTL DEF Spec, LostUpdateNeedsOverlap

-------------------------------------------------------------------------------
(* The wallet lists.                                                       *)

\* A reader whose rows are not known to be old has the rows of now.
ReadersFresh ==
    \A v \in Reader :
        view[v].at = "fill" /\ ~view[v].old => view[v].list = Balances(view[v].user)

ListInv == ListTrueUnlessOld /\ ReadersFresh

\* What the list of user u must be, as long as nothing marks it as old.
ListTrue(u) ==
    u \notin listStale /\ (\A q \in Req, w \in WalletsOf(u) : ~Writing(q, w))
        => listCache[u] \in {Miss, Balances(u)}

LEMMA OwnersList == ASSUME NEW u, NEW w \in WalletsOf(u) PROVE w \in Wallet /\ Owner[w] = u
BY DEF WalletsOf

LEMMA ListOfSet ==
    ASSUME TypeOK, ListInv, NEW w \in Wallet, NEW b, SetWallet(w, b), wallets' = wallets, view' = view,
           \A p \in Req, x \in Wallet \ {w} : Writing(p, x) => Writing(p, x)'
    PROVE  ListInv'
<1>1. \A u : Balances(u)' = Balances(u) BY DEF Balances
<1>2. ReadersFresh' BY <1>1 DEF ListInv, ReadersFresh
<1>3. ASSUME NEW u \in User, ListTrue(u) PROVE ListTrue(u)'
  <2>1. CASE u = Owner[w] BY <2>1 DEF SetWallet, ListTrue, TypeOK
  <2>2. CASE u # Owner[w]
    <3>1. \A p \in Req, x \in WalletsOf(u) : Writing(p, x) => Writing(p, x)' BY <2>2, OwnersList
    <3>2. listCache'[u] = listCache[u] /\ (u \in listStale' <=> u \in listStale)
      BY <2>2 DEF SetWallet, TypeOK
    <3>3. (\A p \in Req, x \in WalletsOf(u) : ~Writing(p, x))'
          => \A p \in Req, x \in WalletsOf(u) : ~Writing(p, x)
      BY <3>1 DEF WalletsOf
    <3> QED BY <1>1, <1>3, <3>2, <3>3 DEF ListTrue
  <2> QED BY <2>1, <2>2
<1> QED BY <1>2, <1>3 DEF ListInv, ListTrueUnlessOld, ListTrue

LEMMA ListOfUpdate ==
    ASSUME TypeOK, ListInv, NEW q \in Req, NEW l \in Leg, UpdateStep(q, l),
           \A p \in Req \ {q} : Untouched(p)
    PROVE  ListInv'
<1> DEFINE w == WalletOf(q, l)
<1>1. w \in Wallet /\ job' = job /\ listCache' = listCache /\ w' = w
  BY WalletOfIsWallet DEF UpdateStep, UpdateRow, WalletOf
<1>2. \A p \in Req, x \in Wallet : Writing(p, x) => Writing(p, x)'
  BY UpdaterUses DEF Untouched, Writing
<1>3. CASE wallets' = wallets /\ view' = view /\ listStale' = listStale
  <2>1. \A u : Balances(u)' = Balances(u) BY <1>3 DEF Balances
  <2>2. \A u \in User : ListTrue(u) => ListTrue(u)'
    BY <1>1, <1>2, <1>3, <2>1 DEF ListTrue, WalletsOf
  <2> QED BY <1>3, <2>1, <2>2 DEF ListInv, ListTrueUnlessOld, ListTrue, ReadersFresh
<1>4. CASE /\ \E b : wallets' = [wallets EXCEPT ![w] = b]
           /\ view' = [v \in Reader |->
                         IF view[v].at = "fill" /\ view[v].user = Owner[w]
                         THEN Filling(view[v].user, view[v].list, TRUE) ELSE view[v]]
           /\ \/ Writing(q, w)' /\ listStale' = listStale
              \/ listStale' = listStale \cup {Owner[w]}
  <2>1. ASSUME NEW u, u # Owner[w] PROVE Balances(u)' = Balances(u)
    BY <1>4, <2>1, OwnersList DEF Balances, TypeOK
  <2>2. ReadersFresh' BY <1>4, <2>1 DEF ListInv, ReadersFresh, Filling
  <2>3. ASSUME NEW u \in User, ListTrue(u) PROVE ListTrue(u)'
    <3>1. CASE u = Owner[w]
      <4>1. w \in WalletsOf(u) BY <1>1, <3>1 DEF WalletsOf
      <4>2. CASE Writing(q, w)'
        <5>1. (\E p \in Req, x \in WalletsOf(u) : Writing(p, x))' BY <1>1, <4>1, <4>2 DEF WalletsOf
        <5> QED BY <5>1 DEF ListTrue
      <4>3. CASE u \in listStale' BY <4>3 DEF ListTrue
      <4> QED BY <1>4, <3>1, <4>2, <4>3
    <3>2. CASE u # Owner[w] BY <1>1, <1>2, <1>4, <2>1, <2>3, <3>2 DEF ListTrue, WalletsOf
    <3> QED BY <3>1, <3>2
  <2> QED BY <2>2, <2>3 DEF ListInv, ListTrueUnlessOld, ListTrue
<1>5. ASSUME NEW s \in WritingStages(l), Goto(q, s) PROVE Writing(q, w)'
  BY <1>1, <1>5 DEF Goto, TypeOK, Writing, WritingStages, WalletOf, Leg
<1> QED BY <1>3, <1>4, <1>5 DEF UpdateStep, UpdateRow

LEMMA ListOfRequest ==
    ASSUME TypeOK, StagesFit, ListInv, NEW q \in Req, RequestStep(q) PROVE ListInv'
<1>1. \A p \in Req \ {q} : Untouched(p) BY Frame
<1>2. \A p \in Req \ {q} : \A x : Writing(p, x)' <=> Writing(p, x) BY <1>1 DEF Untouched, Writing
<1>3. job' = job BY DirtyGrows
<1>4. CASE QuietStep(q)
  <2>1. \A x : Writing(q, x)' <=> Writing(q, x) BY <1>3, <1>4 DEF QuietStep, Writing
  <2>2. \A u : Balances(u)' = Balances(u) BY <1>4 DEF QuietStep, Balances
  <2>3. \A u \in User : ListTrue(u) => ListTrue(u)'
    BY <1>2, <1>4, <2>1, <2>2 DEF QuietStep, ListTrue, WalletsOf
  <2> QED BY <1>4, <2>2, <2>3 DEF QuietStep, ListInv, ListTrueUnlessOld, ListTrue, ReadersFresh
<1>5. ASSUME NEW l \in Leg, FillStep(q, l) \/ CacheStep(q, l) PROVE ListInv'
  <2>1. \A x \in Wallet \ {WalletOf(q, l)} : ~Writing(q, x)
    BY <1>5 DEF FillStep, CacheStep, WritingStages, Writing, WalletOf, FromWriting, ToWriting, Leg
  <2>2. SetWallet(WalletOf(q, l), Current(q, l)) /\ wallets' = wallets /\ view' = view
    BY <1>5 DEF FillStep, CacheStep
  <2> QED BY <1>2, <2>1, <2>2, ListOfSet, WalletOfIsWallet
<1>6. ASSUME NEW l \in Leg, UpdateStep(q, l) PROVE ListInv' BY <1>1, <1>6, ListOfUpdate
<1> QED BY <1>4, <1>5, <1>6, StepKinds

LEMMA ListOfReader == ASSUME TypeOK, ListInv, NEW v \in Reader, ReaderStep(v) PROVE ListInv'
<1>1. UNCHANGED <<wallets, pc, job>> BY DEF ReaderStep, ListSelect, ListFill, ListMiss, dbVars
<1>2. \A u : Balances(u)' = Balances(u) BY <1>1 DEF Balances
<1>3. \A p, x : Writing(p, x)' <=> Writing(p, x) BY <1>1 DEF Writing
<1>4. ASSUME NEW e, view' = [view EXCEPT ![v] = e],
             e.at = "fill" /\ ~e.old => e.list = Balances(e.user)
      PROVE  ReadersFresh'
  BY <1>2, <1>4 DEF ReadersFresh, ListInv, TypeOK
<1>5. ASSUME listCache' = listCache, listStale' = listStale PROVE ListTrueUnlessOld'
  <2>1. \A u \in User : ListTrue(u) => ListTrue(u)' BY <1>2, <1>3, <1>5 DEF ListTrue, WalletsOf
  <2> QED BY <2>1 DEF ListInv, ListTrueUnlessOld, ListTrue
<1>6. CASE ListSelect(v)
  <2>1. ListTrueUnlessOld' BY <1>5, <1>6 DEF ListSelect
  <2>2. ReadersFresh' BY <1>4, <1>6 DEF ListSelect, Filling, NoView
  <2> QED BY <2>1, <2>2 DEF ListInv
<1>7. CASE ListFill(v)
  <2>1. ReadersFresh' BY <1>4, <1>7 DEF ListFill, NoView
  <2>2. ASSUME NEW u \in User, ListTrue(u) PROVE ListTrue(u)'
    <3>1. CASE u = view[v].user
      <4>1. listCache'[u] = view[v].list BY <1>7, <3>1 DEF ListFill, TypeOK
      <4>2. u \notin listStale' => view[v].list = Balances(u)
        BY <1>7, <3>1 DEF ListFill, ListInv, ReadersFresh
      <4> QED BY <1>2, <4>1, <4>2 DEF ListTrue
    <3>2. CASE u # view[v].user
      <4>1. listCache'[u] = listCache[u] /\ (u \in listStale' <=> u \in listStale)
        BY <1>7, <3>2 DEF ListFill, TypeOK
      <4> QED BY <1>2, <1>3, <2>2, <4>1 DEF ListTrue, WalletsOf
    <3> QED BY <3>1, <3>2
  <2> QED BY <2>1, <2>2 DEF ListInv, ListTrueUnlessOld, ListTrue
<1>8. ASSUME NEW u \in User, ListMiss(v, u) PROVE ListInv'
  <2>1. ListTrueUnlessOld' BY <1>5, <1>8 DEF ListMiss
  <2>2. ReadersFresh' BY <1>4, <1>8 DEF ListMiss, Selecting
  <2> QED BY <2>1, <2>2 DEF ListInv
<1> QED BY <1>6, <1>7, <1>8 DEF ReaderStep

\* A cached wallet list is stale only because an old one was filled in or an
\* UPDATE lost its answer, and only until the owner's next SetWallet.
THEOREM ListsTruthful == Spec => []ListTrueUnlessOld
<1>1. Init => ListInv
  BY DEF Init, ListInv, ListTrueUnlessOld, ReadersFresh, NoView
<1>2. TypeOK /\ StagesFit /\ ListInv /\ [Next]_vars => ListInv'
  <2> SUFFICES ASSUME TypeOK, StagesFit, ListInv, [Next]_vars PROVE ListInv' OBVIOUS
  <2>1. ASSUME NEW q \in Req, RequestStep(q) PROVE ListInv' BY <2>1, ListOfRequest
  <2>2. ASSUME NEW v \in Reader, ReaderStep(v) PROVE ListInv' BY <2>2, ListOfReader
  <2>3. CASE Restart
    BY <2>3 DEF Restart, ListInv, ListTrueUnlessOld, ReadersFresh, NoView
  <2>4. CASE UNCHANGED vars
    <3>1. UNCHANGED <<wallets, listCache, listStale, view, pc, job, bal>>
      BY <2>4 DEF vars, dbVars
    <3>2. \A u \in User : Balances(u)' = Balances(u)
      BY <3>1 DEF Balances, WalletsOf
    <3>3. ReadersFresh'
      BY <3>1, <3>2 DEF ListInv, ReadersFresh, Balances, WalletsOf
    <3>4. ListTrueUnlessOld'
      BY <3>1, <3>2 DEF ListInv, ListTrueUnlessOld, Writing, WalletsOf, Balances
    <3> QED BY <3>3, <3>4 DEF ListInv
  <2> QED BY <2>1, <2>2, <2>3, <2>4 DEF Next, RequestStep, ReaderStep
<1>3. ListInv => ListTrueUnlessOld BY DEF ListInv
<1> QED BY <1>1, <1>2, <1>3, TypeCorrect, StagesCorrect, PTL DEF Spec

===============================================================================
