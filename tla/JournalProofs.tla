----------------------------- MODULE JournalProofs -----------------------------
(* WalletLedger implements Journal: its initial states are Journal's, and a  *)
(* step of the ledger is a step of the journal or leaves it alone.           *)
EXTENDS WalletLedgerProofs

Applied == {q \in Req : job[q].op # "exchange" /\ moved[q] # {}}

\* The journal sees the rows of transactions and who has changed a balance.
LEMMA JournalOfStep ==
    ASSUME TypeOK, StagesFit, NEW q \in Req, RequestStep(q)
    PROVE  Books!Book(q) \/ Books!Apply(q) \/ Books!Settle(q) \/ UNCHANGED <<txs, Applied>>
<1>1. job' = job BY DirtyGrows
<1>2. StageFits(q) BY DEF StagesFit
<1>3. \A p \in Req \ {q} : moved'[p] = moved[p] BY Frame DEF Untouched
<1>4. (q \in Applied' <=> q \in Applied) => Applied' = Applied BY <1>1, <1>3 DEF Applied
<1>5. txs' = txs /\ moved' = moved => UNCHANGED <<txs, Applied>> BY <1>1 DEF Applied
<1>6. ASSUME NEW l, NEW b, NEW m, NEW s, NEW t, UpdateRow(q, l, b, m, s, t)
      PROVE  txs' = txs /\ (moved' = moved \/ moved' = [moved EXCEPT ![q] = m])
  BY <1>6, Zenon DEF UpdateRow
<1>7. CASE Book(q)
  <2>1. txs[q] = "none" BY <1>2, <1>7 DEF Book, StageFits, Reading
  <2>2. Applied' = Applied BY <1>7 DEF Book, Applied
  <2>3. CASE txs' = [txs EXCEPT ![q] = "pending"]
    BY <2>1, <2>2, <2>3 DEF Books!Book, Applied
  <2> QED BY <1>5, <1>7, <2>3 DEF Book
<1>8. CASE Settle(q)
  <2>1. txs[q] = "pending" /\ moved[q] = {"from"} /\ job[q].op # "exchange"
    BY <1>2, <1>8 DEF Settle, StageFits
  <2>2. q \in Applied BY <2>1 DEF Applied
  <2>3. Applied' = Applied BY <1>8 DEF Settle, Applied
  <2>4. CASE txs' = [txs EXCEPT ![q] = "completed"]
    BY <2>1, <2>2, <2>3, <2>4 DEF Books!Settle, Applied
  <2> QED BY <1>5, <1>8, <2>4 DEF Settle
<1>9. CASE Move(q)
  <2>1. txs[q] = "pending" /\ moved[q] = {} /\ job[q].op # "exchange"
    BY <1>2, <1>9 DEF Move, StageFits
  <2>2. txs' = txs /\ (moved' = moved \/ moved' = [moved EXCEPT ![q] = {"from"}])
    BY <1>6, <1>9 DEF Move
  <2>3. CASE moved' = moved BY <1>5, <2>2, <2>3
  <2>4. CASE moved' = [moved EXCEPT ![q] = {"from"}]
    <3>1. moved'[q] = {"from"} BY <2>4 DEF TypeOK
    <3>2. q \notin Applied /\ Applied' = Applied \cup {q} BY <1>1, <1>3, <2>1, <3>1 DEF Applied
    <3> QED BY <2>1, <2>2, <3>2 DEF Books!Apply, Applied
  <2> QED BY <2>2, <2>3, <2>4
<1>10. CASE Debit(q) \/ Credit(q) \/ Revert(q) \/ UndoDebit(q) \/ UndoCredit(q)
  <2>1. job[q].op = "exchange"
    BY <1>2, <1>10 DEF Debit, Credit, Revert, UndoDebit, UndoCredit, StageFits, Swapping
  <2>2. txs' = txs BY <1>6, <1>10 DEF Debit, Credit, Revert, UndoDebit, UndoCredit
  <2>3. Applied' = Applied BY <1>1, <1>4, <2>1 DEF Applied
  <2> QED BY <2>2, <2>3
<1>11. CASE ReadWallets(q) \/ Start(q) \/ Insufficient(q) \/ Cancel(q) \/ Record(q)
  BY <1>5, <1>11 DEF ReadWallets, LookupFrom, LookupTo, Lookup, SelectFrom, SelectTo, SelectWallet,
                     FillFrom, FillTo, FillWallet, Start, Insufficient, Cancel, Record, dbVars
<1>12. CASE \/ Moved(q) \/ Debited(q) \/ Credited(q)
            \/ Reverted(q) \/ UndidDebit(q) \/ UndidCredit(q)
  BY <1>5, <1>12 DEF Moved, Debited, Credited, Reverted, UndidDebit, UndidCredit, CacheRow, dbVars
<1> QED BY <1>7, <1>8, <1>9, <1>10, <1>11, <1>12 DEF RequestStep, Serve, Transfer, Swap, Rollback

\* The deposits and withdrawals of WalletService keep a write-ahead journal in
\* table transactions, whatever else runs, fails or is restarted.
THEOREM JournalImplemented == Spec => WriteAheadJournal
<1>1. Init => Books!Init BY DEF Init, Books!Init
<1>2. TypeOK /\ StagesFit /\ [Next]_vars => [Books!Next]_(Books!vars)
  <2> SUFFICES ASSUME TypeOK, StagesFit, [Next]_vars PROVE Books!Next \/ UNCHANGED <<txs, Applied>>
    BY DEF Books!vars, Applied
  <2>1. ASSUME NEW q \in Req, RequestStep(q) PROVE Books!Next \/ UNCHANGED <<txs, Applied>>
    BY <2>1, JournalOfStep DEF Books!Next
  <2>2. ASSUME NEW v \in Reader, ReaderStep(v) PROVE UNCHANGED <<txs, Applied>>
    BY <2>2 DEF ReaderStep, ListSelect, ListFill, ListMiss, dbVars, Applied
  <2>3. CASE Restart BY <2>3 DEF Restart, dbVars, Applied
  <2>4. CASE UNCHANGED vars BY <2>4 DEF vars, Applied
  <2> QED BY <2>1, <2>2, <2>3, <2>4 DEF Next, RequestStep, ReaderStep
<1> QED BY <1>1, <1>2, TypeCorrect, StagesCorrect, PTL DEF Spec, WriteAheadJournal, Books!Spec

===============================================================================
