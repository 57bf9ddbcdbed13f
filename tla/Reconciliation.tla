----------------------------- MODULE Reconciliation -----------------------------
(***************************************************************************)
(* Can the balances of WalletLedger be explained by the rows that name the *)
(* changes?  wallets.balance is written as an absolute value and nothing   *)
(* in the code adds the rows of transactions and currency_exchanges up;    *)
(* this module does.                                                       *)
(***************************************************************************)
EXTENDS WalletLedger, FiniteSetsExt

\* Sums are over the requests the server has got.
ASSUME RequestsFinite == IsFiniteSet(Req)

SumOver(f, S) == MapThenSumSet(LAMBDA x : f[x], S)

\* The requests that have a row in transactions for w, by its status.
Rows(w, status) == {q \in Req : txs[q] = status /\ job[q].from = w}

\* The requests that are exchanges from or to w.
Swaps(w) == {q \in Req : job[q].op = "exchange" /\ w \in {job[q].from, job[q].to}}

Answered(w) == {q \in Swaps(w) : pc[q] = "ok"}

\* What each request adds to w once all of it is done.
Booked(w) == [q \in Req |-> IF job[q].from = w THEN Delta(q, "from") ELSE Delta(q, "to")]

\* The books can be reconciled: on a wallet where no update overwrote another
\* and no exchange stopped half-way, the balance is the opening balance, plus
\* the completed transactions and exchanges, plus some of the transactions
\* that are still pending.  A balance never changes without a row written
\* before it (wallet_service.go:53 before :58), so a crash leaves nothing that
\* the pending rows do not name.
PendingRowsExplainBalance ==
    \A w \in Wallet \ lost :
        (\A q \in Swaps(w) : moved[q] = {} \/ pc[q] = "ok") =>
            \E S \in SUBSET Rows(w, "pending") :
                wallets[w] = Opening[w]
                             + SumOver(Booked(w), Rows(w, "completed") \cup S \cup Answered(w))

===============================================================================
