---------------------------- MODULE MCWalletLedger ----------------------------
(* Instances of WalletLedger for TLC: one user with the wallets wa and wb. *)
EXTENDS Reconciliation, TLC

CONSTANTS u1, wa, wb, q1, q2, q3, v1

\* Balances are thousandths: a withdrawal of 1000 pays a fee of 1.
OneWallet == (wa :> u1)
OneOpening == (wa :> 1000)
TwoWallets == (wa :> u1) @@ (wb :> u1)
TwoOpening == (wa :> 1000) @@ (wb :> 0)

Transfer1(op, w, amount) == [op |-> op, from |-> w, to |-> w, amount |-> amount, credit |-> 0]
Swap1(w, x, amount, credit) == [op |-> "exchange", from |-> w, to |-> x, amount |-> amount, credit |-> credit]

TransferJobs == {Transfer1("deposit", wa, 2000), Transfer1("withdraw", wa, 1000)}
\* The third exchange is at a fee above 100 %: it takes from both wallets.
SwapJobs == {Swap1(wa, wb, 1000, 2000), Swap1(wb, wa, 2000, 1000), Swap1(wa, wb, 1000, 0 - 500),
             Transfer1("deposit", wa, 1000)}
OneSwap == {Swap1(wa, wb, 1000, 2000)}
Deposits == {Transfer1("deposit", wa, 1000), Transfer1("deposit", wa, 2000)}

Symmetry == Permutations(Req)

===============================================================================
