-------------------------------- MODULE Journal --------------------------------
(***************************************************************************)
(* What table transactions promises about the deposits and withdrawals of  *)
(* WalletService, whatever else goes on in the server: a write-ahead       *)
(* journal.  A row is booked as pending before the balance changes, the    *)
(* balance changes at most once per row, and the row says completed only   *)
(* of a change that has happened.  At any moment the journal may stop      *)
(* (an error, a client that has gone, a crash); it never goes back.        *)
(***************************************************************************)
CONSTANT Req

VARIABLES
    row,        \* transactions.status of the request's row, "none" before
    applied     \* requests whose change of the balance is in the database

vars == <<row, applied>>

Init ==
    /\ row = [q \in Req |-> "none"]
    /\ applied = {}

Book(q) ==
    /\ row[q] = "none"
    /\ row' = [row EXCEPT ![q] = "pending"]
    /\ UNCHANGED applied

Apply(q) ==
    /\ row[q] = "pending"
    /\ q \notin applied
    /\ applied' = applied \cup {q}
    /\ UNCHANGED row

Settle(q) ==
    /\ row[q] = "pending"
    /\ q \in applied
    /\ row' = [row EXCEPT ![q] = "completed"]
    /\ UNCHANGED applied

Next == \E q \in Req : Book(q) \/ Apply(q) \/ Settle(q)

Spec == Init /\ [][Next]_vars

===============================================================================
