---------------------------- MODULE MCRateUpdater ----------------------------
(* Instances of RateUpdater for TLC. *)
EXTENDS RateUpdater, TLC

CONSTANTS eur, kzt, usdt

MCPair == {[from |-> eur, to |-> kzt], [from |-> usdt, to |-> kzt]}
MCValue == (eur :> 6) @@ (kzt :> 2) @@ (usdt :> 3)

===============================================================================
