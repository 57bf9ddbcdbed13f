---------------------------- MODULE MCAuthSessions ----------------------------
(* Instances of AuthSessions for TLC. *)
EXTENDS AuthSessions, TLC

CONSTANTS t1, t2

Symmetry == Permutations(Req) \cup Permutations(Token) \cup Permutations(Currency)

===============================================================================
