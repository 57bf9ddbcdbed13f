------------------------------ MODULE MCListings ------------------------------
(* Instances of Listings for TLC. *)
EXTENDS Listings, TLC

CONSTANTS o1, o2

\* o1's e-mail is a part of o2's.
MCLike == (o1 :> {o1, o2}) @@ (o2 :> {o2})
MCAsked == -1 .. 3

===============================================================================
