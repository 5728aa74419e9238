----------------------------- MODULE MCListings -----------------------------
(* Instances of the fixed-price market for TLC: each guild of a list has   *)
(* one listing at first.                                                   *)
EXTENDS Listings, TLC

CONSTANTS guild1, guild2

\* Two sellers that may also buy from each other.
MCTwoOffers == <<[guild |-> guild1, quantity |-> 2, price |-> 3],
                 [guild |-> guild2, quantity |-> 1, price |-> 4]>>

MCBuyerSymmetry == Permutations(Buyers)
=============================================================================
