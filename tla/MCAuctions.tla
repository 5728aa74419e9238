----------------------------- MODULE MCAuctions -----------------------------
(* Instances of the auction house for TLC: one guild that owns the items   *)
(* at first, and guilds that bid for them.                                 *)
EXTENDS AuctionProperties, TLC

CONSTANT seller

MCSeedOwner == [i \in Items |-> seller]

\* Requests are interchangeable, and so are the items, which all start with
\* the same guild, and the guilds that start with none.
MCSymmetry ==
    Permutations(Handlers) \cup Permutations(Items) \cup Permutations(Guilds \ {seller})
=============================================================================
