-------------------------------- MODULE Shop --------------------------------
(***************************************************************************)
(* What fixed-price sales promise, with no transactions, locks or          *)
(* reservations in sight: guilds put goods on a shelf, and a sale is one   *)
(* step in which goods and gold change hands.  Module Listings implements  *)
(* it (property ImplementsShop).                                           *)
(***************************************************************************)
EXTENDS Integers, Sequences

CONSTANTS Guilds, SeedOffers, InitialGold, Quantities, Prices

VARIABLES gold,                \* the gold each guild owns
          shelf                \* the goods on sale, the oldest first

shopVars == <<gold, shelf>>

\* On sale as long as some are left.
Goods(g, q, p) == [seller |-> g, left |-> q, price |-> p, open |-> q # 0]

ShopInit ==
    /\ gold = [g \in Guilds |-> InitialGold]
    /\ shelf = [l \in DOMAIN SeedOffers |->
                  Goods(SeedOffers[l].guild, SeedOffers[l].quantity, SeedOffers[l].price)]

PutUp(g, q, p) ==
    /\ q > 0 /\ p > 0
    /\ shelf' = Append(shelf, Goods(g, q, p))
    /\ UNCHANGED gold

\* n pieces of gold go from guild g to s, which may be the same.
Transfer(purse, g, s, n) ==
    LET paid == [purse EXCEPT ![g] = @ - n]
    IN  [paid EXCEPT ![s] = @ + n]

\* Guild g buys q units; it may be the seller itself.
Sell(l, g, q) ==
    LET cost == shelf[l].price * q
        rest == shelf[l].left - q
    IN  /\ q > 0 /\ rest >= 0 /\ cost <= gold[g]
        /\ gold' = Transfer(gold, g, shelf[l].seller, cost)
        /\ shelf' = [shelf EXCEPT ![l] = Goods(@.seller, rest, @.price)]

ShopNext ==
    \/ \E g \in Guilds, q \in Quantities, p \in Prices : PutUp(g, q, p)
    \/ \E l \in DOMAIN shelf, g \in Guilds, q \in Quantities : Sell(l, g, q)

ShopSpec == ShopInit /\ [][ShopNext]_shopVars
=============================================================================
