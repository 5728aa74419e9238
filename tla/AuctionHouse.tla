---------------------------- MODULE AuctionHouse ----------------------------
(***************************************************************************)
(* What the auction house promises, with no transactions, locks, clocks or *)
(* reservations in sight: lots, the offers made on them, the gold and the  *)
(* title of each guild.  Every operation is a single step, and what a      *)
(* guild can still spend is what it owns less what it has on offer.        *)
(*                                                                         *)
(* Module AuctionProperties shows that the service, with its transactions  *)
(* cut in pieces, racing and failing, does nothing else.                   *)
(***************************************************************************)
EXTENDS Integers, Sequences, FiniteSetsExt

CONSTANTS Guilds, Items, SeedOwner, InitialGold, Amounts, BasePrices

VARIABLES gold,                \* the gold each guild owns
          title,               \* who has which item: <<guild, item>>
          lots,                \* the items put up for sale so far
          offers               \* the offers made so far

houseVars == <<gold, title, lots, offers>>

HouseInit ==
    /\ gold = [g \in Guilds |-> InitialGold]
    /\ title = {<<SeedOwner[i], i>> : i \in Items}
    /\ lots = <<>>
    /\ offers = <<>>

\* The offers on lot a that still stand, and the best of them.
Standing(a) == {o \in DOMAIN offers : offers[o].lot = a /\ offers[o].status = "ACTIVE"}

Best(a) ==
    {o \in Standing(a) : \A p \in Standing(a) : offers[p].amount <= offers[o].amount}

\* What guild g has promised to pay, should all its offers win.
Promised(g) ==
    MapThenSumSet(LAMBDA o : offers[o].amount,
                  {o \in DOMAIN offers : offers[o].guild = g /\ offers[o].status = "ACTIVE"})

\* The guilds that have the item i or once had it.
Owners(i) ==
    {SeedOwner[i]} \cup
    {offers[o].guild : o \in {p \in DOMAIN offers : /\ offers[p].status = "WON"
                                                    /\ lots[offers[p].lot].item = i}}

-----------------------------------------------------------------------------

\* An item is up for sale once at a time.  The seller had the item when the
\* request was checked, but may have lost it since.
OpenLot(g, i, price) ==
    /\ \A a \in DOMAIN lots : lots[a].item = i => ~lots[a].open
    /\ g \in Owners(i)
    /\ lots' = Append(lots, [item |-> i, seller |-> g, price |-> price, open |-> TRUE])
    /\ UNCHANGED <<gold, title, offers>>

\* An offer must top the best one by 5%, and be covered.
Offer(g, a, amount) ==
    /\ lots[a].open /\ lots[a].seller # g
    /\ IF Standing(a) = {} THEN amount >= lots[a].price
       ELSE \A o \in Best(a) : 100 * amount >= 105 * offers[o].amount
    /\ amount > 0 /\ Promised(g) + amount <= gold[g]
    /\ offers' = Append(offers, [lot |-> a, guild |-> g, amount |-> amount,
                                 status |-> "ACTIVE"])
    /\ UNCHANGED <<gold, title, lots>>

\* Any offer but the best one may be taken back.
Withdraw(o) ==
    /\ lots[offers[o].lot].open
    /\ o \in Standing(offers[o].lot) \ Best(offers[o].lot)
    /\ offers' = [offers EXCEPT ![o].status = "CANCELLED"]
    /\ UNCHANGED <<gold, title, lots>>

\* Nobody wants the lot.
Retire(a) ==
    /\ lots[a].open /\ Standing(a) = {}
    /\ lots' = [lots EXCEPT ![a].open = FALSE]
    /\ UNCHANGED <<gold, title, offers>>

\* n pieces of gold go from guild g to guild h.
Transfer(g, h, n) ==
    LET paid == [gold EXCEPT ![g] = @ - n]
    IN  [paid EXCEPT ![h] = @ + n]

\* Gold against title, and everybody learns the outcome: all in one step.
Award(a, o) ==
    LET vendor == lots[a].seller
        winner == offers[o].guild
        price == offers[o].amount
    IN  /\ lots[a].open /\ o \in Best(a)
        /\ <<vendor, lots[a].item>> \in title
        /\ gold' = Transfer(winner, vendor, price)
        /\ title' = (title \ {<<vendor, lots[a].item>>}) \cup {<<winner, lots[a].item>>}
        /\ offers' = [p \in DOMAIN offers |->
                        IF p \notin Standing(a) THEN offers[p]
                        ELSE [offers[p] EXCEPT !.status = IF p = o THEN "WON" ELSE "LOST"]]
        /\ lots' = [lots EXCEPT ![a].open = FALSE]

HouseNext ==
    \/ \E g \in Guilds, i \in Items, price \in BasePrices : OpenLot(g, i, price)
    \/ \E g \in Guilds, a \in DOMAIN lots, amount \in Amounts : Offer(g, a, amount)
    \/ \E o \in DOMAIN offers : Withdraw(o)
    \/ \E a \in DOMAIN lots : Retire(a)
    \/ \E a \in DOMAIN lots, o \in DOMAIN offers : Award(a, o)

HouseSpec == HouseInit /\ [][HouseNext]_houseVars
=============================================================================
