------------------------------ MODULE MCMarket ------------------------------
(* Instances of the whole market for TLC: a guild with one LEGENDARY item, *)
(* and others with goods at a fixed price.                                 *)
EXTENDS Market, TLC

CONSTANTS seller, grocer, baker

MCSeedOwner == [i \in Items |-> seller]

\* The guilds pay each other: one for the LEGENDARY item, the others for goods.
MCOffers == <<[guild |-> grocer, quantity |-> 1, price |-> 3]>>

MCTwoOffers == MCOffers \o <<[guild |-> baker, quantity |-> 1, price |-> 3]>>

-----------------------------------------------------------------------------
(* The market after a few requests: the LEGENDARY item is auctioned, and   *)
(* two guilds have bid for it.                                             *)

MCBids == <<[auction |-> 1, guild |-> grocer, amount |-> 20, status |-> "ACTIVE", at |-> 0],
            [auction |-> 1, guild |-> baker, amount |-> 21, status |-> "ACTIVE", at |-> 0]>>

\* What the bids of g have reserved.
MCReserved(g) == MapThenSumSet(LAMBDA b : MCBids[b].amount,
                               {b \in DOMAIN MCBids : MCBids[b].guild = g})

BidsInit ==
    /\ \E limit \in [Guilds -> SpendingLimits] :
          pouch = [g \in Guilds |-> [SeedPouch(limit[g]) EXCEPT !.reserved = MCReserved(g)]]
    /\ draft = pouch
    /\ holder = [g \in Guilds |-> None]
    /\ log = [g \in Guilds |-> writeLog(EmptyLog, "RESERVE", MCReserved(g))]
    /\ newLog = [t \in Txs |-> NoEntries]
    /\ now = 0 /\ today = 0
    /\ inv = {<<SeedOwner[i], i>> : i \in Items}
    /\ auctions = <<[item |-> CHOOSE i \in Items : TRUE, owner |-> seller, status |-> "ACTIVE",
                     basePrice |-> 20, endTime |-> 1]>>
    /\ bids = MCBids
    /\ tx = [t \in Handlers \cup Settlers |-> Idle]
    /\ faults = 0
    /\ listings = [l \in DOMAIN SeedOffers |->
                     L!Offer(SeedOffers[l].guild, SeedOffers[l].quantity, SeedOffers[l].price)]
    /\ stock = [l \in DOMAIN SeedOffers |-> SeedOffers[l].quantity]
    /\ ptx = [t \in Buyers |-> L!NoPurchase]

FairBidsSpec == BidsInit /\ [][MarketNext]_marketVars /\ MarketFairness
=============================================================================
