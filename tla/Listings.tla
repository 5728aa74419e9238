------------------------------ MODULE Listings ------------------------------
(***************************************************************************)
(* Fixed-price sales of COMMON and RARE items: ItemService's CreateItem    *)
(* and PurchaseItem, run by concurrent HTTP handlers.                      *)
(*                                                                         *)
(* CreateItem is the only code that makes listings: each has an item and   *)
(* an inventory row of its own, so one id stands for all three.  A listing *)
(* and its inventory row are written only by the transaction that holds    *)
(* the listing's row lock; what it has read there is in its record ptx[t]  *)
(* and the rows it writes appear at COMMIT, as in module Auctions.         *)
(***************************************************************************)
EXTENDS PouchTable, Sequences

CONSTANTS Buyers,              \* concurrent purchase requests
          SeedOffers,          \* the listings of the seed migration
          Quantities, Prices,  \* request inputs
          MaxListings, MaxFailures                   \* bounds

ASSUME ListingAssumption ==
    /\ Buyers \subseteq Txs
    /\ SeedOffers \in Seq([guild: Guilds, quantity: Nat \ {0}, price: Nat \ {0}])
    /\ Quantities \subseteq Nat /\ Prices \subseteq Nat
    /\ MaxListings \in Nat /\ MaxFailures \in Nat

VARIABLES listings,            \* the listings table; the id is the index
          stock,               \* the quantity in the seller's inventory row
          ptx,                 \* the state of every purchase
          failures             \* infrastructure faults so far

stockVars == <<listings, stock>>
listingVars == <<pouch, draft, holder, log, newLog, now, today, listings, stock, ptx, failures>>

ListingStatus == {"ACTIVE", "EXPIRED"}

\* From HeldPC a purchase holds the row locks of its listing and of the
\* seller's inventory row.
HeldPC == {"reserve", "settle", "credit", "commit"}

\* left and inStock are the quantities read under the lock.
NoPurchase == [pc |-> "idle", guild |-> None, listing |-> 0, quantity |-> 0,
               left |-> 0, inStock |-> 0]

Offer(g, q, p) == [guild |-> g, quantity |-> q, basePrice |-> p, status |-> "ACTIVE"]

ListingInit ==
    /\ PouchInit
    /\ listings = [l \in DOMAIN SeedOffers |->
                     Offer(SeedOffers[l].guild, SeedOffers[l].quantity, SeedOffers[l].price)]
    /\ stock = [l \in DOMAIN SeedOffers |-> SeedOffers[l].quantity]
    /\ ptx = [t \in Buyers |-> NoPurchase]
    /\ failures = 0

-----------------------------------------------------------------------------

\* Item, inventory row and listing are inserted in one transaction; until its
\* COMMIT nobody else can refer to them.
CreateItem(g, q, p) ==
    /\ Len(listings) < MaxListings
    /\ q > 0 /\ p > 0
    /\ listings' = Append(listings, Offer(g, q, p))
    /\ stock' = Append(stock, q)
    /\ UNCHANGED <<pouchVars, clockVars, ptx, failures>>

Proceed(t, step) == ptx' = [ptx EXCEPT ![t].pc = step]

\* The handler returns.
Leave(t) == ptx' = [ptx EXCEPT ![t] = NoPurchase]

\* Mutant: the handler returns without a rollback.
Undo_NoRollback(t) == UNCHANGED <<pouchVars, stockVars>> /\ Leave(t)

\* The deferred tx.Rollback.
Undo(t) == RollbackRows(t) /\ Leave(t) /\ UNCHANGED stockVars

\* The ACTIVE listing of the item is looked up without a lock.
BeginPurchase(t, g, l, q) ==
    /\ ptx[t].pc = "idle"
    /\ q > 0
    /\ listings[l].status = "ACTIVE"
    /\ ptx' = [ptx EXCEPT ![t] = [NoPurchase EXCEPT !.pc = "lock", !.guild = g,
                                                    !.listing = l, !.quantity = q]]
    /\ UNCHANGED <<pouchVars, clockVars, stockVars, failures>>

\* Mutant: the listing is read without FOR UPDATE.
ListingFree_NoForUpdate(t, l) == TRUE

\* SELECT ... FROM listings ... FOR UPDATE returns only when this holds; the
\* inventory row is then free as well.
ListingFree(t, l) ==
    \A u \in Buyers : u # t => ~(ptx[u].pc \in HeldPC /\ ptx[u].listing = l)

\* Mutant: the quantities were looked at before the lock.
CanSell_StaleQuantity(t) == listings[ptx[t].listing].status = "ACTIVE"

\* The checks PurchaseItem makes once it has the two rows.
CanSell(t) ==
    LET l == ptx[t].listing
    IN  /\ listings[l].status = "ACTIVE"
        /\ listings[l].quantity >= ptx[t].quantity
        /\ stock[l] >= ptx[t].quantity

LockListing(t) ==
    LET l == ptx[t].listing
    IN  /\ ptx[t].pc = "lock"
        /\ ListingFree(t, l)
        /\ CanSell(t)
        /\ ptx' = [ptx EXCEPT ![t] = [@ EXCEPT !.pc = "reserve", !.inStock = stock[l],
                                               !.left = listings[l].quantity]]
        /\ UNCHANGED <<pouchVars, clockVars, stockVars, failures>>

Seller(t) == listings[ptx[t].listing].guild

Total(t) == listings[ptx[t].listing].basePrice * ptx[t].quantity

ReserveTotal(t) ==
    LET g == ptx[t].guild
    IN  /\ ptx[t].pc = "reserve"
        /\ RowFree(t, g)
        /\ ReserveOK(SeenRow(t, g), Total(t), today)
        /\ WriteRow(t, g, Reserve(SeenRow(t, g), Total(t), today), "RESERVE", Total(t))
        /\ Proceed(t, "settle")
        /\ UNCHANGED <<clockVars, stockVars, failures>>

SettleTotal(t) ==
    LET g == ptx[t].guild
    IN  /\ ptx[t].pc = "settle"
        /\ RowFree(t, g)
        /\ SettleOK(SeenRow(t, g), Total(t), "PURCHASE", today)
        /\ WriteRow(t, g, Settle(SeenRow(t, g), Total(t), today), "PURCHASE", Total(t))
        /\ Proceed(t, "credit")
        /\ UNCHANGED <<clockVars, stockVars, failures>>

CreditSeller(t) ==
    /\ ptx[t].pc = "credit"
    /\ RowFree(t, Seller(t))
    /\ CreditOK(Total(t))
    /\ WriteRow(t, Seller(t), Credit(SeenRow(t, Seller(t)), Total(t)), "CREDIT", Total(t))
    /\ Proceed(t, "commit")
    /\ UNCHANGED <<clockVars, stockVars, failures>>

\* Mutant: a listing that is sold out stays ACTIVE.
Sold_StaysActive(listing, n) == [listing EXCEPT !.quantity = n]

\* The listing row after a sale that leaves n units.
Sold(listing, n) ==
    [listing EXCEPT !.quantity = n, !.status = IF n = 0 THEN "EXPIRED" ELSE @]

CommitPurchase(t) ==
    LET l == ptx[t].listing
        q == ptx[t].quantity
    IN  /\ ptx[t].pc = "commit"
        /\ listings' = [listings EXCEPT ![l] = Sold(@, ptx[t].left - q)]
        /\ stock' = [stock EXCEPT ![l] = ptx[t].inStock - q]
        /\ CommitRows(t)
        /\ Leave(t)
        /\ UNCHANGED <<clockVars, failures>>

-----------------------------------------------------------------------------
(* Waiting, refusals, faults.                                              *)

\* The pouch whose row lock the next step of t asks for, or None.
NeedsPouch(t) ==
    CASE ptx[t].pc \in {"reserve", "settle"} -> ptx[t].guild
      [] ptx[t].pc = "credit" -> Seller(t)
      [] OTHER -> None

\* The transactions t has to wait for (at most one).
WaitsFor(t) ==
    {u \in Buyers \ {t} :
        ptx[t].pc = "lock" /\ ptx[u].pc \in HeldPC /\ ptx[u].listing = ptx[t].listing}
    \cup {u \in Txs \ {t} : NeedsPouch(t) # None /\ holder[NeedsPouch(t)] = u}

\* t waits for a transaction that waits, directly or not, for t.
InDeadlock(t) ==
    \E C \in SUBSET Buyers : t \in C /\ UNION {WaitsFor(u) : u \in C} = C

\* The checks of the next step of t succeed.
Passes(t) ==
    LET row == SeenRow(t, NeedsPouch(t))
    IN  CASE ptx[t].pc = "lock" -> CanSell(t)
          [] ptx[t].pc = "reserve" -> ReserveOK(row, Total(t), today)
          [] ptx[t].pc = "settle" -> SettleOK(row, Total(t), "PURCHASE", today)
          [] OTHER -> TRUE

\* A check fails: the error is returned, the transaction is rolled back.
RefusePurchase(t) ==
    /\ ptx[t].pc # "idle"
    /\ WaitsFor(t) = {}
    /\ ~Passes(t)
    /\ Undo(t)
    /\ UNCHANGED <<clockVars, failures>>

\* Postgres breaks a deadlock by failing the statement of one transaction in it.
DeadlockVictim(t) ==
    /\ InDeadlock(t)
    /\ Undo(t)
    /\ UNCHANGED <<clockVars, failures>>

\* A statement fails, the client disconnects or the connection is lost.
FailPurchase(t) ==
    /\ ptx[t].pc # "idle"
    /\ failures < MaxFailures
    /\ failures' = failures + 1
    /\ Undo(t)
    /\ UNCHANGED clockVars

\* The server dies and is started again.
Restart ==
    /\ failures < MaxFailures
    /\ failures' = failures + 1
    /\ RollbackAllRows
    /\ ptx' = [t \in Buyers |-> NoPurchase]
    /\ UNCHANGED <<clockVars, stockVars>>

PurchaseStep(t) ==
    \/ LockListing(t) \/ ReserveTotal(t) \/ SettleTotal(t) \/ CreditSeller(t)
    \/ CommitPurchase(t)
    \/ RefusePurchase(t)

ListingTime == AdvanceClock /\ UNCHANGED <<pouchVars, stockVars, ptx, failures>>

\* With every purchase over, the server waits for requests.
NoRequests ==
    /\ \A t \in Buyers : ptx[t].pc = "idle"
    /\ UNCHANGED listingVars

\* The requests.
CreateRequest == \E g \in Guilds, q \in Quantities, p \in Prices : CreateItem(g, q, p)

PurchaseRequest(t) ==
    \E g \in Guilds, l \in DOMAIN listings, q \in Quantities : BeginPurchase(t, g, l, q)

ListingNext ==
    \/ CreateRequest
    \/ \E t \in Buyers : PurchaseRequest(t)
    \/ \E t \in Buyers : PurchaseStep(t) \/ DeadlockVictim(t) \/ FailPurchase(t)
    \/ Restart
    \/ ListingTime
    \/ NoRequests

ListingSpec == ListingInit /\ [][ListingNext]_listingVars

-----------------------------------------------------------------------------

Listing == [guild: Guilds, quantity: Nat, basePrice: Nat, status: ListingStatus]

Purchase == [pc: HeldPC \cup {"idle", "lock"}, guild: Guilds \cup {None}, listing: Nat,
             quantity: Nat, left: Nat, inStock: Nat]

(***************************************************************************)
(* Every row and every purchase in progress has its type; quantities are   *)
(* never negative (Postgres' CHECK would refuse the UPDATE otherwise).     *)
(***************************************************************************)
ListingTypeOK ==
    /\ PouchTypeOK
    /\ listings \in Seq(Listing)
    /\ stock \in Seq(Nat)
    /\ ptx \in [Buyers -> Purchase]
    /\ failures \in Nat

(***************************************************************************)
(* A listing offers exactly what its seller has in stock, and is ACTIVE    *)
(* exactly as long as that is something: the two rows never drift apart,   *)
(* whichever requests race, fail or die with the server.                   *)
(***************************************************************************)
StockInStep ==
    /\ DOMAIN stock = DOMAIN listings
    /\ \A l \in DOMAIN listings :
          /\ listings[l].quantity = stock[l]
          /\ listings[l].status = "ACTIVE" <=> stock[l] > 0

(***************************************************************************)
(* A purchase reserves and spends in one transaction: no gold is ever left *)
(* reserved, so that a purchase that fails half way costs its buyer no     *)
(* usable gold.                                                            *)
(***************************************************************************)
NothingHeldBack == \A g \in Guilds : pouch[g].reserved = 0

\* The refinement mapping: what module Shop calls gold and shelf.
Gold == [g \in Guilds |-> pouch[g].total]

Shelf == [l \in DOMAIN listings |->
            [seller |-> listings[l].guild, left |-> listings[l].quantity,
             price |-> listings[l].basePrice, open |-> listings[l].status = "ACTIVE"]]

Retail == INSTANCE Shop WITH gold <- Gold, shelf <- Shelf

(***************************************************************************)
(* Every unit is sold once and paid for in full.  What is committed        *)
(* behaves like a shop where a sale is one step that the buyer could       *)
(* afford: the cut of a purchase into reservation, payment and credit, the *)
(* races for the last units, refusals, deadlocks and crashes are never     *)
(* seen from outside.                                                      *)
(***************************************************************************)
ImplementsShop == Retail!ShopSpec

(***************************************************************************)
(* "Pessimistic locking just serializes" the requests: none of them is     *)
(* ever rejected because of the order in which others took their locks.    *)
(***************************************************************************)
SerializedCleanly == \A t \in Buyers : ~InDeadlock(t)
=============================================================================
