--------------------------- MODULE ListingProofs ---------------------------
(***************************************************************************)
(* Proofs about fixed-price sales, for any number of guilds, listings and  *)
(* buyers and any prices: listing and inventory stay in step, no pouch is  *)
(* overdrawn, the log explains every balance, and what is committed is     *)
(* what a shop does that sells in single steps.                            *)
(***************************************************************************)
EXTENDS Listings, PouchProofs

\* What a purchase knows before it has the lock of its listing ...
Asking(r) ==
    /\ r.guild \in Guilds
    /\ r.listing \in DOMAIN listings
    /\ r.quantity > 0

\* ... and while it has it: what it read under the lock is still so.
Holding(r) ==
    /\ Asking(r)
    /\ r.quantity <= r.left
    /\ r.left = listings[r.listing].quantity
    /\ r.inStock = stock[r.listing]
    /\ listings[r.listing].status = "ACTIVE"

(***************************************************************************)
(* The lock protocol.  One purchase at a time holds a listing, and what it *)
(* has read of it stays true until it commits; StockInStep is not          *)
(* inductive without this, because COMMIT writes the two quantities from   *)
(* what was read.                                                          *)
(***************************************************************************)
Locking ==
    /\ \A t \in Buyers :
          /\ ptx[t].pc = "lock" => Asking(ptx[t])
          /\ ptx[t].pc \in HeldPC => Holding(ptx[t])
    /\ \A t, u \in Buyers :
          ptx[t].pc \in HeldPC /\ ptx[u].pc \in HeldPC /\ ptx[t].listing = ptx[u].listing
              => t = u

ListingInv == PouchInv /\ ListingTypeOK /\ StockInStep /\ Locking
-----------------------------------------------------------------------------
(* Facts used by every step.                                               *)

(***************************************************************************)
(* The rows and the records, by their ids.                                 *)
(***************************************************************************)
LEMMA SaleTypes ==
    ASSUME ListingInv, ListingAssumption
    PROVE  /\ listings \in Seq(Listing) /\ stock \in Seq(Nat) /\ failures \in Nat
           /\ DOMAIN stock = DOMAIN listings
           /\ \A l \in DOMAIN listings : listings[l] \in Listing /\ l \in Nat /\ stock[l] \in Nat
           /\ \A t \in Buyers : ptx[t] \in Purchase /\ t \in Txs
<1>1. listings \in Seq(Listing) /\ stock \in Seq(Nat) /\ DOMAIN stock = DOMAIN listings
  BY DEF ListingInv, ListingTypeOK, StockInStep
<1>2. \A l \in DOMAIN listings : listings[l] \in Listing /\ l \in Nat
  BY <1>1
<1>3. \A l \in DOMAIN stock : stock[l] \in Nat
  BY <1>1
<1> QED
  BY <1>1, <1>2, <1>3 DEF ListingInv, ListingTypeOK, ListingAssumption

(***************************************************************************)
(* A purchase that holds no lock and asks for none is a record.            *)
(***************************************************************************)
LEMMA NoPurchaseIsPurchase == NoPurchase \in Purchase /\ NoPurchase.pc = "idle"
<1>1. 0 \in Nat /\ "idle" \in HeldPC \cup {"idle", "lock"} /\ None \in Guilds \cup {None}
  OBVIOUS
<1> QED
  BY <1>1 DEF NoPurchase, Purchase

(***************************************************************************)
(* The amount of gold a purchase moves is a number, and its two guilds     *)
(* have a pouch.                                                           *)
(***************************************************************************)
LEMMA HeldRows ==
    ASSUME ListingInv, ListingAssumption, NEW t \in Buyers, ptx[t].pc \in HeldPC
    PROVE  /\ t \in Txs /\ Total(t) \in Nat
           /\ ptx[t].guild \in Guilds /\ Seller(t) \in Guilds
<1>1. ptx[t].listing \in DOMAIN listings /\ ptx[t].guild \in Guilds
  BY DEF ListingInv, Locking, Holding, Asking
<1>2. listings[ptx[t].listing] \in Listing /\ ptx[t] \in Purchase /\ t \in Txs
  BY <1>1, SaleTypes
<1>3. /\ listings[ptx[t].listing].basePrice \in Nat /\ ptx[t].quantity \in Nat
      /\ listings[ptx[t].listing].guild \in Guilds
  BY <1>2 DEF Listing, Purchase
<1>4. \A m, n \in Nat : m * n \in Nat
  OBVIOUS
<1> QED
  BY <1>1, <1>2, <1>3, <1>4 DEF Total, Seller

(***************************************************************************)
(* A step of one purchase that keeps the pouches in order and leaves the   *)
(* listings alone.                                                         *)
(***************************************************************************)
LEMMA SaleFrame ==
    ASSUME ListingInv, PouchInv', NEW t \in Buyers, NEW r \in Purchase,
           ptx' = [ptx EXCEPT ![t] = r],
           r.pc = "lock" => Asking(r),
           r.pc \in HeldPC => Holding(r),
           r.pc \in HeldPC => \A u \in Buyers \ {t} :
               ~(ptx[u].pc \in HeldPC /\ ptx[u].listing = r.listing),
           UNCHANGED stockVars, failures' \in Nat
    PROVE  ListingInv'
<1>1. listings' = listings /\ stock' = stock
  BY DEF stockVars
<1>2. ptx \in [Buyers -> Purchase]
  BY DEF ListingInv, ListingTypeOK
<1>3. ptx'[t] = r /\ \A u \in Buyers \ {t} : ptx'[u] = ptx[u]
  BY <1>2
<1>4. ListingTypeOK'
  BY <1>1, <1>2 DEF ListingInv, ListingTypeOK, PouchInv
<1>5. StockInStep'
  BY <1>1 DEF ListingInv, StockInStep
<1>6. Locking'
  <2>1. ASSUME NEW u \in Buyers
        PROVE  /\ ptx'[u].pc = "lock" => Asking(ptx'[u])
               /\ ptx'[u].pc \in HeldPC => Holding(ptx'[u])
    <3>1. CASE u = t
      BY <1>3, <3>1
    <3>2. CASE u # t
      BY <1>3, <3>2 DEF ListingInv, Locking
    <3> QED
      BY <3>1, <3>2
  <2>2. ASSUME NEW u \in Buyers
        PROVE  /\ ptx'[u].pc = "lock" => Asking(ptx[u])'
               /\ ptx'[u].pc \in HeldPC => Holding(ptx[u])'
    BY <1>1, <2>1 DEF Asking, Holding
  <2>3. ASSUME NEW u \in Buyers, NEW v \in Buyers,
               ptx'[u].pc \in HeldPC, ptx'[v].pc \in HeldPC, ptx'[u].listing = ptx'[v].listing
        PROVE  u = v
    <3>1. CASE u # t /\ v # t
      BY <1>3, <2>3, <3>1 DEF ListingInv, Locking
    <3>2. CASE u = t \/ v = t
      BY <1>3, <2>3, <3>2
    <3> QED
      BY <3>1, <3>2
  <2> QED
    BY <2>2, <2>3 DEF Locking
<1> QED
  BY <1>4, <1>5, <1>6 DEF ListingInv

(***************************************************************************)
(* The pouches are in order after a step that does not touch them.         *)
(***************************************************************************)
LEMMA PouchesUntouched ==
    ASSUME PouchInv, UNCHANGED <<pouchVars, clockVars>>
    PROVE  PouchInv'
  BY DEF PouchInv, PouchTypeOK, RowsSolvent, BooksBalance, pouchVars, clockVars

-----------------------------------------------------------------------------
(* The steps.                                                              *)

(***************************************************************************)
(* A purchase that fails is rolled back and forgotten.                     *)
(***************************************************************************)
LEMMA UndoPreserves ==
    ASSUME ListingInv, PouchTableAssumption, ListingAssumption, NEW t \in Buyers, Undo(t),
           UNCHANGED clockVars, failures' \in Nat
    PROVE  ListingInv'
<1>1. PouchInv'
  BY SaleTypes, RollbackPreserves DEF Undo, ListingInv
<1>2. "idle" \notin HeldPC
  BY DEF HeldPC
<1>3. ptx' = [ptx EXCEPT ![t] = NoPurchase]
  BY Zenon DEF Undo, Leave
<1> QED
  BY <1>1, <1>2, <1>3, NoPurchaseIsPurchase, SaleFrame DEF Undo

(***************************************************************************)
(* A request is read and its listing looked up.                            *)
(***************************************************************************)
LEMMA BeginPurchasePreserves ==
    ASSUME ListingInv, ListingAssumption, NEW t \in Buyers, NEW g \in Guilds,
           NEW l \in DOMAIN listings, NEW q \in Quantities, BeginPurchase(t, g, l, q)
    PROVE  ListingInv'
<1> DEFINE r == [NoPurchase EXCEPT !.pc = "lock", !.guild = g, !.listing = l, !.quantity = q]
<1>1. l \in Nat /\ q \in Nat /\ q > 0 /\ failures \in Nat
  BY SaleTypes DEF BeginPurchase, ListingAssumption
<1>2. r \in Purchase
  BY <1>1, NoPurchaseIsPurchase DEF Purchase
<1>3. r.pc = "lock" /\ r.guild = g /\ r.listing = l /\ r.quantity = q
  BY DEF NoPurchase
<1>4. ptx' = [ptx EXCEPT ![t] = r] /\ UNCHANGED <<pouchVars, clockVars, stockVars, failures>>
  BY DEF BeginPurchase
<1> HIDE DEF r
<1>5. Asking(r)
  BY <1>1, <1>3 DEF Asking
<1>6. "lock" \notin HeldPC
  BY DEF HeldPC
<1>7. PouchInv'
  BY <1>4, PouchesUntouched DEF ListingInv
<1> QED
  BY <1>1, <1>2, <1>3, <1>4, <1>5, <1>6, <1>7, SaleFrame

(***************************************************************************)
(* The lock is granted: from here on nobody else writes the two rows.      *)
(***************************************************************************)
LEMMA LockListingPreserves ==
    ASSUME ListingInv, ListingAssumption, NEW t \in Buyers, LockListing(t)
    PROVE  ListingInv'
<1> DEFINE l == ptx[t].listing
           r == [ptx[t] EXCEPT !.pc = "reserve", !.inStock = stock[l],
                               !.left = listings[l].quantity]
<1>1. ptx[t] \in Purchase /\ Asking(ptx[t]) /\ l \in DOMAIN listings /\ failures \in Nat
  BY SaleTypes DEF LockListing, ListingInv, Locking, Asking
<1>2. listings[l].quantity \in Nat /\ stock[l] \in Nat
  BY <1>1, SaleTypes DEF Listing
<1>3. r \in Purchase
  BY <1>1, <1>2 DEF Purchase, HeldPC
<1>4. /\ r.pc = "reserve" /\ r.listing = l /\ r.guild = ptx[t].guild
      /\ r.quantity = ptx[t].quantity
      /\ r.left = listings[l].quantity /\ r.inStock = stock[l]
  BY <1>1 DEF Purchase
<1>5. ptx' = [ptx EXCEPT ![t] = r]
  BY Zenon DEF LockListing
<1> HIDE DEF r
<1>6. listings[l].status = "ACTIVE" /\ listings[l].quantity >= ptx[t].quantity
  BY DEF LockListing, CanSell
<1>7. ptx[t].quantity \in Nat
  BY <1>1 DEF Purchase
<1>8. Holding(r)
  BY <1>1, <1>2, <1>4, <1>6, <1>7 DEF Holding, Asking
<1>9. \A u \in Buyers \ {t} : ~(ptx[u].pc \in HeldPC /\ ptx[u].listing = r.listing)
  BY <1>4 DEF LockListing, ListingFree
<1>10. PouchInv'
  BY PouchesUntouched DEF LockListing, ListingInv
<1>11. UNCHANGED stockVars /\ failures' = failures
  BY DEF LockListing
<1> QED
  BY <1>1, <1>3, <1>4, <1>5, <1>8, <1>9, <1>10, <1>11, SaleFrame

(***************************************************************************)
(* The steps that move gold keep the locks.                                *)
(***************************************************************************)
LEMMA ProceedPreserves ==
    ASSUME ListingInv, PouchInv', ListingAssumption, NEW t \in Buyers, ptx[t].pc \in HeldPC,
           NEW step \in HeldPC, Proceed(t, step), UNCHANGED <<stockVars, failures>>
    PROVE  ListingInv'
<1> DEFINE r == [ptx[t] EXCEPT !.pc = step]
<1>1. ptx[t] \in Purchase /\ Holding(ptx[t]) /\ failures \in Nat
  BY SaleTypes DEF ListingInv, Locking
<1>2. r \in Purchase
  BY <1>1 DEF Purchase
<1>3. /\ r.pc = step /\ r.guild = ptx[t].guild /\ r.listing = ptx[t].listing
      /\ r.quantity = ptx[t].quantity /\ r.left = ptx[t].left /\ r.inStock = ptx[t].inStock
  BY <1>1 DEF Purchase
<1>4. ptx' = [ptx EXCEPT ![t] = r]
  BY Zenon DEF Proceed
<1> HIDE DEF r
<1>5. Holding(r)
  BY <1>1, <1>3 DEF Holding, Asking
<1>6. \A u \in Buyers \ {t} : ~(ptx[u].pc \in HeldPC /\ ptx[u].listing = r.listing)
  BY <1>3 DEF ListingInv, Locking
<1>7. step # "lock"
  BY DEF HeldPC
<1> QED
  BY <1>1, <1>2, <1>3, <1>4, <1>5, <1>6, <1>7, SaleFrame

(***************************************************************************)
(* Reserve, Settle and Credit.                                             *)
(***************************************************************************)
LEMMA GoldStepPreserves ==
    ASSUME ListingInv, PouchTableAssumption, ListingAssumption, NEW t \in Buyers,
           ReserveTotal(t) \/ SettleTotal(t) \/ CreditSeller(t)
    PROVE  ListingInv'
<1>1. /\ t \in Txs /\ Total(t) \in Nat /\ ptx[t].guild \in Guilds /\ Seller(t) \in Guilds
      /\ ptx[t].pc \in HeldPC
  <2>1. ptx[t].pc \in HeldPC
    BY DEF ReserveTotal, SettleTotal, CreditSeller, HeldPC
  <2> QED
    BY <2>1, HeldRows
<1>2. CASE ReserveTotal(t)
  <2>1. PouchInv'
    BY <1>1, <1>2, ReservePreserves DEF ReserveTotal, ListingInv
  <2>2. "settle" \in HeldPC
    BY DEF HeldPC
  <2> QED
    BY <1>1, <1>2, <2>1, <2>2, ProceedPreserves DEF ReserveTotal
<1>3. CASE SettleTotal(t)
  <2>1. PouchInv'
    BY <1>1, <1>3, SettlePreserves DEF SettleTotal, ListingInv
  <2>2. "credit" \in HeldPC
    BY DEF HeldPC
  <2> QED
    BY <1>1, <1>3, <2>1, <2>2, ProceedPreserves DEF SettleTotal
<1>4. CASE CreditSeller(t)
  <2>1. PouchInv'
    BY <1>1, <1>4, CreditPreserves DEF CreditSeller, ListingInv
  <2>2. "commit" \in HeldPC
    BY DEF HeldPC
  <2> QED
    BY <1>1, <1>4, <2>1, <2>2, ProceedPreserves DEF CreditSeller
<1> QED
  BY <1>2, <1>3, <1>4

(***************************************************************************)
(* COMMIT writes both quantities from what was read under the lock.        *)
(***************************************************************************)
LEMMA CommitPurchasePreserves ==
    ASSUME ListingInv, PouchTableAssumption, ListingAssumption, NEW t \in Buyers,
           CommitPurchase(t)
    PROVE  ListingInv'
<1> DEFINE l == ptx[t].listing
           n == ptx[t].left - ptx[t].quantity
           x == Sold(listings[l], n)
<1>1. /\ ptx[t] \in Purchase /\ Holding(ptx[t]) /\ ptx[t].pc \in HeldPC /\ t \in Txs
      /\ l \in DOMAIN listings /\ listings[l] \in Listing
      /\ listings \in Seq(Listing) /\ stock \in Seq(Nat) /\ DOMAIN stock = DOMAIN listings
      /\ failures \in Nat
  BY SaleTypes DEF CommitPurchase, ListingInv, Locking, Holding, Asking, HeldPC
<1>2. PouchInv'
  BY <1>1, CommitPreserves DEF CommitPurchase, ListingInv
<1>3. n \in Nat /\ ptx[t].inStock - ptx[t].quantity = n
  <2>1. ptx[t].left \in Nat /\ ptx[t].quantity \in Nat /\ ptx[t].inStock \in Nat
    BY <1>1 DEF Purchase
  <2>2. ptx[t].quantity <= ptx[t].left /\ ptx[t].inStock = ptx[t].left
    BY <1>1 DEF Holding, ListingInv, StockInStep
  <2> QED
    BY <2>1, <2>2
<1> HIDE DEF n
<1>4. x \in Listing /\ x.quantity = n /\ (x.status = "ACTIVE" <=> n # 0)
  <2>1. x = [listings[l] EXCEPT !.quantity = n,
                                !.status = IF n = 0 THEN "EXPIRED" ELSE listings[l].status]
    BY DEF Sold
  <2>2. listings[l].status = "ACTIVE"
    BY <1>1 DEF Holding
  <2> QED
    BY <1>1, <1>3, <2>1, <2>2 DEF Listing, ListingStatus
<1>5. listings' = [listings EXCEPT ![l] = x] /\ stock' = [stock EXCEPT ![l] = n]
  BY <1>3 DEF CommitPurchase, n
<1> HIDE DEF l, x
<1>6. /\ listings' \in Seq(Listing) /\ stock' \in Seq(Nat)
      /\ DOMAIN listings' = DOMAIN listings /\ DOMAIN stock' = DOMAIN listings
      /\ listings'[l] = x /\ stock'[l] = n
      /\ \A k \in DOMAIN listings \ {l} : listings'[k] = listings[k] /\ stock'[k] = stock[k]
  BY <1>1, <1>3, <1>4, <1>5, SMTT(30)
<1>7. ptx' = [ptx EXCEPT ![t] = NoPurchase] /\ ptx \in [Buyers -> Purchase]
  BY DEF CommitPurchase, Leave, ListingInv, ListingTypeOK
<1>8. ListingTypeOK'
  BY <1>1, <1>2, <1>6, <1>7, NoPurchaseIsPurchase DEF ListingTypeOK, CommitPurchase, PouchInv
<1>9. StockInStep'
  <2>1. ASSUME NEW k \in DOMAIN listings
        PROVE  /\ listings'[k].quantity = stock'[k]
               /\ listings'[k].status = "ACTIVE" <=> stock'[k] > 0
    <3>1. CASE k = l
      BY <1>3, <1>4, <1>6, <3>1
    <3>2. CASE k # l
      BY <1>6, <3>2 DEF ListingInv, StockInStep
    <3> QED
      BY <3>1, <3>2
  <2> QED
    BY <1>6, <2>1 DEF StockInStep
<1>10. Locking'
  <2>1. "idle" \notin HeldPC /\ ptx'[t].pc = "idle"
    BY <1>7, NoPurchaseIsPurchase DEF HeldPC
  <2>2. \A u \in Buyers \ {t} : ptx'[u] = ptx[u]
    BY <1>7
  <2>3. ASSUME NEW u \in Buyers \ {t}
        PROVE  /\ ptx[u].pc = "lock" => Asking(ptx[u])'
               /\ ptx[u].pc \in HeldPC => Holding(ptx[u])'
    <3>1. CASE ptx[u].pc = "lock"
      <4>1. Asking(ptx[u])
        BY <3>1 DEF ListingInv, Locking
      <4> QED
        BY <1>6, <2>2, <3>1, <4>1 DEF Asking, HeldPC
    <3>2. CASE ptx[u].pc \in HeldPC
      <4>1. Holding(ptx[u]) /\ ptx[u].listing # l
        BY <1>1, <3>2 DEF ListingInv, Locking, l
      <4> QED
        BY <1>6, <2>2, <3>2, <4>1, SMTT(30) DEF Holding, Asking, HeldPC
    <3> QED
      BY <3>1, <3>2
  <2> QED
    BY <2>1, <2>2, <2>3 DEF ListingInv, Locking
<1> QED
  BY <1>2, <1>8, <1>9, <1>10 DEF ListingInv

(***************************************************************************)
(* New rows do not concern the purchases under way.                        *)
(***************************************************************************)
LEMMA CreateItemPreserves ==
    ASSUME ListingInv, ListingAssumption, NEW g \in Guilds, NEW q \in Quantities,
           NEW p \in Prices, CreateItem(g, q, p)
    PROVE  ListingInv'
<1> DEFINE x == Offer(g, q, p)
           k == Len(listings) + 1
<1>1. q \in Nat /\ q > 0 /\ p \in Nat
  BY DEF CreateItem, ListingAssumption
<1>2. x \in Listing /\ x.quantity = q /\ x.status = "ACTIVE"
  BY <1>1 DEF Offer, Listing, ListingStatus
<1>3. /\ listings \in Seq(Listing) /\ stock \in Seq(Nat) /\ DOMAIN stock = DOMAIN listings
      /\ failures \in Nat
  BY SaleTypes
<1>4. listings' = Append(listings, x) /\ stock' = Append(stock, q)
  BY DEF CreateItem
<1> HIDE DEF x
<1>5. Len(stock) = Len(listings)
  BY <1>3
<1>6. /\ listings' \in Seq(Listing) /\ stock' \in Seq(Nat)
      /\ DOMAIN listings' = DOMAIN listings \cup {k} /\ DOMAIN stock' = DOMAIN listings'
      /\ listings'[k] = x /\ stock'[k] = q
      /\ \A l \in DOMAIN listings : listings'[l] = listings[l] /\ stock'[l] = stock[l]
  BY <1>1, <1>2, <1>3, <1>4, <1>5
<1>7. PouchInv'
  BY PouchesUntouched DEF CreateItem, ListingInv
<1>8. UNCHANGED <<ptx, failures>>
  BY DEF CreateItem
<1>9. ListingTypeOK'
  BY <1>6, <1>7, <1>8 DEF ListingInv, ListingTypeOK, PouchInv
<1>10. StockInStep'
  <2>1. ASSUME NEW l \in DOMAIN listings'
        PROVE  /\ listings'[l].quantity = stock'[l]
               /\ listings'[l].status = "ACTIVE" <=> stock'[l] > 0
    <3>1. CASE l = k
      BY <1>1, <1>2, <1>6, <3>1
    <3>2. CASE l \in DOMAIN listings
      BY <1>6, <3>2 DEF ListingInv, StockInStep
    <3> QED
      BY <1>6, <3>1, <3>2
  <2> QED
    BY <1>6, <2>1 DEF StockInStep
<1>11. Locking'
  <2>1. ASSUME NEW u \in Buyers
        PROVE  /\ ptx[u].pc = "lock" => Asking(ptx[u])'
               /\ ptx[u].pc \in HeldPC => Holding(ptx[u])'
    <3>1. ptx[u].pc = "lock" => Asking(ptx[u])
      BY DEF ListingInv, Locking
    <3>2. ptx[u].pc \in HeldPC => Holding(ptx[u])
      BY DEF ListingInv, Locking
    <3> QED
      BY <1>6, <1>8, <3>1, <3>2 DEF Holding, Asking
  <2> QED
    BY <1>8, <2>1 DEF ListingInv, Locking
<1> QED
  BY <1>7, <1>9, <1>10, <1>11 DEF ListingInv

(***************************************************************************)
(* After a restart there is no purchase.                                   *)
(***************************************************************************)
LEMMA RestartPreserves ==
    ASSUME ListingInv, PouchTableAssumption, ListingAssumption, Restart
    PROVE  ListingInv'
<1>1. PouchInv'
  BY RollbackAllPreserves DEF Restart, ListingInv
<1>2. /\ ptx' \in [Buyers -> Purchase] /\ \A t \in Buyers : ptx'[t].pc = "idle"
      /\ "idle" \notin HeldPC
  BY NoPurchaseIsPurchase DEF Restart, HeldPC
<1>3. failures' \in Nat /\ listings' = listings /\ stock' = stock
  BY SaleTypes DEF Restart, stockVars
<1> QED
  BY <1>1, <1>2, <1>3
     DEF ListingInv, ListingTypeOK, StockInStep, Locking, PouchInv

(***************************************************************************)
(* The clock, and steps that change nothing.                               *)
(***************************************************************************)
LEMMA IdleStepPreserves ==
    ASSUME ListingInv, PouchTableAssumption, ListingTime \/ UNCHANGED listingVars
    PROVE  ListingInv'
<1>1. PouchInv'
  <2>1. CASE ListingTime
    BY <2>1, ClockPreserves DEF ListingTime, ListingInv
  <2>2. CASE UNCHANGED listingVars
    BY <2>2, PouchesUntouched DEF listingVars, pouchVars, clockVars, ListingInv
  <2> QED
    BY <2>1, <2>2
<1>2. UNCHANGED <<listings, stock, ptx, failures>>
  BY DEF ListingTime, stockVars, listingVars
<1> QED
  BY <1>1, <1>2
     DEF ListingInv, ListingTypeOK, StockInStep, Locking, Holding, Asking, PouchInv

(***************************************************************************)
(* The seeded listings mirror the seeded inventories.                      *)
(***************************************************************************)
LEMMA SeedOffersEstablish ==
    ASSUME PouchTableAssumption, ListingAssumption, ListingInit
    PROVE  ListingInv
<1>1. PouchInv
  BY SeedEstablishes DEF ListingInit
<1> DEFINE O == [guild: Guilds, quantity: Nat \ {0}, price: Nat \ {0}]
<1>2. SeedOffers \in Seq(O)
  BY DEF ListingAssumption
<1> HIDE DEF O
<1>3. \A l \in DOMAIN SeedOffers : SeedOffers[l] \in O
  BY <1>2
<1>4. ASSUME NEW l \in DOMAIN SeedOffers
      PROVE  /\ SeedOffers[l].quantity \in Nat /\ SeedOffers[l].quantity > 0
             /\ SeedOffers[l].guild \in Guilds /\ SeedOffers[l].price \in Nat
  BY <1>3 DEF O
<1>5. DOMAIN SeedOffers = 1 .. Len(SeedOffers) /\ Len(SeedOffers) \in Nat
  BY <1>2
<1>6. /\ DOMAIN listings = DOMAIN SeedOffers /\ DOMAIN stock = DOMAIN SeedOffers
      /\ \A l \in DOMAIN SeedOffers :
            /\ listings[l] \in Listing /\ listings[l].status = "ACTIVE"
            /\ listings[l].quantity = SeedOffers[l].quantity
            /\ stock[l] = SeedOffers[l].quantity
  BY <1>4 DEF ListingInit, Offer, Listing, ListingStatus
<1>7. listings \in Seq(Listing) /\ stock \in Seq(Nat)
  <2>1. listings \in [1 .. Len(SeedOffers) -> Listing]
    BY <1>5, <1>6 DEF ListingInit
  <2>2. stock \in [1 .. Len(SeedOffers) -> Nat]
    BY <1>4, <1>5, <1>6 DEF ListingInit
  <2>3. \A n \in Nat : \A S, f : f \in [1 .. n -> S] => f \in Seq(S)
    OBVIOUS
  <2> QED
    BY <1>5, <2>1, <2>2, <2>3, Zenon
<1>8. /\ ptx \in [Buyers -> Purchase] /\ \A t \in Buyers : ptx[t].pc = "idle"
      /\ "idle" \notin HeldPC /\ failures \in Nat
  BY NoPurchaseIsPurchase DEF ListingInit, HeldPC
<1>9. StockInStep
  BY <1>4, <1>6 DEF StockInStep
<1> QED
  BY <1>1, <1>7, <1>8, <1>9 DEF ListingInv, ListingTypeOK, Locking, PouchInv

-----------------------------------------------------------------------------
(* The theorems.                                                           *)

(***************************************************************************)
(* Every step keeps ListingInv.                                            *)
(***************************************************************************)
LEMMA SaleStepPreserves ==
    ASSUME ListingInv, [ListingNext]_listingVars
    PROVE  ListingInv'
<1> USE PouchTableAssumption, ListingAssumption
<1>1. ASSUME NEW g \in Guilds, NEW q \in Quantities, NEW p \in Prices, CreateItem(g, q, p)
      PROVE  ListingInv'
  BY <1>1, CreateItemPreserves
<1>2. ASSUME NEW t \in Buyers, NEW g \in Guilds, NEW l \in DOMAIN listings,
             NEW q \in Quantities, BeginPurchase(t, g, l, q)
      PROVE  ListingInv'
  BY <1>2, BeginPurchasePreserves
<1>3. ASSUME NEW t \in Buyers, PurchaseStep(t) \/ DeadlockVictim(t) \/ FailPurchase(t)
      PROVE  ListingInv'
  <2>1. CASE LockListing(t)
    BY <2>1, LockListingPreserves
  <2>2. CASE ReserveTotal(t) \/ SettleTotal(t) \/ CreditSeller(t)
    BY <2>2, GoldStepPreserves
  <2>3. CASE CommitPurchase(t)
    BY <2>3, CommitPurchasePreserves
  <2>4. CASE RefusePurchase(t) \/ DeadlockVictim(t) \/ FailPurchase(t)
    <3>1. failures' \in Nat
      BY <2>4, SaleTypes DEF RefusePurchase, DeadlockVictim, FailPurchase
    <3>2. Undo(t) /\ UNCHANGED clockVars
      BY <2>4 DEF RefusePurchase, DeadlockVictim, FailPurchase
    <3> QED
      BY <3>1, <3>2, UndoPreserves
  <2> QED
    BY <1>3, <2>1, <2>2, <2>3, <2>4 DEF PurchaseStep
<1>4. CASE Restart
  BY <1>4, RestartPreserves
<1>5. CASE ListingTime \/ UNCHANGED listingVars
  BY <1>5, IdleStepPreserves
<1> QED
  BY <1>1, <1>2, <1>3, <1>4, <1>5 DEF ListingNext, NoRequests, CreateRequest, PurchaseRequest

(***************************************************************************)
(* ListingInv is inductive.                                                *)
(***************************************************************************)
THEOREM ListingInvariant == ListingSpec => []ListingInv
<1>1. ListingInit => ListingInv
  BY PouchTableAssumption, ListingAssumption, SeedOffersEstablish
<1>2. ListingInv /\ [ListingNext]_listingVars => ListingInv'
  BY SaleStepPreserves
<1> QED
  BY <1>1, <1>2, PTL DEF ListingSpec

(***************************************************************************)
(* Every row and every purchase in progress keeps its type; no quantity    *)
(* ever becomes negative.                                                  *)
(***************************************************************************)
THEOREM SaleTypesCorrect == ListingSpec => []ListingTypeOK
<1>1. ListingInv => ListingTypeOK
  BY DEF ListingInv
<1> QED
  BY <1>1, ListingInvariant, PTL

(***************************************************************************)
(* A listing offers exactly what its seller has in stock, and is ACTIVE    *)
(* exactly as long as that is something, however purchases race, lock each *)
(* other out, fail or die with the server.                                 *)
(***************************************************************************)
THEOREM StockStaysInStep == ListingSpec => []StockInStep
<1>1. ListingInv => StockInStep
  BY DEF ListingInv
<1> QED
  BY <1>1, ListingInvariant, PTL

(***************************************************************************)
(* Purchases never overdraw a pouch or a daily limit.                      *)
(***************************************************************************)
THEOREM PurchasesSolvent == ListingSpec => []Solvency
<1>1. ListingInv => Solvency
  BY PouchInvImplies DEF ListingInv
<1> QED
  BY <1>1, ListingInvariant, PTL

(***************************************************************************)
(* The log explains every balance that purchases leave behind.             *)
(***************************************************************************)
THEOREM PurchasesReconciled == ListingSpec => []Reconciled
<1>1. ListingInv => Reconciled
  BY PouchInvImplies DEF ListingInv
<1> QED
  BY <1>1, ListingInvariant, PTL

-----------------------------------------------------------------------------
(* Purchases and the daily limit.                                          *)

UnpaidPC == {"idle", "lock", "reserve", "settle"}

(***************************************************************************)
(* A purchase pays once, so that no midnight falls between two payments.   *)
(***************************************************************************)
PaysOnce ==
    \A t \in Buyers : ptx[t].pc \in UnpaidPC => \A g \in Guilds : Spent(newLog[t][g]) = 0

(***************************************************************************)
(* A step of one purchase leaves the entries of the others alone.          *)
(***************************************************************************)
LEMMA PaysOnceFrame ==
    ASSUME ListingInv, PaysOnce, NEW t \in Buyers,
           \A u \in Buyers \ {t} : ptx'[u] = ptx[u] /\ newLog'[u] = newLog[u],
           ptx'[t].pc \in UnpaidPC => \A g \in Guilds : Spent(newLog'[t][g]) = 0
    PROVE  PaysOnce'
  BY DEF PaysOnce

(***************************************************************************)
(* What the records and the entries are after a step that moves gold.      *)
(***************************************************************************)
LEMMA GoldStepEntries ==
    ASSUME ListingInv, ListingAssumption, NEW t \in Buyers, NEW g \in Guilds, NEW gp,
           NEW type, NEW amount, NEW step, WriteRow(t, g, gp, type, amount), Proceed(t, step)
    PROVE  /\ UNCHANGED <<pouch, log>>
           /\ \A u \in Buyers \ {t} : ptx'[u] = ptx[u] /\ newLog'[u] = newLog[u]
           /\ ptx'[t].pc = step
           /\ newLog'[t][g] = writeLog(newLog[t][g], type, amount)
           /\ \A h \in Guilds \ {g} : newLog'[t][h] = newLog[t][h]
<1>1. ptx \in [Buyers -> Purchase] /\ newLog \in [Txs -> [Guilds -> Log]] /\ t \in Txs
      /\ Buyers \subseteq Txs
  BY DEF ListingInv, ListingTypeOK, PouchTypeOK, ListingAssumption
<1>2. newLog' = [newLog EXCEPT ![t] = [newLog[t] EXCEPT ![g] =
                                         writeLog(newLog[t][g], type, amount)]]
  BY DEF WriteRow, Entry
<1>3. ptx' = [ptx EXCEPT ![t] = [ptx[t] EXCEPT !.pc = step]]
  BY Zenon DEF Proceed
<1>4. ptx[t] \in Purchase /\ newLog[t] \in [Guilds -> Log]
  BY <1>1
<1>5. ptx'[t].pc = step /\ \A u \in Buyers \ {t} : ptx'[u] = ptx[u]
  BY <1>1, <1>3, <1>4 DEF Purchase
<1>6. /\ newLog'[t][g] = writeLog(newLog[t][g], type, amount)
      /\ \A h \in Guilds \ {g} : newLog'[t][h] = newLog[t][h]
      /\ \A u \in Buyers \ {t} : newLog'[u] = newLog[u]
  BY <1>1, <1>2, <1>4
<1> QED
  BY <1>5, <1>6 DEF WriteRow

(***************************************************************************)
(* The steps that move gold.                                               *)
(***************************************************************************)
LEMMA GoldStepIsMetered ==
    ASSUME ListingInv, PouchTableAssumption, ListingAssumption, Metered, PaysOnce,
           NEW t \in Buyers, ReserveTotal(t) \/ SettleTotal(t) \/ CreditSeller(t)
    PROVE  Metered' /\ PaysOnce' /\ UNCHANGED <<pouch, log>>
<1>1. /\ PouchInv /\ t \in Txs /\ Total(t) \in Nat /\ ptx[t].guild \in Guilds
      /\ Seller(t) \in Guilds
  <2>1. ptx[t].pc \in HeldPC
    BY DEF ReserveTotal, SettleTotal, CreditSeller, HeldPC
  <2> QED
    BY <2>1, HeldRows DEF ListingInv
<1>2. \A g \in Guilds : newLog[t][g] \in Log
  BY <1>1 DEF PouchInv, PouchTypeOK
<1>3. CASE ReserveTotal(t)
  <2> DEFINE g == ptx[t].guild
             gp == Reserve(SeenRow(t, g), Total(t), today)
  <2>1. /\ WriteRow(t, g, gp, "RESERVE", Total(t)) /\ Proceed(t, "settle")
        /\ UNCHANGED clockVars
    BY <1>3 DEF ReserveTotal
  <2>2. \A h \in Guilds : Spent(newLog[t][h]) = 0
    BY <1>3 DEF ReserveTotal, PaysOnce, UnpaidPC
  <2>3. Metered'
    BY <1>1, <2>1, <2>2, FirstPaymentIsMetered
  <2> HIDE DEF g, gp
  <2>4. g \in Guilds
    BY <1>1 DEF g
  <2>5. Spent(writeLog(newLog[t][g], "RESERVE", Total(t))) = 0
    BY <1>1, <1>2, <2>2, <2>4, SpentEntry DEF TransactionType
  <2>6. /\ UNCHANGED <<pouch, log>>
        /\ \A u \in Buyers \ {t} : ptx'[u] = ptx[u] /\ newLog'[u] = newLog[u]
        /\ newLog'[t][g] = writeLog(newLog[t][g], "RESERVE", Total(t))
        /\ \A h \in Guilds \ {g} : newLog'[t][h] = newLog[t][h]
    BY <2>1, <2>4, GoldStepEntries
  <2>7. \A h \in Guilds : Spent(newLog'[t][h]) = 0
    BY <2>2, <2>5, <2>6
  <2> QED
    BY <2>3, <2>6, <2>7, PaysOnceFrame
<1>4. CASE SettleTotal(t)
  <2> DEFINE g == ptx[t].guild
             gp == Settle(SeenRow(t, g), Total(t), today)
  <2>1. /\ WriteRow(t, g, gp, "PURCHASE", Total(t)) /\ Proceed(t, "credit")
        /\ UNCHANGED clockVars
    BY <1>4 DEF SettleTotal
  <2>2. Spent(newLog[t][g]) = 0
    BY <1>1, <1>4 DEF SettleTotal, PaysOnce, UnpaidPC
  <2>3. Metered'
    <3>1. \E type \in {"PURCHASE", "AUCTION_WIN"} : WriteRow(t, g, gp, type, Total(t))
      BY <2>1
    <3> QED
      BY <1>1, <2>1, <2>2, <3>1, FirstPaymentIsMetered
  <2> HIDE DEF g, gp
  <2>4. g \in Guilds
    BY <1>1 DEF g
  <2>5. "credit" \notin UnpaidPC
    BY DEF UnpaidPC
  <2>6. /\ UNCHANGED <<pouch, log>>
        /\ \A u \in Buyers \ {t} : ptx'[u] = ptx[u] /\ newLog'[u] = newLog[u]
        /\ ptx'[t].pc = "credit"
    BY <2>1, <2>4, GoldStepEntries
  <2> QED
    BY <2>3, <2>5, <2>6, PaysOnceFrame
<1>5. CASE CreditSeller(t)
  <2> DEFINE g == Seller(t)
             gp == Credit(SeenRow(t, g), Total(t))
  <2>1. /\ WriteRow(t, g, gp, "CREDIT", Total(t)) /\ Proceed(t, "commit")
        /\ UNCHANGED clockVars
    BY <1>5 DEF CreditSeller
  <2>2. Metered'
    BY <1>1, <2>1, OtherWriteIsMetered
  <2> HIDE DEF g, gp
  <2>3. g \in Guilds
    BY <1>1 DEF g
  <2>4. "commit" \notin UnpaidPC
    BY DEF UnpaidPC
  <2>5. /\ UNCHANGED <<pouch, log>>
        /\ \A u \in Buyers \ {t} : ptx'[u] = ptx[u] /\ newLog'[u] = newLog[u]
        /\ ptx'[t].pc = "commit"
    BY <2>1, <2>3, GoldStepEntries
  <2> QED
    BY <2>2, <2>4, <2>5, PaysOnceFrame
<1> QED
  BY <1>3, <1>4, <1>5

(***************************************************************************)
(* The end of a purchase.                                                  *)
(***************************************************************************)
LEMMA EndIsMetered ==
    ASSUME ListingInv, PouchTableAssumption, ListingAssumption, Metered, PaysOnce,
           NEW t \in Buyers, CommitPurchase(t) \/ (Undo(t) /\ UNCHANGED clockVars)
    PROVE  Metered' /\ PaysOnce' /\ Metering
<1>1. /\ PouchInv /\ t \in Txs /\ UNCHANGED clockVars /\ Leave(t)
      /\ CommitRows(t) \/ RollbackRows(t)
  BY SaleTypes DEF ListingInv, CommitPurchase, Undo
<1>2. Metered'
  BY <1>1, CommitIsMetered, RollbackIsMetered
<1>3. Metering
  <2>1. CASE CommitRows(t)
    BY <1>1, <2>1, CommitIsMetered DEF Metering
  <2>2. CASE RollbackRows(t)
    BY <1>1, <2>2, NothingMetered DEF RollbackRows
  <2> QED
    BY <1>1, <2>1, <2>2
<1>4. PaysOnce'
  <2>1. newLog' = [newLog EXCEPT ![t] = NoEntries] /\ newLog \in [Txs -> [Guilds -> Log]]
    BY <1>1 DEF CommitRows, RollbackRows, PouchInv, PouchTypeOK
  <2>2. ptx' = [ptx EXCEPT ![t] = NoPurchase] /\ ptx \in [Buyers -> Purchase]
    BY <1>1 DEF Leave, ListingInv, ListingTypeOK
  <2>3. \A u \in Buyers \ {t} : ptx'[u] = ptx[u] /\ newLog'[u] = newLog[u]
    BY <1>1, <2>1, <2>2 DEF ListingAssumption
  <2>4. \A g \in Guilds : Spent(newLog'[t][g]) = 0
    <3>1. Spent(EmptyLog) = 0 /\ \A g \in Guilds : newLog'[t][g] = EmptyLog
      BY <1>1, <2>1 DEF NoEntries, Spent, EmptyLog, TransactionType
    <3> QED
      BY <3>1
  <2> QED
    BY <2>3, <2>4, PaysOnceFrame
<1> QED
  BY <1>2, <1>3, <1>4

(***************************************************************************)
(* Every step of the sales moves the meters as it should.                  *)
(***************************************************************************)
LEMMA SalesAreMetered ==
    ASSUME ListingInv, Metered, PaysOnce, [ListingNext]_listingVars
    PROVE  Metered' /\ PaysOnce' /\ Metering
<1> USE PouchTableAssumption, ListingAssumption
<1>1. PouchInv /\ ptx \in [Buyers -> Purchase]
  BY DEF ListingInv, ListingTypeOK
<1>2. ASSUME UNCHANGED <<pouchVars, clockVars>>,
             \A t \in Buyers : ptx'[t].pc \in UnpaidPC => ptx[t].pc \in UnpaidPC
      PROVE  Metered' /\ PaysOnce' /\ Metering
  <2>1. PaysOnce'
    BY <1>2 DEF PaysOnce, pouchVars
  <2> QED
    BY <1>1, <1>2, <2>1, OthersAreMetered
<1>3. ASSUME NEW t \in Buyers,
             \/ \E g \in Guilds, l \in DOMAIN listings, q \in Quantities :
                   BeginPurchase(t, g, l, q)
             \/ LockListing(t)
      PROVE  Metered' /\ PaysOnce' /\ Metering
  <2>1. UNCHANGED <<pouchVars, clockVars>> /\ ptx[t].pc \in UnpaidPC
    BY <1>3 DEF BeginPurchase, LockListing, UnpaidPC
  <2>2. \A u \in Buyers \ {t} : ptx'[u] = ptx[u]
    BY <1>1, <1>3 DEF BeginPurchase, LockListing
  <2> QED
    BY <1>2, <2>1, <2>2
<1>4. CASE CreateRequest \/ NoRequests \/ UNCHANGED listingVars
  <2>1. UNCHANGED <<pouchVars, clockVars, ptx>>
    BY <1>4 DEF CreateRequest, CreateItem, NoRequests, listingVars, pouchVars, clockVars
  <2> QED
    BY <1>2, <2>1
<1>5. CASE ListingTime
  <2>1. AdvanceClock /\ UNCHANGED <<pouchVars, ptx>>
    BY <1>5 DEF ListingTime
  <2>2. PaysOnce'
    BY <2>1 DEF PaysOnce, pouchVars
  <2> QED
    BY <1>1, <2>1, <2>2, OthersAreMetered
<1>6. CASE Restart
  <2>1. RollbackAllRows /\ UNCHANGED clockVars
    BY <1>6 DEF Restart
  <2>2. PaysOnce'
    <3>1. /\ \A t \in Txs, g \in Guilds : newLog'[t][g] = EmptyLog
          /\ Spent(EmptyLog) = 0 /\ Buyers \subseteq Txs
      BY <2>1 DEF RollbackAllRows, NoEntries, Spent, EmptyLog, TransactionType,
                  ListingAssumption
    <3> QED
      BY <3>1 DEF PaysOnce
  <2> QED
    BY <1>1, <2>1, <2>2, OthersAreMetered
<1>7. ASSUME NEW t \in Buyers, RefusePurchase(t) \/ DeadlockVictim(t) \/ FailPurchase(t)
      PROVE  Metered' /\ PaysOnce' /\ Metering
  BY <1>7, EndIsMetered DEF RefusePurchase, DeadlockVictim, FailPurchase
<1>8. ASSUME NEW t \in Buyers, ReserveTotal(t) \/ SettleTotal(t) \/ CreditSeller(t)
      PROVE  Metered' /\ PaysOnce' /\ Metering
  BY <1>1, <1>8, GoldStepIsMetered, NothingMetered
<1> QED
  BY <1>3, <1>4, <1>5, <1>6, <1>7, <1>8, EndIsMetered
     DEF ListingNext, PurchaseStep, PurchaseRequest

-----------------------------------------------------------------------------
(* Sales implement the shop: what a purchase writes in several steps under *)
(* its locks amounts to one exchange of goods and gold when it commits.    *)

\* The pouches whose row a purchase has locked so far.
Held(t) ==
    {g \in Guilds : \/ g = ptx[t].guild /\ ptx[t].pc \in {"settle", "credit", "commit"}
                    \/ g = Seller(t) /\ ptx[t].pc = "commit"}

\* What it has written there: what the row of g will have lost and gained.
Paid(t, g) ==
    IF g = ptx[t].guild /\ ptx[t].pc \in {"credit", "commit"} THEN Total(t) ELSE 0

Got(t, g) == IF g = Seller(t) /\ ptx[t].pc = "commit" THEN Total(t) ELSE 0

Escrow(t) == IF ptx[t].pc = "settle" THEN Total(t) ELSE 0

(***************************************************************************)
(* A purchase holds just the rows that it has got to, and what it carries  *)
(* in them is what it has done so far and nothing else.                    *)
(***************************************************************************)
Carries(t) ==
    /\ \A g \in Guilds : holder[g] = t <=> g \in Held(t)
    /\ \A g \in Held(t) :
          /\ draft[g].total = pouch[g].total - Paid(t, g) + Got(t, g)
          /\ draft[g].reserved = pouch[g].reserved + Escrow(t)
    /\ ptx[t].pc \in {"credit", "commit"} => Total(t) <= pouch[ptx[t].guild].total
    /\ ptx[t].pc # "idle" => ptx[t].quantity \in Quantities

BookKeeping == \A t \in Buyers : Carries(t)

SaleInv == ListingInv /\ BookKeeping

SalesAssumption == PouchTableAssumption /\ ListingAssumption

-----------------------------------------------------------------------------
(* What the steps of a purchase have in common.                            *)

(***************************************************************************)
(* The amounts a purchase works with, once it has its listing.             *)
(***************************************************************************)
LEMMA PurchaseAmounts ==
    ASSUME SaleInv, SalesAssumption, NEW t \in Buyers, ptx[t].pc \in HeldPC
    PROVE  /\ t \in Txs /\ t # None /\ Total(t) \in Nat
           /\ ptx[t].guild \in Guilds /\ Seller(t) \in Guilds
           /\ \A g \in Guilds : /\ pouch[g].total \in Int /\ pouch[g].reserved \in Int
                                /\ draft[g].total \in Int /\ draft[g].reserved \in Int
                                /\ pouch[g] \in Pouch /\ draft[g] \in Pouch
<1>1. \A g \in Guilds : pouch[g] \in Pouch /\ draft[g] \in Pouch
  BY DEF SaleInv, ListingInv, PouchInv, PouchTypeOK
<1> QED
  BY <1>1, HeldRows, RowFields DEF SaleInv, SalesAssumption, PouchTableAssumption

(***************************************************************************)
(* What the three operations do to the two balances of a row.              *)
(***************************************************************************)
LEMMA Balances ==
    ASSUME NEW gp \in Pouch, NEW amount \in Nat, NEW date \in Nat
    PROVE  /\ gp.total \in Int /\ gp.reserved \in Int
           /\ Reserve(gp, amount, date).total = gp.total
           /\ Reserve(gp, amount, date).reserved = gp.reserved + amount
           /\ Settle(gp, amount, date).total = gp.total - amount
           /\ Settle(gp, amount, date).reserved = gp.reserved - amount
           /\ Credit(gp, amount).total = gp.total + amount
           /\ Credit(gp, amount).reserved = gp.reserved
<1>1. gp.total \in Int /\ gp.reserved \in Int
  BY RowFields
<1>2. /\ Reserve(gp, amount, date).total = gp.total
      /\ Reserve(gp, amount, date).reserved = gp.reserved + amount
  BY ReserveRow
<1>3. /\ Settle(gp, amount, date).total = gp.total - amount
      /\ Settle(gp, amount, date).reserved = gp.reserved - amount
  BY SettleRow
<1>4. /\ Credit(gp, amount).total = gp.total + amount
      /\ Credit(gp, amount).reserved = gp.reserved
  BY CreditRow
<1> QED
  BY <1>1, <1>2, <1>3, <1>4

(***************************************************************************)
(* A purchase that has no pouch yet has no row lock.                       *)
(***************************************************************************)
LEMMA EmptyHanded ==
    ASSUME NEW t \in Buyers, ptx[t].pc \in {"idle", "lock", "reserve"}
    PROVE  Carries(t) <=> /\ \A g \in Guilds : holder[g] # t
                          /\ ptx[t].pc # "idle" => ptx[t].quantity \in Quantities
  BY DEF Carries, Held

(***************************************************************************)
(* A step of the others leaves a purchase what it carries.                 *)
(***************************************************************************)
LEMMA Aside ==
    ASSUME SaleInv, SalesAssumption, NEW u \in Buyers, ptx'[u] = ptx[u],
           \A l \in DOMAIN listings : /\ listings'[l].basePrice = listings[l].basePrice
                                      /\ listings'[l].guild = listings[l].guild,
           \A g \in Guilds : holder'[g] = u <=> holder[g] = u,
           \A g \in Guilds : holder[g] = u => draft'[g] = draft[g] /\ pouch'[g] = pouch[g]
    PROVE  Carries(u)'
<1>1. Carries(u)
  BY DEF SaleInv, BookKeeping
<1>2. CASE ptx[u].pc \in {"settle", "credit", "commit"}
  <2>1. ptx[u].pc \in HeldPC
    BY <1>2 DEF HeldPC
  <2>2. ptx[u].listing \in DOMAIN listings
    BY <2>1 DEF SaleInv, ListingInv, Locking, Holding, Asking
  <2>3. Total(u)' = Total(u) /\ Seller(u)' = Seller(u)
    BY <2>2 DEF Total, Seller
  <2>4. Held(u)' = Held(u) /\ Escrow(u)' = Escrow(u)
    BY <2>3 DEF Held, Escrow
  <2>5. \A g \in Guilds : Paid(u, g)' = Paid(u, g) /\ Got(u, g)' = Got(u, g)
    BY <2>3 DEF Paid, Got
  <2>6. ptx[u].guild \in Guilds /\ ptx[u].guild \in Held(u) /\ Held(u) \subseteq Guilds
    BY <1>2, <2>1, PurchaseAmounts DEF Held
  <2>7. \A g \in Held(u) : draft'[g] = draft[g] /\ pouch'[g] = pouch[g]
    BY <1>1, <2>6 DEF Carries
  <2> QED
    BY <1>1, <2>3, <2>4, <2>5, <2>6, <2>7 DEF Carries
<1>3. CASE ptx[u].pc \notin {"settle", "credit", "commit"}
  <2>1. Held(u) = {} /\ Held(u)' = {}
    BY <1>3 DEF Held
  <2> QED
    BY <1>1, <1>3, <2>1 DEF Carries
<1> QED
  BY <1>2, <1>3

(***************************************************************************)
(* Steps that leave the pouches alone.                                     *)
(***************************************************************************)
LEMMA NoGoldMoves ==
    ASSUME SaleInv, SalesAssumption, UNCHANGED pouchVars,
           \A l \in DOMAIN listings : /\ listings'[l].basePrice = listings[l].basePrice
                                      /\ listings'[l].guild = listings[l].guild,
           \A u \in Buyers :
              \/ ptx'[u] = ptx[u]
              \/ /\ ptx[u].pc \in {"idle", "lock"} /\ ptx'[u].pc \in {"lock", "reserve"}
                 /\ ptx'[u].quantity \in Quantities
    PROVE  BookKeeping'
<1>1. ASSUME NEW u \in Buyers
      PROVE  Carries(u)'
  <2>1. CASE ptx'[u] = ptx[u]
    BY <2>1, Aside DEF pouchVars
  <2>2. CASE /\ ptx[u].pc \in {"idle", "lock"} /\ ptx'[u].pc \in {"lock", "reserve"}
             /\ ptx'[u].quantity \in Quantities
    <3>1. \A g \in Guilds : holder[g] # u
      BY <2>2 DEF SaleInv, BookKeeping, Carries, Held
    <3>2. Held(u)' = {}
      BY <2>2 DEF Held
    <3> QED
      BY <2>2, <3>1, <3>2 DEF Carries, pouchVars
  <2> QED
    BY <2>1, <2>2
<1> QED
  BY <1>1 DEF BookKeeping

(***************************************************************************)
(* A write to one row concerns the purchase that holds it only.            *)
(***************************************************************************)
LEMMA OthersWait ==
    ASSUME SaleInv, SalesAssumption, NEW t \in Buyers, NEW step \in HeldPC, Proceed(t, step),
           NEW g \in Guilds, NEW gp, NEW type, NEW amount,
           RowFree(t, g), WriteRow(t, g, gp, type, amount), UNCHANGED stockVars,
           Carries(t)'
    PROVE  BookKeeping'
<1>1. /\ holder' = [holder EXCEPT ![g] = t] /\ draft' = [draft EXCEPT ![g] = gp]
      /\ pouch' = pouch /\ listings' = listings /\ holder[g] \in {None, t}
  BY DEF WriteRow, stockVars, RowFree
<1>2. /\ holder \in [Guilds -> Txs \cup {None}] /\ draft \in [Guilds -> Pouch]
      /\ ptx \in [Buyers -> Purchase] /\ \A u \in Buyers : u \in Txs /\ u # None
  BY SaleTypes DEF SaleInv, ListingInv, PouchInv, PouchTypeOK, ListingTypeOK, SalesAssumption,
                   PouchTableAssumption
<1>3. ptx' = [ptx EXCEPT ![t].pc = step]
  BY DEF Proceed
<1>4. ASSUME NEW u \in Buyers, u # t
      PROVE  Carries(u)'
  <2>1. ptx'[u] = ptx[u]
    BY <1>2, <1>3, <1>4
  <2>2. \A h \in Guilds : holder'[h] = u <=> holder[h] = u
    BY <1>1, <1>2, <1>4
  <2>3. \A h \in Guilds : holder[h] = u => draft'[h] = draft[h] /\ pouch'[h] = pouch[h]
    BY <1>1, <1>2, <1>4
  <2> QED
    BY <1>1, <2>1, <2>2, <2>3, Aside
<1> QED
  BY <1>4 DEF BookKeeping

(***************************************************************************)
(* The record of a purchase after a step under its locks.                  *)
(***************************************************************************)
LEMMA NextRecord ==
    ASSUME SaleInv, SalesAssumption, NEW t \in Buyers, ptx[t].pc \in HeldPC,
           NEW step \in HeldPC, Proceed(t, step), UNCHANGED stockVars
    PROVE  /\ ptx'[t].pc = step /\ ptx'[t].guild = ptx[t].guild
           /\ ptx'[t].quantity = ptx[t].quantity /\ ptx[t].quantity \in Quantities
           /\ Total(t)' = Total(t) /\ Seller(t)' = Seller(t)
<1>1. ptx \in [Buyers -> Purchase] /\ ptx' = [ptx EXCEPT ![t].pc = step]
  BY DEF SaleInv, ListingInv, ListingTypeOK, Proceed
<1>2. /\ ptx'[t].pc = step /\ ptx'[t].guild = ptx[t].guild
      /\ ptx'[t].quantity = ptx[t].quantity /\ ptx'[t].listing = ptx[t].listing
  BY <1>1 DEF Purchase
<1>3. ptx[t].quantity \in Quantities
  BY DEF SaleInv, BookKeeping, Carries, HeldPC
<1> QED
  BY <1>2, <1>3 DEF Total, Seller, stockVars

(***************************************************************************)
(* Reserve adds the total to what the row carries as reserved.             *)
(***************************************************************************)
LEMMA ReserveKeepsBooks ==
    ASSUME SaleInv, SalesAssumption, NEW t \in Buyers, ReserveTotal(t)
    PROVE  BookKeeping'
<1> DEFINE g == ptx[t].guild
           gp == Reserve(SeenRow(t, g), Total(t), today)
<1>1. ptx[t].pc = "reserve" /\ ptx[t].pc \in HeldPC /\ "settle" \in HeldPC
  BY DEF ReserveTotal, HeldPC
<1>2. /\ g \in Guilds /\ Total(t) \in Nat /\ t \in Txs /\ today \in Nat
      /\ pouch[g] \in Pouch /\ pouch[g].reserved \in Int /\ pouch[g].total \in Int
  BY <1>1, PurchaseAmounts DEF SaleInv, ListingInv, PouchInv, PouchTypeOK
<1>3. \A h \in Guilds : holder[h] # t
  BY <1>1, EmptyHanded DEF SaleInv, BookKeeping
<1>4. SeenRow(t, g) = pouch[g]
  BY <1>2, <1>3 DEF SeenRow
<1>5. gp.total = pouch[g].total /\ gp.reserved = pouch[g].reserved + Total(t)
  <2>1. gp = Reserve(pouch[g], Total(t), today)
    BY <1>4
  <2> HIDE DEF gp, g
  <2> QED
    BY <1>2, <2>1, Balances
<1>6. /\ RowFree(t, g) /\ WriteRow(t, g, gp, "RESERVE", Total(t)) /\ Proceed(t, "settle")
      /\ UNCHANGED stockVars
  BY DEF ReserveTotal
<1> HIDE DEF gp
<1>7. /\ holder' = [holder EXCEPT ![g] = t] /\ draft' = [draft EXCEPT ![g] = gp]
      /\ pouch' = pouch /\ holder \in [Guilds -> Txs \cup {None}] /\ draft \in [Guilds -> Pouch]
  BY <1>6 DEF WriteRow, SaleInv, ListingInv, PouchInv, PouchTypeOK
<1>8. /\ ptx'[t].pc = "settle" /\ ptx'[t].guild = g /\ ptx'[t].quantity \in Quantities
      /\ Total(t)' = Total(t)
  BY <1>1, <1>6, NextRecord
<1>9. Carries(t)'
  <2>1. Held(t)' = {g}
    BY <1>2, <1>8 DEF Held
  <2>2. /\ \A h \in Guilds : Paid(t, h)' = 0 /\ Got(t, h)' = 0
        /\ Escrow(t)' = Total(t)
    BY <1>8 DEF Paid, Got, Escrow
  <2>3. /\ draft'[g].total = pouch'[g].total - 0 + 0
        /\ draft'[g].reserved = pouch'[g].reserved + Total(t)
    BY <1>2, <1>5, <1>7
  <2>4. \A h \in Guilds : holder'[h] = t <=> h = g
    BY <1>3, <1>7
  <2>5. \A h \in {g} : /\ draft'[h].total = pouch'[h].total - Paid(t, h)' + Got(t, h)'
                       /\ draft'[h].reserved = pouch'[h].reserved + Total(t)
    BY <1>2, <2>2, <2>3
  <2> HIDE DEF g
  <2> QED
    BY <1>8, <2>1, <2>2, <2>4, <2>5 DEF Carries
<1> QED
  BY <1>1, <1>2, <1>6, <1>9, OthersWait

(***************************************************************************)
(* Settle pays what was reserved: the row has at least that much.          *)
(***************************************************************************)
LEMMA SettleKeepsBooks ==
    ASSUME SaleInv, SalesAssumption, NEW t \in Buyers, SettleTotal(t)
    PROVE  BookKeeping'
<1> DEFINE g == ptx[t].guild
           gp == Settle(SeenRow(t, g), Total(t), today)
<1>1. ptx[t].pc = "settle" /\ ptx[t].pc \in HeldPC /\ "credit" \in HeldPC
  BY DEF SettleTotal, HeldPC
<1>2. /\ g \in Guilds /\ Total(t) \in Nat /\ t \in Txs /\ today \in Nat
      /\ draft[g] \in Pouch /\ pouch[g].total \in Int /\ pouch[g].reserved \in Int
  BY <1>1, PurchaseAmounts DEF SaleInv, ListingInv, PouchInv, PouchTypeOK
<1>3. Carries(t) /\ Held(t) = {g}
  BY <1>1, <1>2 DEF SaleInv, BookKeeping, Held
<1>4. /\ \A h \in Guilds : holder[h] = t <=> h = g
      /\ draft[g].total = pouch[g].total /\ draft[g].reserved = pouch[g].reserved + Total(t)
  BY <1>1, <1>2, <1>3 DEF Carries, Paid, Got, Escrow
<1>5. Total(t) <= pouch[g].total
  BY <1>2, <1>4 DEF SaleInv, ListingInv, PouchInv, RowsSolvent, SolventPouch
<1>6. SeenRow(t, g) = draft[g]
  BY <1>2, <1>4 DEF SeenRow
<1>7. gp.total = pouch[g].total - Total(t) /\ gp.reserved = pouch[g].reserved
  <2>1. gp = Settle(draft[g], Total(t), today)
    BY <1>6
  <2> HIDE DEF gp, g
  <2> QED
    BY <1>2, <1>4, <2>1, Balances
<1>8. /\ RowFree(t, g) /\ WriteRow(t, g, gp, "PURCHASE", Total(t)) /\ Proceed(t, "credit")
      /\ UNCHANGED stockVars
  BY DEF SettleTotal
<1> HIDE DEF gp
<1>9. /\ holder' = [holder EXCEPT ![g] = t] /\ draft' = [draft EXCEPT ![g] = gp]
      /\ pouch' = pouch /\ holder \in [Guilds -> Txs \cup {None}] /\ draft \in [Guilds -> Pouch]
  BY <1>8 DEF WriteRow, SaleInv, ListingInv, PouchInv, PouchTypeOK
<1>10. /\ ptx'[t].pc = "credit" /\ ptx'[t].guild = g /\ ptx'[t].quantity \in Quantities
       /\ Total(t)' = Total(t)
  BY <1>1, <1>8, NextRecord
<1>11. Carries(t)'
  <2>1. Held(t)' = {g}
    BY <1>2, <1>10 DEF Held
  <2>2. /\ \A h \in Guilds : /\ Paid(t, h)' = IF h = g THEN Total(t) ELSE 0
                             /\ Got(t, h)' = 0
        /\ Escrow(t)' = 0
    BY <1>10 DEF Paid, Got, Escrow
  <2>3. /\ draft'[g].total = pouch'[g].total - Total(t) + 0
        /\ draft'[g].reserved = pouch'[g].reserved + 0
    BY <1>2, <1>7, <1>9
  <2>4. \A h \in Guilds : holder'[h] = t <=> h = g
    BY <1>4, <1>9
  <2>5. Total(t)' <= pouch'[g].total
    BY <1>5, <1>9, <1>10
  <2>6. \A h \in {g} : /\ draft'[h].total = pouch'[h].total - Paid(t, h)' + Got(t, h)'
                       /\ draft'[h].reserved = pouch'[h].reserved + 0
    BY <1>2, <2>2, <2>3
  <2> HIDE DEF g
  <2> QED
    BY <1>10, <2>1, <2>2, <2>4, <2>5, <2>6 DEF Carries
<1> QED
  BY <1>1, <1>2, <1>8, <1>11, OthersWait

(***************************************************************************)
(* Credit writes to the seller's row, or to its own once more when a guild *)
(* buys from itself.                                                       *)
(***************************************************************************)
LEMMA CreditKeepsBooks ==
    ASSUME SaleInv, SalesAssumption, NEW t \in Buyers, CreditSeller(t)
    PROVE  BookKeeping'
<1> DEFINE g == ptx[t].guild
           s == Seller(t)
           gp == Credit(SeenRow(t, s), Total(t))
<1>1. ptx[t].pc = "credit" /\ ptx[t].pc \in HeldPC /\ "commit" \in HeldPC
  BY DEF CreditSeller, HeldPC
<1>2. /\ g \in Guilds /\ s \in Guilds /\ Total(t) \in Nat /\ t \in Txs
      /\ \A h \in Guilds : /\ draft[h] \in Pouch /\ pouch[h] \in Pouch
                           /\ pouch[h].reserved \in Int /\ pouch[h].total \in Int
  BY <1>1, PurchaseAmounts
<1>3. Carries(t) /\ Held(t) = {g}
  BY <1>1, <1>2 DEF SaleInv, BookKeeping, Held
<1>4. /\ \A h \in Guilds : holder[h] = t <=> h = g
      /\ draft[g].total = pouch[g].total - Total(t) /\ draft[g].reserved = pouch[g].reserved
      /\ Total(t) <= pouch[g].total
  BY <1>1, <1>2, <1>3 DEF Carries, Paid, Got, Escrow
<1>5. /\ gp.total = (IF s = g THEN pouch[g].total ELSE pouch[s].total + Total(t))
      /\ gp.reserved = pouch[s].reserved
  <2>1. CASE s = g
    <3>1. gp = Credit(draft[g], Total(t))
      BY <1>2, <1>4, <2>1 DEF SeenRow
    <3> HIDE DEF gp, g, s
    <3>2. gp.total = draft[g].total + Total(t) /\ gp.reserved = draft[g].reserved
      BY <1>2, <3>1, <2>1, CreditRow
    <3> QED
      BY <1>2, <1>4, <2>1, <3>2
  <2>2. CASE s # g
    <3>1. gp = Credit(pouch[s], Total(t))
      BY <1>2, <1>4, <2>2 DEF SeenRow
    <3> HIDE DEF gp, g, s
    <3>2. gp.total = pouch[s].total + Total(t) /\ gp.reserved = pouch[s].reserved
      BY <1>2, <3>1, CreditRow
    <3> QED
      BY <1>2, <2>2, <3>2
  <2> QED
    BY <2>1, <2>2
<1>6. /\ RowFree(t, s) /\ WriteRow(t, s, gp, "CREDIT", Total(t)) /\ Proceed(t, "commit")
      /\ UNCHANGED stockVars
  BY DEF CreditSeller
<1> HIDE DEF gp
<1>7. /\ holder' = [holder EXCEPT ![s] = t] /\ draft' = [draft EXCEPT ![s] = gp]
      /\ pouch' = pouch /\ holder \in [Guilds -> Txs \cup {None}] /\ draft \in [Guilds -> Pouch]
  BY <1>6 DEF WriteRow, SaleInv, ListingInv, PouchInv, PouchTypeOK
<1>8. /\ ptx'[t].pc = "commit" /\ ptx'[t].guild = g /\ ptx'[t].quantity \in Quantities
      /\ Total(t)' = Total(t) /\ Seller(t)' = s
  BY <1>1, <1>6, NextRecord
<1>9. Carries(t)'
  <2>1. Held(t)' = {g, s}
    BY <1>2, <1>8 DEF Held
  <2>2. /\ \A h \in Guilds : /\ Paid(t, h)' = IF h = g THEN Total(t) ELSE 0
                             /\ Got(t, h)' = IF h = s THEN Total(t) ELSE 0
        /\ Escrow(t)' = 0
    BY <1>8 DEF Paid, Got, Escrow
  <2>3. \A h \in {g, s} : /\ draft'[h].total = pouch'[h].total - Paid(t, h)' + Got(t, h)'
                          /\ draft'[h].reserved = pouch'[h].reserved + 0
    <3> HIDE DEF g, s
    <3>1. /\ draft'[s] = gp /\ draft'[g] = IF s = g THEN gp ELSE draft[g]
          /\ pouch' = pouch
      BY <1>2, <1>7
    <3>2. CASE s = g
      BY <1>2, <1>5, <2>2, <3>1, <3>2
    <3>3. CASE s # g
      BY <1>2, <1>4, <1>5, <2>2, <3>1, <3>3
    <3> QED
      BY <3>2, <3>3
  <2>4. \A h \in Guilds : holder'[h] = t <=> h \in {g, s}
    BY <1>2, <1>4, <1>7
  <2>5. Total(t)' <= pouch'[g].total
    BY <1>4, <1>7, <1>8
  <2> HIDE DEF g, s
  <2> QED
    BY <1>8, <2>1, <2>2, <2>3, <2>4, <2>5 DEF Carries
<1> QED
  BY <1>1, <1>2, <1>6, <1>9, OthersWait

(***************************************************************************)
(* The end of a purchase: its rows are free again.                         *)
(***************************************************************************)
LEMMA LeaveKeepsBooks ==
    ASSUME SaleInv, SalesAssumption, NEW t \in Buyers, Leave(t),
           \A g \in Guilds : holder'[g] = IF holder[g] = t THEN None ELSE holder[g],
           \A g \in Guilds : holder[g] \notin {t, None} =>
                                draft'[g] = draft[g] /\ pouch'[g] = pouch[g],
           \A l \in DOMAIN listings : /\ listings'[l].basePrice = listings[l].basePrice
                                      /\ listings'[l].guild = listings[l].guild
    PROVE  BookKeeping'
<1>1. /\ ptx' = [ptx EXCEPT ![t] = NoPurchase] /\ ptx \in [Buyers -> Purchase]
      /\ \A u \in Buyers : u \in Txs /\ u # None
  BY SaleTypes DEF Leave, SaleInv, ListingInv, ListingTypeOK, SalesAssumption,
                   PouchTableAssumption
<1>2. ASSUME NEW u \in Buyers
      PROVE  Carries(u)'
  <2>1. CASE u = t
    <3>1. ptx'[t].pc = "idle" /\ Held(t)' = {}
      BY <1>1, NoPurchaseIsPurchase DEF Held
    <3>2. \A g \in Guilds : holder'[g] # t
      BY <1>1
    <3> QED
      BY <2>1, <3>1, <3>2 DEF Carries
  <2>2. CASE u # t
    <3>1. ptx'[u] = ptx[u] /\ u # None
      BY <1>1, <2>2
    <3>2. \A g \in Guilds : holder'[g] = u <=> holder[g] = u
      BY <2>2, <3>1
    <3>3. \A g \in Guilds : holder[g] = u => draft'[g] = draft[g] /\ pouch'[g] = pouch[g]
      BY <2>2, <3>1
    <3> QED
      BY <3>1, <3>2, <3>3, Aside
  <2> QED
    BY <2>1, <2>2
<1> QED
  BY <1>2 DEF BookKeeping

(***************************************************************************)
(* A rollback forgets what the purchase has done.                          *)
(***************************************************************************)
LEMMA UndoKeepsBooks ==
    ASSUME SaleInv, SalesAssumption, NEW t \in Buyers, Undo(t)
    PROVE  BookKeeping'
<1>1. /\ Leave(t) /\ listings' = listings /\ pouch' = pouch
      /\ draft' = [g \in Guilds |-> IF holder[g] = t THEN pouch[g] ELSE draft[g]]
      /\ holder' = [g \in Guilds |-> IF holder[g] = t THEN None ELSE holder[g]]
  BY DEF Undo, RollbackRows, stockVars
<1> QED
  BY <1>1, LeaveKeepsBooks

(***************************************************************************)
(* At its commit a purchase has the rows of its two guilds, and they move  *)
(* the total from the one to the other.  What was reserved there before    *)
(* still is.                                                               *)
(***************************************************************************)
LEMMA CommitMovesGold ==
    ASSUME SaleInv, SalesAssumption, NEW t \in Buyers, CommitPurchase(t)
    PROVE  /\ Total(t) <= pouch[ptx[t].guild].total
           /\ \A h \in Guilds :
                 /\ pouch'[h].total = pouch[h].total
                       - (IF h = ptx[t].guild THEN Total(t) ELSE 0)
                       + (IF h = Seller(t) THEN Total(t) ELSE 0)
                 /\ pouch'[h].reserved = pouch[h].reserved
<1> DEFINE g == ptx[t].guild
           s == Seller(t)
<1>1. ptx[t].pc = "commit" /\ ptx[t].pc \in HeldPC
  BY DEF CommitPurchase, HeldPC
<1>2. /\ Carries(t) /\ Total(t) \in Nat /\ g \in Guilds /\ s \in Guilds
      /\ \A h \in Guilds : pouch[h].total \in Int /\ pouch[h].reserved \in Int
  BY <1>1, PurchaseAmounts DEF SaleInv, BookKeeping
<1>3. Held(t) = {g, s}
  BY <1>1, <1>2 DEF Held
<1>4. /\ \A h \in Guilds : /\ Paid(t, h) = IF h = g THEN Total(t) ELSE 0
                           /\ Got(t, h) = IF h = s THEN Total(t) ELSE 0
      /\ Escrow(t) = 0
  BY <1>1 DEF Paid, Got, Escrow
<1>5. /\ \A h \in Guilds : holder[h] = t <=> h \in {g, s}
      /\ \A h \in {g, s} : /\ draft[h].total = pouch[h].total - Paid(t, h) + Got(t, h)
                           /\ draft[h].reserved = pouch[h].reserved + 0
      /\ Total(t) <= pouch[g].total
  BY <1>1, <1>2, <1>3, <1>4 DEF Carries
<1>6. pouch' = [h \in Guilds |-> IF holder[h] = t THEN draft[h] ELSE pouch[h]]
  BY DEF CommitPurchase, CommitRows
<1> HIDE DEF g, s
<1>7. ASSUME NEW h \in Guilds
      PROVE  /\ pouch'[h].total = pouch[h].total - (IF h = g THEN Total(t) ELSE 0)
                                                 + (IF h = s THEN Total(t) ELSE 0)
             /\ pouch'[h].reserved = pouch[h].reserved
  <2>1. CASE h \in {g, s}
    BY <1>2, <1>4, <1>5, <1>6, <2>1
  <2>2. CASE h \notin {g, s}
    BY <1>2, <1>5, <1>6, <2>2
  <2> QED
    BY <2>1, <2>2
<1> QED
  BY <1>5, <1>7 DEF g, s

(***************************************************************************)
(* COMMIT gives up the rows, and others may have theirs.                   *)
(***************************************************************************)
LEMMA CommitKeepsBooks ==
    ASSUME SaleInv, SalesAssumption, NEW t \in Buyers, CommitPurchase(t)
    PROVE  BookKeeping'
<1>1. /\ Leave(t)
      /\ pouch' = [h \in Guilds |-> IF holder[h] = t THEN draft[h] ELSE pouch[h]]
      /\ holder' = [h \in Guilds |-> IF holder[h] = t THEN None ELSE holder[h]]
      /\ draft' = draft
  BY DEF CommitPurchase, CommitRows
<1>2. \A l \in DOMAIN listings : /\ listings'[l].basePrice = listings[l].basePrice
                                 /\ listings'[l].guild = listings[l].guild
  <2> DEFINE n == ptx[t].left - ptx[t].quantity
             k == ptx[t].listing
             x == Sold(listings[k], n)
  <2>1. listings' = [listings EXCEPT ![k] = x]
    BY DEF CommitPurchase
  <2>2. \A l \in DOMAIN listings : listings[l] \in Listing
    BY SaleTypes DEF SaleInv, SalesAssumption
  <2>3. k \in DOMAIN listings => /\ x.basePrice = listings[k].basePrice
                                 /\ x.guild = listings[k].guild
    BY <2>2 DEF Sold, Listing
  <2> HIDE DEF x, k
  <2> QED
    BY <2>1, <2>3
<1>3. \A h \in Guilds : holder[h] \notin {t, None} => draft'[h] = draft[h] /\ pouch'[h] = pouch[h]
  BY <1>1
<1> QED
  BY <1>1, <1>2, <1>3, LeaveKeepsBooks

(***************************************************************************)
(* After a restart no row is held.                                         *)
(***************************************************************************)
LEMMA RestartKeepsBooks ==
    ASSUME SaleInv, SalesAssumption, Restart
    PROVE  BookKeeping'
<1>1. /\ \A g \in Guilds : holder'[g] = None
      /\ \A t \in Buyers : ptx'[t].pc = "idle" /\ t # None
  BY SaleTypes, NoPurchaseIsPurchase
     DEF Restart, RollbackAllRows, SaleInv, SalesAssumption, PouchTableAssumption
<1>2. \A t \in Buyers : Held(t)' = {}
  BY <1>1 DEF Held
<1>3. \A t \in Buyers : Carries(t)'
  BY <1>1, <1>2 DEF Carries
<1> QED
  BY <1>3 DEF BookKeeping

(***************************************************************************)
(* Nobody holds a seeded pouch.                                            *)
(***************************************************************************)
LEMMA SeedKeepsBooks ==
    ASSUME SalesAssumption, ListingInv, ListingInit
    PROVE  BookKeeping
<1>1. /\ \A g \in Guilds : holder[g] = None
      /\ \A t \in Buyers : ptx[t].pc = "idle" /\ t # None
  BY SaleTypes, NoPurchaseIsPurchase
     DEF ListingInit, PouchInit, SalesAssumption, PouchTableAssumption
<1>2. \A t \in Buyers : Held(t) = {}
  BY <1>1 DEF Held
<1>3. \A t \in Buyers : Carries(t)
  BY <1>1, <1>2 DEF Carries
<1> QED
  BY <1>3 DEF BookKeeping

-----------------------------------------------------------------------------
(* No gold is held back.                                                   *)

(***************************************************************************)
(* Every step of the specification keeps the books.                        *)
(***************************************************************************)
LEMMA BooksKept ==
    ASSUME SaleInv, SalesAssumption, [ListingNext]_listingVars
    PROVE  BookKeeping'
<1>1. ASSUME NEW g \in Guilds, NEW q \in Quantities, NEW p \in Prices, CreateItem(g, q, p)
      PROVE  BookKeeping'
  <2>1. listings \in Seq(Listing)
    BY SaleTypes DEF SaleInv, SalesAssumption
  <2>2. listings' = Append(listings, Offer(g, q, p)) /\ UNCHANGED <<pouchVars, ptx>>
    BY <1>1 DEF CreateItem
  <2>3. \A l \in DOMAIN listings : listings'[l] = listings[l]
    BY <2>1, <2>2
  <2> QED
    BY <2>2, <2>3, NoGoldMoves
<1>2. ASSUME NEW t \in Buyers, NEW g \in Guilds, NEW l \in DOMAIN listings,
             NEW q \in Quantities, BeginPurchase(t, g, l, q)
      PROVE  BookKeeping'
  <2>1. ptx \in [Buyers -> Purchase] /\ UNCHANGED <<pouchVars, listings>> /\ ptx[t].pc = "idle"
    BY <1>2 DEF BeginPurchase, SaleInv, ListingInv, ListingTypeOK, stockVars
  <2>2. ptx'[t].pc = "lock" /\ ptx'[t].quantity = q
    BY <1>2, <2>1 DEF BeginPurchase, NoPurchase
  <2>3. \A u \in Buyers \ {t} : ptx'[u] = ptx[u]
    BY <1>2, <2>1 DEF BeginPurchase
  <2> QED
    BY <2>1, <2>2, <2>3, NoGoldMoves
<1>3. ASSUME NEW t \in Buyers, LockListing(t)
      PROVE  BookKeeping'
  <2>1. /\ ptx \in [Buyers -> Purchase] /\ UNCHANGED <<pouchVars, listings>>
        /\ ptx[t].pc = "lock"
    BY <1>3 DEF LockListing, SaleInv, ListingInv, ListingTypeOK, stockVars
  <2>2. ptx'[t].pc = "reserve" /\ ptx'[t].quantity = ptx[t].quantity
    BY <1>3, <2>1 DEF LockListing, Purchase
  <2>3. \A u \in Buyers \ {t} : ptx'[u] = ptx[u]
    BY <1>3, <2>1 DEF LockListing
  <2>4. ptx[t].quantity \in Quantities
    BY <2>1 DEF SaleInv, BookKeeping, Carries
  <2> QED
    BY <2>1, <2>2, <2>3, <2>4, NoGoldMoves
<1>4. ASSUME NEW t \in Buyers, RefusePurchase(t) \/ DeadlockVictim(t) \/ FailPurchase(t)
      PROVE  BookKeeping'
  BY <1>4, UndoKeepsBooks DEF RefusePurchase, DeadlockVictim, FailPurchase
<1>5. CASE ListingTime \/ NoRequests \/ UNCHANGED listingVars
  <2>1. UNCHANGED <<pouchVars, listings, ptx>>
    BY <1>5 DEF ListingTime, NoRequests, listingVars, pouchVars, stockVars
  <2> QED
    BY <2>1, NoGoldMoves
<1> QED
  BY <1>1, <1>2, <1>3, <1>4, <1>5, ReserveKeepsBooks, SettleKeepsBooks, CreditKeepsBooks,
     CommitKeepsBooks, RestartKeepsBooks
     DEF ListingNext, PurchaseStep, CreateRequest, PurchaseRequest

(***************************************************************************)
(* SaleInv is inductive.                                                   *)
(***************************************************************************)
THEOREM SaleInvariant == ListingSpec => []SaleInv
<1> USE PouchTableAssumption, ListingAssumption DEF SalesAssumption
<1>1. ListingInit /\ ListingInv => BookKeeping
  BY SeedKeepsBooks
<1>2. ListingInv /\ BookKeeping /\ [ListingNext]_listingVars => BookKeeping'
  BY BooksKept DEF SaleInv
<1>3. ListingInv /\ BookKeeping => SaleInv
  BY DEF SaleInv
<1> QED
  BY <1>1, <1>2, <1>3, ListingInvariant, PTL DEF ListingSpec

(***************************************************************************)
(* No step of a purchase changes what is reserved in a committed row: what *)
(* it reserves it has paid by the time it commits.                         *)
(***************************************************************************)
LEMMA ReservedStays ==
    ASSUME SaleInv, SalesAssumption, [ListingNext]_listingVars, NEW g \in Guilds
    PROVE  pouch'[g].reserved = pouch[g].reserved
<1>1. ASSUME NEW t \in Buyers, CommitPurchase(t)
      PROVE  pouch'[g].reserved = pouch[g].reserved
  BY <1>1, CommitMovesGold, SMTT(30)
<1>2. ASSUME NEW t \in Buyers,
             \/ PurchaseRequest(t) \/ LockListing(t) \/ ReserveTotal(t) \/ SettleTotal(t)
             \/ CreditSeller(t) \/ RefusePurchase(t) \/ DeadlockVictim(t) \/ FailPurchase(t)
      PROVE  pouch' = pouch
  BY <1>2 DEF PurchaseRequest, BeginPurchase, LockListing, ReserveTotal, SettleTotal,
              CreditSeller, RefusePurchase, DeadlockVictim, FailPurchase, Undo, RollbackRows,
              WriteRow, pouchVars
<1>3. CASE CreateRequest \/ Restart \/ ListingTime \/ NoRequests \/ UNCHANGED listingVars
  BY <1>3 DEF CreateRequest, CreateItem, Restart, RollbackAllRows, ListingTime, NoRequests,
              listingVars, pouchVars
<1> QED
  BY <1>1, <1>2, <1>3 DEF ListingNext, PurchaseStep

(***************************************************************************)
(* Outside a transaction no gold is reserved for a purchase, whichever     *)
(* purchases fail half way, wait for each other or die with the server.    *)
(***************************************************************************)
THEOREM PurchasesHoldNothingBack == ListingSpec => []NothingHeldBack
<1> USE PouchTableAssumption, ListingAssumption DEF SalesAssumption
<1>1. ListingInit => NothingHeldBack
  BY DEF ListingInit, PouchInit, SeedPouch, NothingHeldBack
<1>2. SaleInv /\ NothingHeldBack /\ [ListingNext]_listingVars => NothingHeldBack'
  BY ReservedStays DEF NothingHeldBack
<1> QED
  BY <1>1, <1>2, SaleInvariant, PTL DEF ListingSpec

-----------------------------------------------------------------------------
(* The refinement.                                                         *)

(***************************************************************************)
(* What is seeded is the shop's initial state.                             *)
(***************************************************************************)
LEMMA SeedOpensShop ==
    ASSUME SalesAssumption, ListingInit
    PROVE  Retail!ShopInit
<1>1. Gold = [g \in Guilds |-> InitialGold]
  BY DEF Gold, ListingInit, PouchInit, SeedPouch
<1>2. Shelf = [l \in DOMAIN SeedOffers |->
                 Retail!Goods(SeedOffers[l].guild, SeedOffers[l].quantity, SeedOffers[l].price)]
  <2> DEFINE O == [guild: Guilds, quantity: Nat \ {0}, price: Nat \ {0}]
  <2>1. SeedOffers \in Seq(O)
    BY DEF SalesAssumption, ListingAssumption
  <2> HIDE DEF O
  <2>2. \A l \in DOMAIN SeedOffers : SeedOffers[l] \in O
    BY <2>1
  <2>3. \A l \in DOMAIN SeedOffers : SeedOffers[l].quantity # 0
    BY <2>2 DEF O
  <2> QED
    BY <2>3 DEF Shelf, ListingInit, Offer, Retail!Goods
<1> QED
  BY <1>1, <1>2 DEF Retail!ShopInit

(***************************************************************************)
(* A new listing is the last one on the shelf.                             *)
(***************************************************************************)
LEMMA CreateItemPutsUp ==
    ASSUME SaleInv, SalesAssumption, NEW g \in Guilds, NEW q \in Quantities, NEW p \in Prices,
           CreateItem(g, q, p)
    PROVE  Retail!PutUp(g, q, p)
<1> DEFINE x == Offer(g, q, p)
           y == Retail!Goods(g, q, p)
           k == Len(listings) + 1
<1>1. listings \in Seq(Listing) /\ listings' = Append(listings, x) /\ pouch' = pouch
  BY SaleTypes DEF SaleInv, SalesAssumption, CreateItem, pouchVars
<1>2. /\ y.seller = x.guild /\ y.left = x.quantity /\ y.price = x.basePrice
      /\ y = [seller |-> x.guild, left |-> x.quantity, price |-> x.basePrice,
              open |-> x.status = "ACTIVE"]
  <2>1. q # 0
    BY DEF CreateItem, SalesAssumption, ListingAssumption
  <2> QED
    BY <2>1 DEF Offer, Retail!Goods
<1> HIDE DEF x, y
<1>3. /\ Len(listings) \in Nat /\ DOMAIN listings = 1 .. Len(listings)
      /\ DOMAIN listings' = 1 .. k /\ listings'[k] = x
      /\ \A l \in DOMAIN listings : listings'[l] = listings[l]
  BY <1>1
<1>4. /\ DOMAIN Shelf' = 1 .. k /\ Shelf'[k] = y
      /\ \A l \in DOMAIN listings : Shelf'[l] = Shelf[l]
      /\ Shelf' = [l \in 1 .. k |-> Shelf'[l]]
  BY <1>2, <1>3 DEF Shelf
<1>5. Shelf \in Seq({Shelf[l] : l \in DOMAIN listings})
  <2> DEFINE T == {Shelf[l] : l \in DOMAIN listings}
  <2>1. Shelf \in [1 .. Len(listings) -> T]
    BY <1>3 DEF Shelf
  <2>2. \A n \in Nat : \A T1, f : f \in [1 .. n -> T1] => f \in Seq(T1)
    OBVIOUS
  <2> QED
    BY <1>3, <2>1, <2>2, Zenon
<1>6. Len(Shelf) = Len(listings)
  BY <1>3, <1>5 DEF Shelf
<1>7. Shelf' = Append(Shelf, y)
  BY <1>3, <1>4, <1>5, <1>6
<1>8. Gold' = Gold
  BY <1>1 DEF Gold
<1> QED
  BY <1>7, <1>8 DEF Retail!PutUp, CreateItem, y

(***************************************************************************)
(* Gold that goes from one guild to another, or to the same.               *)
(***************************************************************************)
LEMMA TransferMoves ==
    ASSUME NEW f \in [Guilds -> Int], NEW g \in Guilds, NEW s \in Guilds, NEW n \in Nat
    PROVE  Retail!Transfer(f, g, s, n)
             = [h \in Guilds |-> f[h] - (IF h = g THEN n ELSE 0) + (IF h = s THEN n ELSE 0)]
<1> DEFINE F == [f EXCEPT ![g] = @ - n]
           G == [F EXCEPT ![s] = @ + n]
<1>1. F \in [Guilds -> Int] /\ \A h \in Guilds : F[h] = f[h] - IF h = g THEN n ELSE 0
  OBVIOUS
<1> HIDE DEF F
<1>2. G \in [Guilds -> Int] /\ \A h \in Guilds : G[h] = F[h] + IF h = s THEN n ELSE 0
  BY <1>1
<1> HIDE DEF G
<1>3. G = [h \in Guilds |-> f[h] - (IF h = g THEN n ELSE 0) + (IF h = s THEN n ELSE 0)]
  BY <1>1, <1>2
<1> QED
  BY <1>3, Zenon DEF F, G, Retail!Transfer

(***************************************************************************)
(* The commit of a purchase is the sale.                                   *)
(***************************************************************************)
LEMMA CommitSells ==
    ASSUME SaleInv, SalesAssumption, NEW t \in Buyers, CommitPurchase(t)
    PROVE  Retail!Sell(ptx[t].listing, ptx[t].guild, ptx[t].quantity)
<1> DEFINE l == ptx[t].listing
           g == ptx[t].guild
           s == Seller(t)
           q == ptx[t].quantity
           n == ptx[t].left - q
           x == Sold(listings[l], n)
<1>1. ptx[t].pc = "commit" /\ ptx[t].pc \in HeldPC
  BY DEF CommitPurchase, HeldPC
<1>2. /\ Holding(ptx[t]) /\ l \in DOMAIN listings /\ listings[l] \in Listing
      /\ g \in Guilds /\ s \in Guilds /\ Total(t) \in Nat
      /\ \A h \in Guilds : pouch[h].total \in Int
  BY <1>1, SaleTypes, PurchaseAmounts
     DEF SaleInv, SalesAssumption, ListingInv, Locking, Holding, Asking
<1>3. /\ Shelf[l].price * q = Total(t) /\ Shelf[l].seller = s
      /\ Shelf[l].left = listings[l].quantity
  BY <1>2 DEF Shelf, Total, Seller
<1>4. q > 0 /\ n >= 0 /\ n = listings[l].quantity - q
  <2>1. ptx[t] \in Purchase
    BY SaleTypes DEF SaleInv, SalesAssumption
  <2> QED
    BY <1>2, <2>1 DEF Holding, Asking, Purchase
<1>5. Total(t) <= Gold[g]
  BY <1>2, CommitMovesGold DEF Gold
<1>6. Gold' = Retail!Transfer(Gold, g, s, Total(t))
  <2>1. \A h \in Guilds : pouch'[h].total = pouch[h].total - (IF h = g THEN Total(t) ELSE 0)
                                                          + (IF h = s THEN Total(t) ELSE 0)
    BY CommitMovesGold
  <2> HIDE DEF g, s
  <2> DEFINE A == Gold
             m == Total(t)
  <2>2. A \in [Guilds -> Int] /\ m \in Nat
    BY <1>2 DEF Gold
  <2>3. Gold' = [h \in Guilds |-> A[h] - (IF h = g THEN m ELSE 0) + (IF h = s THEN m ELSE 0)]
    BY <2>1 DEF Gold
  <2> HIDE DEF A, m
  <2>4. Retail!Transfer(A, g, s, m)
           = [h \in Guilds |-> A[h] - (IF h = g THEN m ELSE 0) + (IF h = s THEN m ELSE 0)]
    BY <1>2, <2>2, TransferMoves
  <2> QED
    BY <2>3, <2>4, Zenon DEF A, m
<1>7. Shelf' = [Shelf EXCEPT ![l] = Retail!Goods(Shelf[l].seller, n, Shelf[l].price)]
  <2> DEFINE o == n # 0
             y == [seller |-> Shelf[l].seller, left |-> n, price |-> Shelf[l].price, open |-> o]
  <2>1. listings' = [listings EXCEPT ![l] = x]
    BY DEF CommitPurchase
  <2>2. /\ x.guild = listings[l].guild /\ x.basePrice = listings[l].basePrice
        /\ x.quantity = n /\ (x.status = "ACTIVE") = o
    BY <1>2 DEF Sold, Listing, Holding
  <2>3. Shelf[l].seller = listings[l].guild /\ Shelf[l].price = listings[l].basePrice
    BY <1>2 DEF Shelf
  <2> HIDE DEF l, n, x, o
  <2>4. /\ DOMAIN listings' = DOMAIN listings /\ listings'[l] = x
        /\ \A k \in DOMAIN listings \ {l} : listings'[k] = listings[k]
    BY <1>2, <2>1
  <2>5. y = [seller |-> listings[l].guild, left |-> n, price |-> listings[l].basePrice,
             open |-> o]
    BY <2>3
  <2> HIDE DEF y
  <2>6. /\ DOMAIN Shelf' = DOMAIN Shelf /\ Shelf'[l] = y /\ l \in DOMAIN Shelf
        /\ \A k \in DOMAIN Shelf \ {l} : Shelf'[k] = Shelf[k]
        /\ Shelf' = [k \in DOMAIN listings |-> Shelf'[k]]
        /\ Shelf = [k \in DOMAIN listings |-> Shelf[k]]
    BY <1>2, <2>2, <2>4, <2>5 DEF Shelf
  <2>7. Shelf' = [Shelf EXCEPT ![l] = y]
    BY <2>6
  <2> QED
    BY <2>7, Zenon DEF y, o, Retail!Goods
<1> HIDE DEF l, g, s, q, n
<1>8. /\ Shelf[l].left - q = n /\ Shelf[l].price * q = Total(t) /\ Shelf[l].seller = s
  BY <1>3, <1>4
<1>9. Retail!Sell(l, g, q)
  BY <1>4, <1>5, <1>6, <1>7, <1>8 DEF Retail!Sell
<1> QED
  BY <1>9 DEF l, g, q

(***************************************************************************)
(* The steps of a purchase before its commit, and its failures, are not    *)
(* seen in the shop.                                                       *)
(***************************************************************************)
LEMMA ShopUnmoved ==
    ASSUME pouch' = pouch, listings' = listings
    PROVE  UNCHANGED Retail!shopVars
<1>1. Gold' = Gold /\ Shelf' = Shelf
  BY DEF Gold, Shelf
<1> QED
  BY <1>1 DEF Retail!shopVars

(***************************************************************************)
(* Every step is a step of the shop or none.                               *)
(***************************************************************************)
LEMMA StepsOfShop ==
    ASSUME SaleInv, SalesAssumption, [ListingNext]_listingVars
    PROVE  [Retail!ShopNext]_(Retail!shopVars)
<1>1. ASSUME NEW g \in Guilds, NEW q \in Quantities, NEW p \in Prices, CreateItem(g, q, p)
      PROVE  Retail!ShopNext
  BY <1>1, CreateItemPutsUp DEF Retail!ShopNext
<1>2. ASSUME NEW t \in Buyers, CommitPurchase(t)
      PROVE  Retail!ShopNext
  <2>1. ptx[t].pc = "commit" /\ ptx[t].pc \in HeldPC
    BY <1>2 DEF CommitPurchase, HeldPC
  <2>2. /\ ptx[t].listing \in DOMAIN Shelf /\ ptx[t].guild \in Guilds
        /\ ptx[t].quantity \in Quantities
    BY <2>1 DEF Shelf, SaleInv, ListingInv, Locking, Holding, Asking, BookKeeping, Carries
  <2> QED
    BY <1>2, <2>2, CommitSells DEF Retail!ShopNext
<1>3. ASSUME NEW t \in Buyers,
             \/ \E g \in Guilds, l \in DOMAIN listings, q \in Quantities :
                   BeginPurchase(t, g, l, q)
             \/ LockListing(t) \/ ReserveTotal(t) \/ SettleTotal(t) \/ CreditSeller(t)
             \/ RefusePurchase(t) \/ DeadlockVictim(t) \/ FailPurchase(t)
      PROVE  UNCHANGED Retail!shopVars
  <2>1. pouch' = pouch /\ listings' = listings
    BY <1>3 DEF BeginPurchase, LockListing, ReserveTotal, SettleTotal, CreditSeller,
                RefusePurchase, DeadlockVictim, FailPurchase, Undo, RollbackRows, WriteRow,
                pouchVars, stockVars
  <2> QED
    BY <2>1, ShopUnmoved, SMTT(30)
<1>4. CASE Restart \/ ListingTime \/ NoRequests \/ UNCHANGED listingVars
  <2>1. pouch' = pouch /\ listings' = listings
    BY <1>4 DEF Restart, RollbackAllRows, ListingTime, NoRequests, listingVars, pouchVars,
                stockVars
  <2> QED
    BY <2>1, ShopUnmoved
<1> QED
  BY <1>1, <1>2, <1>3, <1>4 DEF ListingNext, PurchaseStep, CreateRequest, PurchaseRequest

(***************************************************************************)
(* Fixed-price sales implement the shop: every unit is sold once and paid  *)
(* for in full by somebody who could afford it, and neither the cut of a   *)
(* purchase into steps nor races, refusals, deadlocks, faults and restarts *)
(* can be told from outside.                                               *)
(***************************************************************************)
THEOREM SalesImplementShop == ListingSpec => ImplementsShop
<1> USE PouchTableAssumption, ListingAssumption DEF SalesAssumption
<1>1. ListingInit => Retail!ShopInit
  BY SeedOpensShop
<1>2. SaleInv /\ [ListingNext]_listingVars => [Retail!ShopNext]_(Retail!shopVars)
  BY StepsOfShop
<1> QED
  BY <1>1, <1>2, SaleInvariant, PTL DEF ListingSpec, ImplementsShop, Retail!ShopSpec
=============================================================================
