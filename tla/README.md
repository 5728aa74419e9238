# DragonMarket: models, checks and proofs

DragonMarket is a Go service over PostgreSQL in which guilds buy items at fixed
prices (COMMON, RARE) or bid for them in timed auctions (LEGENDARY).  What can
go wrong in it is hardly ever in one function: it is in the way concurrent
requests and the settlement loop share rows of the same tables, each under row
locks it takes one after the other, and in what is left when one of them fails.
This directory models that part, checks it with TLC on small instances and
proves the central invariants with TLAPS for every instance.

## 1. The system

| Component | State | Operations | Talks to |
|---|---|---|---|
| Gold pouches: `internal/service/goldpouch_service.go`, `repository/goldpouch.go`, `transactionlog.go` | rows of `gold_pouches` (total, reserved, limit, spent today, date of the last reset), append-only `transaction_logs` | `Reserve`, `Release`, `Settle`, `Credit`, each inside the caller's transaction: lock the row, check, rewrite the whole row, log | called by AuctionService, ItemService, Settler |
| AuctionService: `internal/service/auction_service.go` | rows of `auctions`, `bids` | `CreateAuction`, `PlaceBid`, `CancelBid`; reads `GetAuction`, `ListActiveAuctions` | pouches, inventories, price cache |
| Settler: `internal/settlement/settlement.go` | none of its own | `Tick`: list the auctions that are over and settle each in its own transaction | auctions, bids, pouches, inventories |
| ItemService: `internal/service/item_service.go` | `items`, `listings`, `inventories` | `CreateItem`, `PurchaseItem`; reads | pouches, price cache |
| Price oracle: `internal/oracle` | in-memory cache, `items.price` | `Tick`: for every LEGENDARY item ask the oracle, write the database, then the cache | items |
| WalletService, HTTP handlers, router, error mapping | none | decode, call a service, encode | all services |
| Server process: `cmd/server/main.go` | the goroutines | migrations, then one oracle loop, one settlement loop, the HTTP server | all |
| Migrations, configuration | schema, constraints, seed rows | once, at start | |

Processes are the HTTP handlers (any number, one goroutine per request) and the
two loops.  They interact only through Postgres rows (READ COMMITTED, `SELECT
... FOR UPDATE`) and through the price cache.

### What is hard

* Three kinds of transaction (a bid, a cancellation, a settlement) read and
  rewrite the same pouch rows.  The auction row lock orders those of one
  auction; only the pouch row lock orders those of two.
* `PlaceBid` and `CancelBid` find their auction by an unlocked read and then wait
  for its lock, perhaps behind the settlement of that auction.
* The sweep works on a list that is stale as soon as it is read.
* The daily limit is checked twice, at the reservation and when the auction is
  won, and is reset lazily, by whoever comes first on a new date.
* A settlement writes six kinds of row and may fail, or die with the server,
  between any two of them.
* `CreateAuction` checks the ownership of the item without any lock.
* A purchase holds four row locks at its end, and takes the two pouches in the
  order buyer, seller: two guilds that buy from each other lock in a circle.
* A settlement locks the winner's pouch, then the owner's, then the losers': with
  purchases, bids and cancellations of the same guilds it can lock in a circle
  too, and Postgres may fail the settlement each time.
* `CreateAuction` turns seconds into an int64 of nanoseconds, which wraps.
* The updater writes the items table and then the cache, requests read the table
  and then the cache, and the cache is lost with the process.

### What makes each component correct

* Pouches: no guild commits more than it has or spends more than its limit in
  a day (`Solvency`, `SpendingMetered`); the log explains every balance
  (`Reconciled`).
* Escrow between pouches and bids: what is reserved is what is bid
  (`EscrowExact`), and is still there when it is needed (`ReservationStands`).
* Bids: each one is at least 5% above all earlier ones (`BidLadder`), and the
  greatest one wins (`FairVerdict`).
* Auctions: closed once and for good (`ExpiredIsFinal`), never within the
  sniping window of the last bid (`QuietBeforeClose`), and closed in the end
  (`EventuallySettled`; next to purchases `SettledOnceCalm`).
* All of it together: what is committed is what an auction house does whose
  operations are single steps (`ImplementsHouse`).
* Items: always exactly one owner, the winner of the last settled auction
  (`Title`); gold moves and is neither made nor lost (`GoldConserved`).
* Listings: a listing offers just what its seller has in stock (`StockInStep`);
  a purchase that fails half way leaves no gold reserved (`NothingHeldBack`);
  what is committed is what a shop does that sells in single steps
  (`ImplementsShop`): every unit is sold once and paid for.
* All transactions: each one ends (`TransactionsEnd`).
* Oracle: no request shows an older price than an earlier one (`MonotoneReads`,
  from `NothingToLose`), and every quotation arrives (`QuotesArrive`).
* Reads: the wallet agrees with what a bid may reserve (`WalletAgrees`); pages are
  the windows asked for (`PageIsWindow`).

## 2. The modules

| Module | Models | |
|---|---|---|
| `GoldPouch` | the four operations of `GoldPouchService` as functions of one row, with their checks, the daily reset and the log | pure operators |
| `PouchTable` | the table: committed and uncommitted row versions, row locks, COMMIT, ROLLBACK, the clock, the log per transaction | extends `GoldPouch` |
| `Auctions` | AuctionService and Settler, every step of every transaction, failures and restarts | extends `PouchTable` |
| `AuctionProperties` | what is checked of them | extends `Auctions` |
| `AuctionHouse` | what the two promise: lots, offers, gold and title, every operation one step | abstract |
| `Listings` | `CreateItem` (COMMON, RARE) and `PurchaseItem`, every step that waits, deadlocks, failures, restarts; their properties | extends `PouchTable` |
| `Shop` | what fixed-price sales promise: a shelf and gold, a sale is one step | abstract |
| `Market` | auctions, settlements and purchases of one server over one `PouchTable`; Postgres' deadlock detector | extends `AuctionProperties`, instantiates `Listings` |
| `PriceOracle` | updater, oracle answers, table and cache, requests that show a price, `CreateItem` (LEGENDARY), restarts; their properties | |
| `Pagination` | `limit` and `offset` of the two lists, with ints that wrap | |
| `MCAuctions`, `MCListings`, `MCMarket` + `MC*.cfg` | the instances TLC checks; `MCPrices.cfg` and `MCPagination.cfg` are for `PriceOracle` and `Pagination` themselves | extend `AuctionProperties`, `Listings`, `Market` |
| `PouchProofs` | each operation of the table preserves `PouchInv` | extends `PouchTable`, TLAPS |
| `AuctionProofs` | the theorems about `AuctionSpec`: types, solvency, the log, the daily limit and the wallet | extends `AuctionProperties`, `PouchProofs` |
| `BiddingProofs` | bids, verdicts and titles: further theorems about `AuctionSpec` | extends `AuctionProofs` |
| `HouseProofs` | reservations, gold and the refinement of `AuctionHouse`: further theorems about `AuctionSpec` | extends `BiddingProofs` |
| `ListingProofs` | the theorems about `ListingSpec` | extends `Listings`, `PouchProofs` |
| `MarketProofs` | the theorems about `MarketSpec` | extends `Market`, `HouseProofs`, instantiates `ListingProofs` |
| `OracleProofs` | the theorems about `OracleSpec` | extends `PriceOracle`, TLAPS |
| `PaginationProofs` | the theorem about `Pagination` | extends `Pagination`, TLAPS |

### How state and actions correspond to the code

In `Auctions` and `Listings` a handler is one database transaction.  An action is the part of it between two
points at which it may have to wait: for the auction's row, or for a pouch's
row.  Nothing else in it can be observed by others before COMMIT, so finer
steps would add no behaviour.

| Code | Actions |
|---|---|
| HTTP handlers: which requests reach the services | `CreateRequest`, `BidRequest`, `CancelRequest` (together `Begin`), in `Listings` `CreateRequest` and `PurchaseRequest`; in `Pagination` `Request` |
| `CreateAuction` | `BeginCreate` (unlocked ownership check), `InsertAuction` (the partial unique index and `CHECK (end_time > start_time)` decide; `DurationOf` wraps) |
| `PlaceBid` | `BeginBid` (unlocked lookup, self-bid), `LockForBid` (lock; status, end and floor checks), `ReserveForBid`, `CommitBid` (insert, extension, commit) |
| `CancelBid` | `BeginCancel`, `LockForCancel`, `ReleaseForCancel`, `CommitCancel` |
| `Settler.Tick` | `Tick`, then per auction `LockForSettlement`, `SettleWinner`, `CreditOwner`, `Transfer`, `ReleaseLoser` once per loser, `CommitSettlement` |
| every `return ..., err` with the deferred `Rollback` | `Refuse` (a check fails), `Fault` (a statement or the connection fails) |
| the process dies and is restarted | `Crash` |
| `CreateItem` | `CreateItem` in `Listings` (one step: nobody can refer to its rows before COMMIT), `CreateLegendary` in `PriceOracle` |
| `PurchaseItem` | `BeginPurchase` (unlocked lookup), `LockListing` (listing and inventory row; status and quantity checks), `ReserveTotal`, `SettleTotal`, `CreditSeller`, `CommitPurchase`; `RefusePurchase`, `DeadlockVictim`, `FailPurchase`, `Restart` end it otherwise |
| `Updater.Tick`, `refreshItem` | `StartTick` (the list), then per item `Quoted` or `NotQuoted` (GetPrice), `Persist` or `PersistFails` (UpdatePrice), `SetCache` |
| `GetItem`/`toView`, `currentPrice` | `BeginRead`, `ReadRow`, `ReadCache` |
| Postgres fails a transaction that waits in a circle | `DeadlockVictim` in `Listings`; `Victim` in `Market`, for any transaction of the circle |
| `GetWallet` | the operator `GetWallet` of `GoldPouch` |
| `ListActiveAuctions`, `ListItems` | `Request` in `Pagination`, one operator each |

`tx[t]` is what transaction `t` has in its local variables: the step it takes
next (`pc`), the guild, item, auction, bid and amount it works on, the time it
has read (`at`), the rest of the sweep (`queue`) and of the loop over the losing
bids (`losers`).  A transaction whose `pc` is in `LockedPC` holds its auction's
row lock.  The tables `auctions`, `bids` and `inv` hold committed rows only: the
writes of a transaction to them are seen by nobody else before COMMIT, so they
appear in the committing action.  Pouches are different, because a transaction
may read back a row it has itself rewritten (an owner who also bids, two losing
bids of one guild); `draft` holds those versions.

In `Listings` an item, its inventory row and its listing have one id: `CreateItem`
is the only code that makes any of them, and makes all three.  The inventory row
is written only under the lock of its listing, so that the two locks are one.
The buyer gets no inventory row: `PurchaseItem` takes the units out of the seller's
row and writes them nowhere else, and so does the model.

`Market` adds the variables of `Listings` to those of `Auctions` (`ptx` holds the
purchases) and lets the two take turns; the pouches, the clock and the
count of faults are shared, and `Crash` ends the transactions of both.  `Blockers`
says for whom a transaction waits, at an auction's row, a listing's or a pouch's.

The refinements.  `ImplementsHouse` reads an auction house out of the committed
rows of `Auctions`: `gold` is the total of each pouch, `title` the inventory, `lots`
the auctions without their times, `offers` the bids without theirs.  What is
reserved has no counterpart: `AuctionHouse` covers an offer by what its guild owns
less what it has on offer, so that the reservations must amount to the same.
`OpenLot` lets a guild offer an item that it has lost since the request was
checked (finding `stale_seller`), and only one that it once had.
`ImplementsShop` reads a shop out of `Listings`: `gold` again, and a `shelf` of the
listings with what is left of each.

In `PriceOracle` a price is the number of the quotation it comes from, so that
"older" has a meaning; 0 is the price an item is created with, and any answer
the updater must not use.  `PersistFails` leaves the table in either state: an
UPDATE whose reply is lost may have been done.  An UPDATE given up on is assumed
to be done, if at all, before the next one of the same item, an interval later.

Abstractions: amounts are small integers that straddle the 105% steps; the clock
counts units in which an auction lasts one or two; a date changes at any tick.
The price from the cache is any member of `BasePrices`.  The guild's name lookup,
references and formatting are left out.  In the database `bids.amount` orders
the bids of an auction; a tie is possible in no reachable state, but `Highest`
would leave the choice open as `LIMIT 1` does.

## 3. The runs

`seller` owns every item at first; `Txs` is the union of handlers, settlers and buyers.
The bounds named in the cfgs are `MaxTime`, `MaxDay`, `MaxAuctions`, `MaxBids`,
`MaxFaults`; each is a guard of the action it bounds.  Handlers, items and the
guilds that start without items are symmetric, and so are the buyers (`SYMMETRY`
in the cfgs that have no liveness property).

| Run | Instance | Shows |
|---|---|---|
| `one_auction` | 3 guilds, 2 handlers, 3 bids of 20..23, 1 fault | `TypeOK`, `Solvency`, `Reconciled`, `EscrowExact`, `BidLadder`, `FairVerdict`, `ExpiredIsFinal`, `QuietBeforeClose`: requests, the sweep and one failure race for one auction |
| `two_auctions` | 2 guilds, 2 items, 2 handlers, 3 bids, gold for one bid only | `Reconciled`, `EscrowExact`, `ReservationStands`, `Title`, `ImplementsHouse`: two auctions at once, or a resale of one item, also by a former owner whose request was already under way |
| `progress` | 3 guilds, 1 handler, 2 bids, no purchases, extensions, 1 fault, fair | `EventuallySettled`, `TransactionsEnd`: bids and cancellations wait for the settlement and the settlement for them; every transaction ends, and the auction is settled |
| `purchases` | 2 guilds that sell and buy, 2 offers and 1 created, 2 buyers, 1 failure, one midnight | `ListingTypeOK`, `Solvency`, `Reconciled`, `StockInStep`, `NothingHeldBack`, `ImplementsShop`: races for the last units, purchases from oneself, tight limits, deadlocks |
| `market` | the seller of an item and a grocer who trade with each other: 1 handler, 1 buyer, 2 bids, tight limits, one midnight | `Solvency`, `GoldConserved`, `EscrowExact`, `ReservationStands`, `WalletAgrees`, `SpendingMetered`: bids, settlements and purchases spend from the same pouches; refused settlements, own overbids, the daily reset |
| `market_circles` | 3 guilds, 2 standing bids, 2 listings of different guilds, 2 buyers, 1 fault, fair | `TransactionsEnd`, `SettledOnceCalm`: the Settler and purchases lock each other out in circles |
| `prices` | 1 item without a quotation for ever and 1 created, 2 requests, 2 quotations, 2 faults, fair | `OracleTypeOK`, `NothingToLose`, `MonotoneReads`, `QuotesArrive` |
| `pagination` | ints of 3 bits, at most 3 rows | `PageIsWindow` for every limit and offset |
| `durations` | durations of 3 bits, a second of 3 units | violates `RunsAsAsked`, see below |
| `opposite_purchases` | 2 guilds, 2 buyers | violates `SerializedCleanly`, see below |
| `stale_seller` | 2 guilds, 2 auctions, 1 bid | violates `SellerOwnsItem`, see below |
| `daily_limit` | 2 guilds, 2 items, one date | violates `WinnerCanPay`, see below |

Why the bounds are enough for what they are asked.  Two handlers and the
settler are every pair of racing parties and the triple of two requests and a
settlement; a lost update or a double release needs two.  Three bids are the
least with which a bid between the lowest and the highest can be cancelled, and
with which an extension can be extended.  20, 21, 22, 23 contain a step of
exactly 5% (20 to 21), one that rounding up refuses (21 to 22) and one it
accepts (21 to 23, 20 to 22).  42 gold covers two bids but not three; 30 one but
not two.  Five instants let an auction be extended twice and still be closed.
A second auction is what a resale, and a pouch shared by two auctions, take;
two guilds and three bids are enough for the item to come back.

Two buyers race for one listing or lock each other out.  A circle takes as many
pouches as it has transactions, and a purchase is in one only if its buyer and
its seller are.  So `market_circles` has three guilds and a listing of each
guild that has bid: two purchases lock each other out, the Settler and one
purchase do, at the credit and at the release of the loser, and the Settler and
both purchases form a circle of three.

A transaction that waits for the row of an auction or of a listing holds no
pouch, so that a bid or a cancellation, which locks a single pouch, waits but
closes no circle; `progress` has these, next to the settlement, and the
purchases are left to `market_circles`. It starts with the auction open and both
bids placed (`BidsInit` in `MCMarket`), which three requests to the seeded
market bring about; from the seed the instance would be too large for liveness.

In `market`
a bid and a purchase together exceed the limit of 22 and each of them fits it, so
that the order in which they are charged matters, and the midnight falls between any
two steps. Quantities 1 and 2 of 2 units make a listing run out at once or in two
steps, 0 is refused. Two faults are a lost reply and the restart that would uncover
it. With 3 bits every way a sum of two ints can wrap occurs, and a product with 3
wraps to a negative number (2 * 3) and to a positive one that is too small (3 * 3).

### Findings

* `stale_seller`.  The ownership check of `CreateAuction` reads the inventory row
  without `FOR UPDATE`.  While the request is between that check and its INSERT, a
  settlement may hand the item to its winner and set the old auction EXPIRED; the
  unique index then lets the INSERT through and the item's former owner has an
  ACTIVE auction of an item it does not own.  It takes bids, keeps the true
  owner from offering the item, and its settlement fails at the seller's
  inventory row.  `Title` holds nevertheless: the settlement looks at that row
  again.
* `daily_limit`.  `Reserve` compares the limit with what was spent today and
  leaves out what is reserved; `Settle` compares again.  A guild can win two
  auctions whose prices each fit its limit; the second settlement is refused at
  every sweep until the date changes.  That is why `EventuallySettled` is
  checked with limits that cover the winner's bids.  Its instance also has a
  single auction, so that no stale seller's auction (above) is in it, whose
  settlement is rolled back as long as the item stays away: `EventuallySettled`
  says that, where no purchases are made, nothing else keeps a settlement from coming.
* `durations`.  `CreateAuction` multiplies the seconds asked for by `time.Second`
  and checks only that they are positive.  From 9,223,372,037 seconds on, the
  int64 of nanoseconds wraps.  If the product is negative, `CHECK (end_time >
  start_time)` refuses the row, which is answered with AUCTION_ALREADY_EXISTS; if
  it is positive again, an auction is created that ends much too soon.
* `opposite_purchases`.  `PurchaseItem` locks the buyer's pouch before the
  seller's.  Two guilds that buy from each other at once wait in a circle;
  Postgres fails one of them, which is answered with INTERNAL_ERROR and not
  retried, whereas ADR 0001 says that pessimistic locking "just serializes" such
  requests "cleanly the first time".  Nothing is lost: the other properties hold
  with deadlocks, and `TransactionsEnd` in `market_circles` shows that both requests end.

### Fairness

`FairMarketSpec` assumes that time passes, that the ticker keeps firing (weak
fairness of `Time` and `Tick`: both happen whatever the requests do), and that a
transaction under way takes its next step if it could do so again and again
(strong fairness of the steps of each handler, of each purchase and of the settler).  Strong
fairness stands for the row lock queues of Postgres, in which a waiter is
not passed over forever; goroutines without a lock to wait for are scheduled
anyway.  New requests are not fair, and faults are bounded by `MaxFaults`: a
database that never answers settles nothing.  Bids push an end back, so that
`EventuallySettled` speaks of auctions whose end comes within `MaxTime`.

It also assumes weak fairness of `Victim`: Postgres looks for a circle of waiting
transactions after `deadlock_timeout` and fails one of them.  Which one is not
specified, and that is why `EventuallySettled` itself does not hold next to
purchases, not even with one unit for sale at each listing: Postgres may fail the Settler in one circle and the purchase in the
next, and if the guild repeats its request each time, nothing is sold and the
settlement is put off for ever.  The premise of `SettledOnceCalm` excludes such
behaviours, which `market_circles` has, and the property says that they are the
only obstacle: if the purchases come to an end, each auction that is over is
settled.  `FairOracleSpec` assumes weak fairness of the updater: it is the
only process that writes prices and waits for nobody, its ticker fires again, and
`PerItemTimeout` bounds the call to the oracle.

Deadlock is checked in every run.  `Quiescent` (`NoRequests` in `Listings`, `AtRest`
in `Market`) lets a server without transactions
wait for requests, and only such a server: a transaction that can never go on
would be reported.

## 4. The proofs

`AuctionProofs` proves, for any sets of guilds, items, handlers and settlers, any
amounts, limits, durations and bounds that satisfy the assumptions of the
modules (`PouchTableAssumption`, `AuctionAssumption`):

* `TypeCorrect`: `AuctionSpec => []TypeOK`
* `SolvencyHolds`: `AuctionSpec => []Solvency`
* `ReconciledHolds`: `AuctionSpec => []Reconciled`

all three from `AuctionInvariant`: `AuctionSpec => []AuctionInv`, where

* `PouchInv` is type correctness of the pouch table together with
  `RowsSolvent` (the uncommitted version of a row is solvent too, for it will
  be committed as it is) and `BooksBalance` (the version a lock holder has
  rewritten agrees with the log extended by what that transaction has logged;
  a transaction that does not hold a row has logged nothing for it).  Neither
  `Solvency` nor `Reconciled` is inductive without them: COMMIT copies versions
  they do not speak of.
* `References` says that the ids a transaction carries refer to rows that are
  there.  Without it the amount it releases or settles would be unknown.

`BiddingProofs` goes on from there and proves, under the same assumptions,
`BidsClimb` (`[]BidLadder`), `VerdictsAreFair` (`[]FairVerdict`), `TitleHolds`
(`[]Title`), `SettledForGood` (`ExpiredIsFinal`) and `QuietFirst`
(`QuietBeforeClose`).  They hold for any number of bidders, of concurrent requests
and of Settlers, former owners with a request under way included.  None
of them is inductive.  `BiddingInv` adds

* `Sound`: the committed rows are `Orderly` (bids on one auction rise; the last bid
  of an ACTIVE auction is ACTIVE and the others are ACTIVE or CANCELLED; the
  last bid of an EXPIRED one has won), `InTurn` (an item has one ACTIVE auction,
  and its bids come after all bids on it in auctions that are over) and each
  item is `Owned` by the guild of the last bid that won it;
* `Claim`: what a transaction has found under its auction's lock is still so: the
  bid it places tops all others, the one it withdraws is not the last, the one it
  awards is, and the seller it has found in possession still is;
* `Exclusive`: no two transactions hold one auction, which is what keeps a `Claim`
  from being undone by somebody else.

`AuctionProofs` also proves `SpendingIsMetered` (`SpendingMetered`) and
`WalletTellsTheTruth` (`[]WalletAgrees`).  The invariant says that the version of a row
that will be committed and the log entries that go with it move the day's
counter together (`Metered`), and that a reservation or a payment is the first thing a
transaction does to a pouch (`FreshFirst`): the owner who bids on another guild's auction
and is credited, the loser who is released, never spend after that in the same
transaction.  Without it, a midnight between two payments of one transaction
would drop the first one from the counter.

`HouseProofs` proves the four statements that speak of sums: `EscrowIsExact`
(`[]EscrowExact`), `GoldIsConserved` (`[]GoldConserved`), `ReservationsStand`
(`[]ReservationStands`) and `AuctionsImplementHouse` (`ImplementsHouse`).  Its first part is
about the fold the sums are written with.  No induction theorem is used: the fold solves a
recursive equation (shown for the finite sets in a chain of solutions), and what is said
of all finite sets is shown by a least set of which it would be false
(`FS_StrictSubsetOrderingWellFounded`).  What comes of it is
one lemma per way in which a sum changes: a term raised, two terms that exchange
an amount, an element added or taken out.  That needs finitely many guilds
(`IsFiniteSet(Guilds)` in `PouchTableAssumption`), as in any table.

Neither `EscrowExact` nor `ReservationStands` is inductive: while a settlement is half
way through, its own versions of the pouches already show what its COMMIT will do to
the bids.  Two invariants say so.

* `PromiseInv`: what a transaction works on is what its locked auction shows.  The bid
  it withdraws stands, the losers it has yet to release stand and exclude the winner, a
  bidder is not the owner, and the seller it has found in possession had the item.
* `EscrowInv`: each pouch has reserved what its guild's ACTIVE bids come to; and for
  each transaction and guild, the version it sees differs from the committed one by
  `Held` (the bid it is about to insert, less those it has already released or
  charged) in `reserved`, and by `Moved` (what it has credited less what it has
  charged) in `total`.  COMMIT turns both differences into rows at once.

`ReservationStands` follows: a bid that has not been released yet is a term of the sum
that is still reserved in the version the transaction sees, and no term is negative.
So does the refinement: when `CommitBid` makes an offer visible, what the guild has
promised to pay is what it has reserved, and `RowsSolvent` covers it (`PromisedIsReserved`);
when `CommitSettlement` closes a lot, `Moved` says that gold has gone from
the winner to the owner and nowhere else; each other step leaves what an onlooker
sees alone (`HouseUnmoved`).

`ListingProofs` proves, from `PouchTableAssumption` and `ListingAssumption`, for any
guilds, buyers, offers and bounds: `SaleTypesCorrect` (`[]ListingTypeOK`),
`StockStaysInStep` (`[]StockInStep`), `PurchasesSolvent` (`[]Solvency`) and
`PurchasesReconciled` (`[]Reconciled`).  Its invariant `ListingInv` adds `Locking`
to `PouchInv`: two purchases never hold one listing, and what a purchase has read
under the lock is still so.  COMMIT writes both quantities from what was read,
so `StockInStep` would be lost without it.

It also proves `PurchasesHoldNothingBack` (`[]NothingHeldBack`) and
`SalesImplementShop` (`ImplementsShop`): the initial states of `ListingSpec` are
initial states of the shop, and each step is a step of the shop or a stutter.  Its
invariant `SaleInv` adds `BookKeeping` to `ListingInv`: at each step of a purchase, what
its own versions of the two pouches differ from the committed ones by, also when
buyer and seller are one guild.  It does not assume that nothing else is
reserved in those rows, so that it also holds next to auctions.

`MarketProofs` proves that what the two halves promise they also promise together,
on shared pouches, from the assumptions of both and `MarketAssumption` (a
transaction is a request of one kind or a settlement): `MarketSolvent`
(`[](Solvency /\ Reconciled)`), `MarketIsMetered` (`SpendingMetered`,
`[]WalletAgrees`), `MarketIsFair` (`[](BidLadder /\ FairVerdict /\ Title)`),
`MarketIsFinal` (`ExpiredIsFinal`, `QuietBeforeClose`), `MarketInStock`
(`[]StockInStep`) and `MarketKeepsGold`
(`[](EscrowExact /\ ReservationStands /\ GoldConserved)`).  `WhoseStep` takes a step of
the market apart: it is one of the auction house (`HouseTurn`), of the shop (`ShopTurn`)
or the restart, which is both.
`HouseKeeps` and `ShopKeeps` then cite the lemmas of the half whose step it is, and
`ShopUndisturbed` and `HouseUndisturbed` say that the other half loses nothing: the
tables are not shared, and `PouchInv` and `Metered` speak of every transaction over
the pouches alike.  Only three facts are about both halves: neither writes log
entries (`HouseEntries`) or takes row locks (`ShopLocks`) in the name of the other's
transactions, and a purchase, too, pays once and reserves nothing after it has
paid (`PaysOnce` in `ListingProofs`, what `FreshFirst` is for a bid).

`MarketGold` puts `PromiseInv`, `EscrowInv` and `BookKeeping` side by side.  Neither half
alone would do: `EscrowInv` speaks of committed rows, which purchases rewrite, and
`BookKeeping` of rows a purchase has read, which bids reserve in.  What makes them
compatible is row locking (`HouseLeavesRows`: the auction house changes no row that a
buyer holds; `Apart`: a transaction sees a pouch as before or has not touched it)
and that a purchase leaves every committed reservation as it was and moves its
price from one guild to another (`PurchaseMovesGold`).

`OracleProofs` proves, from `OracleAssumption`, `NothingIsLost` (`[]NothingToLose`)
and `ReadsAreMonotone` (`[]MonotoneReads`) for any number of items, requests,
quotations and faults.  `MonotoneReads` speaks of requests that have ended; the
invariant says why they end well: what would be shown now is never older than
what has been shown (`NothingForgotten`), since a cached price is at least the row
it hides (`InHand`: the quotation in hand is newer than the table, and is in the
table when it is cached), and the row a request has read was fresh when it began
(`FreshRow`).

`PaginationProofs` proves `PageIsWindow` for every size of int: a sum of two
non-negative ints wraps at most once, and is negative then.

`PouchProofs` shows that each operation of `GoldPouchService`, COMMIT, ROLLBACK
and a restart preserve `PouchInv`, for any transaction over the table, so that
other services can use it.  `AuctionProofs` has a lemma per action; three frame
lemmas (`ReadFrame`, `PouchFrame`, `StepFrame`) treat the parts common to all
of them.

Only model-checked: liveness (`EventuallySettled`, `TransactionsEnd`,
`SettledOnceCalm`, `QuotesArrive`), which rests on fairness and ENABLED, and the absence
of deadlock.  Every invariant and every safety property of the passing runs is
proved, for each specification whose run checks it.  (`ImplementsHouse` is
not claimed of the market: there a purchase moves gold that the abstract auction house
does not know of.)

## 5. Not modelled

* The price oracle next to the auctions: `CreateAuction` reads one price from the
  cache, and `Auctions` takes any of `BasePrices`, which is all it could get.
* `GetAuction`: one statement on committed rows, no state.
* Lookups of guilds, characters and items that do not exist: refusals without
  effect.
* Of the HTTP API, decoding, the mapping of errors to status codes, configuration
  and logging: no state.  Which requests reach the services is modelled.
* Migrations: run before the first request.  Their constraints and seed rows
  are in `PouchInit`, `AuctionInit` and `Solvency`.
* Postgres' deadlock detector in `Auctions`: with one settlement loop and no
  purchases, no two transactions hold two pouches (the runs check for deadlock).
  `Listings` and `Market` have it.
* A repeated purchase: the API has no idempotency key, so that a request sent
  again after a lost reply is a second request, in the code as in the model.

## 6. The plan

Done: the modules of section 2, among them `BiddingProofs`, `HouseProofs`,
`MarketProofs`, the composition (`Market`), both refinements (`AuctionHouse`, `Shop`)
and durations that wrap.  What is left: the price oracle in `Market`, so that the
base price of an auction is one that the updater has cached.
