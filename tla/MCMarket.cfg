\* Bids, settlements and purchases spend from the same pouches, under a tight
\* daily limit and across midnight.
SPECIFICATION MarketSpec
CONSTANTS
  seller = seller
  grocer = grocer
  baker = baker
  None = None
  Guilds = {seller, grocer}
  Items = {sword}
  Handlers = {h1}
  Settlers = {settler}
  Buyers = {b1}
  Txs = {h1, settler, b1}
  SeedOwner <- MCSeedOwner
  SeedOffers <- MCOffers
  InitialGold = 42
  SpendingLimits = {22}
  Amounts = {20, 21}
  Durations = {1}
  second = 1
  MaxDuration = 9
  BasePrices = {20}
  Quantities = {1}
  Prices = {3}
  bidExtensionWindow = 0
  bidExtensionAmount = 1
  MaxTime = 2
  MaxDay = 1
  MaxAuctions = 1
  MaxBids = 2
  MaxListings = 2
  MaxFaults = 0
INVARIANTS Solvency GoldConserved EscrowExact ReservationStands WalletAgrees
PROPERTIES SpendingMetered
