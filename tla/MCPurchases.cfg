\* Two guilds buy from each other and from themselves, one failure.
SPECIFICATION ListingSpec
CONSTANTS
  guild1 = guild1
  guild2 = guild2
  None = None
  Guilds = {guild1, guild2}
  Buyers = {b1, b2}
  Txs = {b1, b2}
  SeedOffers <- MCTwoOffers
  InitialGold = 8
  SpendingLimits = {7}
  Quantities = {0, 1, 2}
  Prices = {0, 3}
  MaxTime = 1
  MaxDay = 1
  MaxListings = 3
  MaxFailures = 1
SYMMETRY MCBuyerSymmetry
INVARIANTS ListingTypeOK Solvency Reconciled StockInStep NothingHeldBack
PROPERTIES ImplementsShop
