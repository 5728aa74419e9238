\* Two guilds buy from each other at the same time.
SPECIFICATION ListingSpec
CONSTANTS
  guild1 = guild1
  guild2 = guild2
  None = None
  Guilds = {guild1, guild2}
  Buyers = {b1, b2}
  Txs = {b1, b2}
  SeedOffers <- MCTwoOffers
  InitialGold = 8
  SpendingLimits = {8}
  Quantities = {1}
  Prices = {3}
  MaxTime = 0
  MaxDay = 0
  MaxListings = 2
  MaxFailures = 0
INVARIANTS SerializedCleanly
