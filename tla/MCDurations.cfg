\* Ints and durations of three bits, a second of three units.
SPECIFICATION AuctionSpec
CONSTANTS
  seller = seller
  None = None
  Guilds = {seller, bidder1}
  Items = {sword}
  Handlers = {h1}
  Settlers = {settler}
  Txs = {h1, settler}
  SeedOwner <- MCSeedOwner
  InitialGold = 42
  SpendingLimits = {42}
  Amounts = {20}
  Durations = {1, 2, 3}
  second = 3
  MaxDuration = 3
  BasePrices = {20}
  bidExtensionWindow = 0
  bidExtensionAmount = 1
  MaxTime = 4
  MaxDay = 0
  MaxAuctions = 1
  MaxBids = 1
  MaxFaults = 0
PROPERTIES RunsAsAsked
