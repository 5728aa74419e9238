\* CreateAuction reads the inventory without a lock.
SPECIFICATION AuctionSpec
CONSTANTS
  seller = seller
  None = None
  Guilds = {seller, bidder1}
  Items = {sword}
  Handlers = {h1, h2}
  Settlers = {settler}
  Txs = {h1, h2, settler}
  SeedOwner <- MCSeedOwner
  InitialGold = 42
  SpendingLimits = {42}
  Amounts = {20}
  Durations = {1}
  second = 1
  MaxDuration = 9
  BasePrices = {20}
  bidExtensionWindow = 0
  bidExtensionAmount = 1
  MaxTime = 4
  MaxDay = 0
  MaxAuctions = 2
  MaxBids = 1
  MaxFaults = 0
INVARIANTS SellerOwnsItem
