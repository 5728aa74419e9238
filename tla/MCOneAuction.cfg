\* One auction, three bids, racing requests, one fault.
SPECIFICATION AuctionSpec
CONSTANTS
  seller = seller
  None = None
  Guilds = {seller, bidder1, bidder2}
  Items = {sword}
  Handlers = {h1, h2}
  Settlers = {settler}
  Txs = {h1, h2, settler}
  SeedOwner <- MCSeedOwner
  InitialGold = 42
  SpendingLimits = {42}
  Amounts = {20, 21, 22, 23}
  Durations = {1, 2}
  second = 1
  MaxDuration = 9
  BasePrices = {20}
  bidExtensionWindow = 1
  bidExtensionAmount = 1
  MaxTime = 4
  MaxDay = 0
  MaxAuctions = 1
  MaxBids = 3
  MaxFaults = 1
SYMMETRY MCSymmetry
INVARIANTS TypeOK Solvency Reconciled EscrowExact BidLadder FairVerdict
PROPERTIES ExpiredIsFinal QuietBeforeClose
