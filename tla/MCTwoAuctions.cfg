\* Two auctions at once or in a row: requests and settlements race for the same
\* pouches, and the item may be offered again by its winner or its former owner.
SPECIFICATION AuctionSpec
CONSTANTS
  seller = seller
  None = None
  Guilds = {seller, bidder1}
  Items = {sword, shield}
  Handlers = {h1, h2}
  Settlers = {settler}
  Txs = {h1, h2, settler}
  SeedOwner <- MCSeedOwner
  InitialGold = 30
  SpendingLimits = {42}
  Amounts = {20, 21}
  Durations = {1}
  second = 1
  MaxDuration = 9
  BasePrices = {20}
  bidExtensionWindow = 0
  bidExtensionAmount = 1
  MaxTime = 4
  MaxDay = 0
  MaxAuctions = 2
  MaxBids = 3
  MaxFaults = 0
SYMMETRY MCSymmetry
INVARIANTS Reconciled EscrowExact ReservationStands Title
PROPERTIES ImplementsHouse
