\* Bids, cancellations and the settlement of one auction, with extensions and
\* one fault: every transaction ends, and every auction is settled in the end.
SPECIFICATION FairMarketSpec
CONSTANTS
  seller = seller
  grocer = grocer
  baker = baker
  None = None
  Guilds = {seller, grocer, baker}
  Items = {sword}
  Handlers = {h1}
  Settlers = {settler}
  Buyers = {}
  Txs = {h1, settler}
  SeedOwner <- MCSeedOwner
  SeedOffers <- MCOffers
  InitialGold = 42
  SpendingLimits = {42}
  Amounts = {20, 21}
  Durations = {1}
  second = 1
  MaxDuration = 9
  BasePrices = {20}
  Quantities = {1}
  Prices = {3}
  bidExtensionWindow = 1
  bidExtensionAmount = 1
  MaxTime = 4
  MaxDay = 0
  MaxAuctions = 1
  MaxBids = 2
  MaxListings = 1
  MaxFaults = 1
PROPERTIES EventuallySettled TransactionsEnd
