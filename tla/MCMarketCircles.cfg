\* Two bids stand; the Settler and two purchases from different guilds lock each
\* other's pouches in circles, with one fault.
SPECIFICATION FairBidsSpec
CONSTANTS
  seller = seller
  grocer = grocer
  baker = baker
  None = None
  Guilds = {seller, grocer, baker}
  Items = {sword}
  Handlers = {}
  Settlers = {settler}
  Buyers = {b1, b2}
  Txs = {settler, b1, b2}
  SeedOwner <- MCSeedOwner
  SeedOffers <- MCTwoOffers
  InitialGold = 40
  SpendingLimits = {60}
  Amounts = {20, 21}
  Durations = {1}
  second = 1
  MaxDuration = 9
  BasePrices = {20}
  Quantities = {1}
  Prices = {3}
  bidExtensionWindow = 0
  bidExtensionAmount = 1
  MaxTime = 2
  MaxDay = 0
  MaxAuctions = 1
  MaxBids = 2
  MaxListings = 2
  MaxFaults = 1
PROPERTIES TransactionsEnd SettledOnceCalm
