------------------------- MODULE AuctionProperties -------------------------
(***************************************************************************)
(* What the auction house promises its guilds, on top of the Solvency and  *)
(* Reconciled of module PouchTable.                                        *)
(***************************************************************************)
EXTENDS Auctions

Auction == [item: Items, owner: Guilds, status: AuctionStatus, endTime: Nat, basePrice: Nat]

Bid == [auction: Nat, guild: Guilds, amount: Nat, status: BidStatus, at: Nat]

Tx == [pc: PC, guild: Guilds \cup {None}, item: Items \cup {None}, auction: Nat, bid: Nat,
       amount: Nat, duration: Nat, at: Nat, queue: SUBSET Nat, losers: SUBSET Nat]

(***************************************************************************)
(* Every row and every transaction record has its type: in particular the  *)
(* statuses written are members of the bid_status and auction_status enums *)
(* (Postgres would refuse the UPDATE otherwise).                           *)
(***************************************************************************)
TypeOK ==
    /\ PouchTypeOK
    /\ auctions \in Seq(Auction)
    /\ bids \in Seq(Bid)
    /\ inv \subseteq Guilds \X Items
    /\ tx \in [Handlers \cup Settlers -> Tx]
    /\ faults \in Nat

-----------------------------------------------------------------------------
(* Gold.                                                                   *)

ActiveBidsBy(g) == {b \in DOMAIN bids : bids[b].guild = g /\ bids[b].status = "ACTIVE"}

(***************************************************************************)
(* The escrow is exact: the gold a guild has reserved is the sum of its    *)
(* ACTIVE bids, so that PlaceBid, CancelBid and the Settler together never *)
(* reserve twice, release twice, or leave gold locked up behind a bid that *)
(* was cancelled, won or lost.                                             *)
(***************************************************************************)
EscrowExact ==
    \A g \in Guilds :
        pouch[g].reserved = MapThenSumSet(LAMBDA b : bids[b].amount, ActiveBidsBy(g))

(***************************************************************************)
(* Settlements move gold and neither make nor destroy it, also when they   *)
(* are refused, fail half way or die with the server.                      *)
(***************************************************************************)
GoldConserved ==
    MapThenSumSet(LAMBDA g : pouch[g].total, Guilds) = Cardinality(Guilds) * InitialGold

(***************************************************************************)
(* ErrInsufficientReserved cannot happen: when CancelBid releases, and     *)
(* when the Settler charges the winner or releases a loser, the            *)
(* reservation made by PlaceBid is still there.                            *)
(***************************************************************************)
ReservationStands ==
    \A t \in Handlers \cup Settlers :
        LET row(b) == SeenRow(t, bids[b].guild)
        IN  Granted(t) =>
              /\ tx[t].pc \in {"cancelRelease", "settleWinner"} =>
                    row(tx[t].bid).reserved >= bids[tx[t].bid].amount
              /\ tx[t].pc = "releaseLosers" =>
                    LET l == Min(tx[t].losers) IN row(l).reserved >= bids[l].amount

(***************************************************************************)
(* The daily limit meters all spending: within a UTC date spent_today only *)
(* moves by what the log shows as spent, and it restarts from zero only    *)
(* when the date moves forward.  With spent <= limit (Solvency) no guild   *)
(* ever pays more than its limit on one date, also across midnight and     *)
(* whichever auctions settle together.                                     *)
(***************************************************************************)
SpendingMetered ==
    [][\A g \in Guilds :
         /\ pouch[g].day <= pouch'[g].day
         /\ pouch'[g].spent = (IF pouch'[g].day = pouch[g].day THEN pouch[g].spent ELSE 0)
                               + Spent(log'[g]) - Spent(log[g])]_vars

(***************************************************************************)
(* The wallet tells the truth: the amounts it shows as within reach are    *)
(* just those a bid could reserve now, also on the first look of a new     *)
(* date, before any operation has reset the stored counter.                *)
(***************************************************************************)
WalletAgrees ==
    \A g \in Guilds, a \in Amounts :
        LET w == GetWallet(pouch[g], today)
        IN  ReserveOK(pouch[g], a, today) <=>
              a > 0 /\ a <= w.usable /\ w.spentToday + a <= w.limit

-----------------------------------------------------------------------------
(* Bids.                                                                   *)

(***************************************************************************)
(* Every bid accepted on an auction is at least 105% of every bid accepted *)
(* on it before, cancelled ones included, however the requests raced: the  *)
(* price asked never falls and rounding never lets a smaller step through. *)
(***************************************************************************)
BidLadder ==
    \A b, c \in DOMAIN bids :
        b < c /\ bids[b].auction = bids[c].auction =>
            minBidDenominator * bids[c].amount >= minBidNumerator * bids[b].amount

(***************************************************************************)
(* The verdict of an auction is complete and fair: once it is EXPIRED the  *)
(* greatest bid ever accepted on it has WON, no other one has, and none is *)
(* left ACTIVE.                                                            *)
(***************************************************************************)
FairVerdict ==
    \A a \in DOMAIN auctions :
        auctions[a].status = "EXPIRED" =>
            \A b \in BidsOf(a) :
                IF \A c \in BidsOf(a) : bids[c].amount <= bids[b].amount
                THEN bids[b].status = "WON"
                ELSE bids[b].status \in {"LOST", "CANCELLED"}

(***************************************************************************)
(* EXPIRED is final: the Settler's work on an auction is done once, and no *)
(* bid or cancellation that was under way reaches it afterwards, nor can   *)
(* its end move.                                                           *)
(***************************************************************************)
ExpiredIsFinal ==
    [][\A a \in DOMAIN auctions :
         auctions[a].status = "EXPIRED" =>
            /\ auctions'[a] = auctions[a]
            /\ BidsOf(a)' = BidsOf(a)
            /\ \A b \in BidsOf(a) : bids'[b] = bids[b]]_vars

(***************************************************************************)
(* Sniping protection: an auction is not closed before a whole             *)
(* bidExtensionWindow has gone by after the last bid, whenever the sweep   *)
(* listed it.                                                              *)
(***************************************************************************)
QuietBeforeClose ==
    [][\A a \in DOMAIN auctions :
         auctions[a].status = "ACTIVE" /\ auctions'[a].status = "EXPIRED" =>
            \A b \in BidsOf(a) : now > bids[b].at + bidExtensionWindow]_vars

-----------------------------------------------------------------------------
(* Items.                                                                  *)

WonBids(i) ==
    {b \in DOMAIN bids : bids[b].status = "WON" /\ auctions[bids[b].auction].item = i}

\* The guild that item i belongs to by right: whoever won it last.
Heir(i) == IF WonBids(i) = {} THEN SeedOwner[i] ELSE bids[Max(WonBids(i))].guild

(***************************************************************************)
(* Every LEGENDARY item is always in exactly one inventory, that of the    *)
(* guild that won its latest settled auction: settlement neither doubles   *)
(* nor loses an item, and payment and item change hands together.          *)
(***************************************************************************)
Title == \A i \in Items : {g \in Guilds : <<g, i>> \in inv} = {Heir(i)}

(***************************************************************************)
(* The guild an ACTIVE auction was created for owns the item (what the     *)
(* comment on CreateAuction says it validates).                            *)
(***************************************************************************)
SellerOwnsItem ==
    \A a \in DOMAIN auctions : auctions[a].status = "ACTIVE" => SellerHasItem(a)

(***************************************************************************)
(* "start_time = now, end_time = now + DurationSeconds": an auction that   *)
(* is created runs for as many seconds as its owner asked for.             *)
(***************************************************************************)
RunsAsAsked ==
    [][Len(auctions') > Len(auctions) =>
         \E t \in Handlers :
            /\ tx[t].pc = "insert" /\ tx'[t].pc = "idle"
            /\ auctions'[Len(auctions')].endTime >= tx[t].at + tx[t].duration * second]_vars

(***************************************************************************)
(* "Auctions past their end_time are settled by a background job": when    *)
(* the Settler has locked an auction that is over and the winner's pouch,  *)
(* the payment goes through.                                               *)
(***************************************************************************)
WinnerCanPay ==
    \A s \in Settlers :
        tx[s].pc = "settleWinner" /\ Granted(s) => Accepted(s)

-----------------------------------------------------------------------------
(* What an onlooker sees.                                                  *)

Gold == [g \in Guilds |-> pouch[g].total]

Lots == [a \in DOMAIN auctions |->
           [item |-> auctions[a].item, seller |-> auctions[a].owner,
            price |-> auctions[a].basePrice, open |-> auctions[a].status = "ACTIVE"]]

Offers == [b \in DOMAIN bids |->
             [lot |-> bids[b].auction, guild |-> bids[b].guild,
              amount |-> bids[b].amount, status |-> bids[b].status]]

House == INSTANCE AuctionHouse WITH gold <- Gold, title <- inv, lots <- Lots, offers <- Offers

(***************************************************************************)
(* The committed rows behave like an auction house where every operation   *)
(* happens at once: whatever is racing, waiting, refused or failing, a     *)
(* settlement is seen as one exchange of gold against title, no bid is     *)
(* taken that is not covered or does not top the best one of that moment,  *)
(* and nothing ever changes but by an opening, an offer, a withdrawal or a *)
(* closing.                                                                *)
(***************************************************************************)
ImplementsHouse == House!HouseSpec

-----------------------------------------------------------------------------
(* Progress.                                                               *)

(***************************************************************************)
(* An auction whose end comes within the explored time is settled: refused *)
(* requests, lost connections, restarts and bids that keep pushing the end *)
(* back only delay the Settler.                                            *)
(***************************************************************************)
EventuallySettled ==
    \A a \in 1 .. MaxAuctions :
        (a \in DOMAIN auctions /\ auctions[a].endTime < MaxTime) ~>
            (/\ a \in DOMAIN auctions
             /\ auctions[a].status = "EXPIRED" \/ auctions[a].endTime >= MaxTime)
=============================================================================
