--------------------------- MODULE BiddingProofs ---------------------------
(***************************************************************************)
(* Proofs about what the guilds are promised, for any number of guilds,    *)
(* items, requests, settlers and auctions: bids climb by 5%, the greatest  *)
(* one wins, what is settled stays settled, no auction is closed in the    *)
(* sniping window of a bid, and every item has one owner.                  *)
(*                                                                         *)
(* The definitions take the tables as parameters: A are the auctions, B    *)
(* the bids, V the inventories, n is the time.                             *)
(***************************************************************************)
EXTENDS AuctionProofs

BidPC == {"bidReserve", "bidCommit"}
CancelPC == {"cancelRelease", "cancelCommit"}
SettlePC == {"settleWinner", "creditOwner", "transfer", "releaseLosers", "expire"}

On(B, a) == {b \in DOMAIN B : B[b].auction = a}

IsLast(B, a, b) == b \in On(B, a) /\ \A c \in On(B, a) : c <= b

Tops(amount, B, a) ==
    \A b \in On(B, a) : minBidNumerator * B[b].amount <= minBidDenominator * amount

-----------------------------------------------------------------------------
(* The committed rows.                                                     *)

\* The last bid on an open auction stands, and the others stand or were withdrawn.
OpenBids(B, a) ==
    /\ \A b \in On(B, a) : B[b].status \in {"ACTIVE", "CANCELLED"}
    /\ On(B, a) = {} \/ \E b \in On(B, a) : IsLast(B, a, b) /\ B[b].status = "ACTIVE"

\* The last bid on a closed auction has won, and the others have not.
ClosedBids(B, a) ==
    On(B, a) = {} \/ \E b \in On(B, a) :
        /\ IsLast(B, a, b) /\ B[b].status = "WON"
        /\ \A c \in On(B, a) \ {b} : B[c].status \in {"LOST", "CANCELLED"}

Rising(B) ==
    \A b, c \in DOMAIN B :
        b < c /\ B[b].auction = B[c].auction =>
            minBidNumerator * B[b].amount <= minBidDenominator * B[c].amount

Orderly(A, B) ==
    /\ \A b \in DOMAIN B : B[b].amount > 0
    /\ Rising(B)
    /\ \A b \in DOMAIN B : B[b].at + bidExtensionWindow <= A[B[b].auction].endTime
    /\ \A a \in DOMAIN A : A[a].status = "ACTIVE" => OpenBids(B, a)
    /\ \A a \in DOMAIN A : A[a].status = "EXPIRED" => ClosedBids(B, a)

\* An item is on offer once at a time, and bids on it come after all bids on it
\* in auctions that are over.
InTurn(A, B) ==
    /\ \A a, c \in DOMAIN A :
          A[a].item = A[c].item /\ A[a].status = "ACTIVE" /\ A[c].status = "ACTIVE" => a = c
    /\ \A b, c \in DOMAIN B :
          /\ A[B[b].auction].item = A[B[c].auction].item
          /\ A[B[b].auction].status = "EXPIRED" /\ A[B[c].auction].status = "ACTIVE"
          => b < c

Won(A, B, i) == {b \in DOMAIN B : B[b].status = "WON" /\ A[B[b].auction].item = i}

OwnersOf(V, i) == {g \in Guilds : <<g, i>> \in V}

\* Item i belongs to the guild of the last bid that won it.
Owned(A, B, V, i) ==
    \/ Won(A, B, i) = {} /\ OwnersOf(V, i) = {SeedOwner[i]}
    \/ \E w \in Won(A, B, i) : /\ \A b \in Won(A, B, i) : b <= w
                               /\ OwnersOf(V, i) = {B[w].guild}

Sound(A, B, V) == Orderly(A, B) /\ InTurn(A, B) /\ \A i \in Items : Owned(A, B, V, i)

-----------------------------------------------------------------------------
(* The transactions.                                                       *)

(***************************************************************************)
(* What transaction record r may rely on.  Behind the lock of its auction  *)
(* nothing of this changes: the bid it places still tops all others, the   *)
(* bid it withdraws is still not the last, the bid it awards still is.     *)
(***************************************************************************)
Claim(r, A, B, V, n) ==
    /\ r.pc \in BidPC \cup {"bidLock"} => r.amount > 0
    /\ r.pc \in BidPC => r.at <= A[r.auction].endTime /\ Tops(r.amount, B, r.auction)
    /\ r.pc \in CancelPC \cup {"cancelLock"} => B[r.bid].auction = r.auction
    /\ r.pc \in CancelPC => \E c \in On(B, r.auction) : r.bid < c
    /\ r.pc \in SettlePC =>
          /\ A[r.auction].endTime < n
          /\ IF r.bid = 0 THEN On(B, r.auction) = {} ELSE IsLast(B, r.auction, r.bid)
    /\ r.pc \in {"releaseLosers", "expire"} /\ r.bid # 0 =>
          <<A[r.auction].owner, A[r.auction].item>> \in V
    /\ r.pc \in LockedPC => A[r.auction].status = "ACTIVE"

\* No two transactions hold one auction.
Exclusive(f) ==
    \A t, u \in Procs :
        t # u /\ f[t].pc \in LockedPC /\ f[u].pc \in LockedPC => f[t].auction # f[u].auction

BiddingInv ==
    /\ Sound(auctions, bids, inv)
    /\ \A t \in Procs : Claim(tx[t], auctions, bids, inv, now)
    /\ Exclusive(tx)

-----------------------------------------------------------------------------
(* Facts about the rows.                                                   *)

\* The tables, as far as their types matter.
Tables(A, B) ==
    /\ A \in Seq(Auction) /\ B \in Seq(Bid)
    /\ \A b \in DOMAIN B : B[b].auction \in DOMAIN A

(***************************************************************************)
(* The types of the rows.                                                  *)
(***************************************************************************)
LEMMA RowTypes ==
    ASSUME NEW A, NEW B, Tables(A, B)
    PROVE  /\ \A a \in DOMAIN A : /\ a \in Nat \ {0} /\ A[a].endTime \in Nat
                                  /\ A[a].item \in Items /\ A[a].owner \in Guilds
                                  /\ A[a].status \in AuctionStatus
           /\ \A b \in DOMAIN B : /\ b \in Nat \ {0} /\ B[b].auction \in DOMAIN A
                                  /\ B[b].amount \in Nat /\ B[b].at \in Nat
                                  /\ B[b].guild \in Guilds /\ B[b].status \in BidStatus
<1>1. /\ \A a \in DOMAIN A : a \in Nat \ {0} /\ A[a] \in Auction
      /\ \A b \in DOMAIN B : b \in Nat \ {0} /\ B[b] \in Bid
  BY Rows DEF Tables
<1> QED
  BY <1>1 DEF Tables, Auction, Bid

(***************************************************************************)
(* A later bid on an auction is greater.                                   *)
(***************************************************************************)
LEMMA LaterIsGreater ==
    ASSUME NEW A, NEW B, Tables(A, B), Orderly(A, B), NEW b \in DOMAIN B, NEW c \in DOMAIN B,
           B[b].auction = B[c].auction, b < c
    PROVE  B[b].amount < B[c].amount
<1>1. B[b].amount \in Nat /\ B[c].amount \in Nat /\ B[b].amount > 0
  BY RowTypes DEF Orderly
<1>2. 105 * B[b].amount <= 100 * B[c].amount
  BY DEF Orderly, Rising, minBidNumerator, minBidDenominator
<1> QED
  BY <1>1, <1>2

(***************************************************************************)
(* The committed tables have these types.                                  *)
(***************************************************************************)
LEMMA TablesHold ==
    ASSUME AuctionInv
    PROVE  Tables(auctions, bids)
  BY DEF AuctionInv, TypeOK, References, Tables

(***************************************************************************)
(* GetHighestActiveByAuctionID finds the last bid on an open auction.      *)
(***************************************************************************)
LEMMA HighestIsLast ==
    ASSUME Tables(auctions, bids), Orderly(auctions, bids), NEW a \in DOMAIN auctions,
           auctions[a].status = "ACTIVE"
    PROVE  \/ On(bids, a) = {} /\ Highest(a) = {}
           \/ \E b \in On(bids, a) : IsLast(bids, a, b) /\ Highest(a) = {b}
<1>1. CASE On(bids, a) = {}
  BY <1>1 DEF On, Highest, ActiveBidsOf, BidsOf
<1>2. ASSUME NEW b \in On(bids, a), IsLast(bids, a, b), bids[b].status = "ACTIVE"
      PROVE  Highest(a) = {b}
  <2>1. \A c \in On(bids, a) : /\ c \in Nat /\ bids[c].amount \in Nat
                               /\ c # b => bids[c].amount < bids[b].amount
    BY <1>2, RowTypes, LaterIsGreater DEF On, IsLast
  <2>2. ActiveBidsOf(a) \subseteq On(bids, a) /\ b \in ActiveBidsOf(a)
    BY <1>2 DEF ActiveBidsOf, BidsOf, On
  <2>3. b \in Highest(a)
    BY <2>1, <2>2 DEF Highest
  <2>4. ASSUME NEW c \in Highest(a)
        PROVE  c = b
    BY <2>1, <2>2 DEF Highest
  <2> QED
    BY <2>3, <2>4
<1> QED
  BY <1>1, <1>2 DEF Orderly, OpenBids

-----------------------------------------------------------------------------
(* The common parts of the steps.                                          *)

\* The step from A, B, V to A2, B2, V2 leaves alone what r holds.
Untouched(r, A, B, V, A2, B2, V2) ==
    /\ \A b \in DOMAIN B : B2[b].auction = B[b].auction
    /\ r.pc \in LockedPC =>
          /\ A2[r.auction] = A[r.auction]
          /\ On(B2, r.auction) = On(B, r.auction)
          /\ \A b \in On(B, r.auction) : B2[b] = B[b]
          /\ <<A[r.auction].owner, A[r.auction].item>> \in V =>
                <<A[r.auction].owner, A[r.auction].item>> \in V2

(***************************************************************************)
(* What a transaction relies on survives the steps of the others: they do  *)
(* not touch the auction it holds, nor any bid on it.                      *)
(***************************************************************************)
LEMMA ClaimStays ==
    ASSUME NEW A, NEW B, NEW V, NEW n \in Nat, NEW A2, NEW B2, NEW V2, NEW n2 \in Nat,
           Tables(A, B), NEW r, Claim(r, A, B, V, n), Refers(r, DOMAIN A, DOMAIN B),
           n <= n2, Untouched(r, A, B, V, A2, B2, V2)
    PROVE  Claim(r, A2, B2, V2, n2)
<1>1. /\ BidPC \subseteq LockedPC /\ CancelPC \subseteq LockedPC /\ SettlePC \subseteq LockedPC
      /\ {"releaseLosers", "expire"} \subseteq SettlePC
  BY DEF BidPC, CancelPC, SettlePC, LockedPC
<1>2. r.pc \in BidPC => Tops(r.amount, B2, r.auction)
  BY <1>1 DEF Claim, Tops, Untouched
<1>3. r.pc \in CancelPC \cup {"cancelLock"} => B2[r.bid].auction = r.auction
  BY DEF Claim, Refers, CancelPC, Untouched
<1>4. ASSUME r.pc \in SettlePC
      PROVE  /\ A2[r.auction].endTime < n2
             /\ IF r.bid = 0 THEN On(B2, r.auction) = {} ELSE IsLast(B2, r.auction, r.bid)
  <2>1. r.auction \in DOMAIN A
    BY <1>4 DEF Refers, SettlePC
  <2>2. A[r.auction].endTime \in Nat /\ A[r.auction].endTime < n
    BY <1>4, <2>1, RowTypes DEF Claim
  <2>3. A2[r.auction] = A[r.auction] /\ On(B2, r.auction) = On(B, r.auction)
    BY <1>1, <1>4 DEF Untouched
  <2>4. A2[r.auction].endTime < n2
    BY <2>2, <2>3
  <2> QED
    BY <1>4, <2>3, <2>4 DEF Claim, IsLast
<1>5. r.pc \in {"releaseLosers", "expire"} /\ r.bid # 0 =>
         <<A2[r.auction].owner, A2[r.auction].item>> \in V2
  BY <1>1 DEF Claim, Untouched
<1>6. r.pc \in CancelPC => \E c \in On(B2, r.auction) : r.bid < c
  BY <1>1 DEF Claim, Untouched
<1>7. /\ r.pc \in BidPC \cup {"bidLock"} => r.amount > 0
      /\ r.pc \in BidPC => r.at <= A2[r.auction].endTime
      /\ r.pc \in LockedPC => A2[r.auction].status = "ACTIVE"
  BY <1>1 DEF Claim, Untouched
<1> QED
  BY <1>2, <1>3, <1>4, <1>5, <1>6, <1>7 DEF Claim

(***************************************************************************)
(* A transaction takes the lock of an auction only when it is free.        *)
(***************************************************************************)
LEMMA StillExclusive ==
    ASSUME AuctionInv, Exclusive(tx), NEW t \in Procs, NEW r, tx' = [tx EXCEPT ![t] = r],
           r.pc \in LockedPC =>
              \/ tx[t].pc \in LockedPC /\ r.auction = tx[t].auction
              \/ AuctionFree(t, r.auction)
    PROVE  Exclusive(tx')
<1>1. tx'[t] = r /\ \A u \in Procs \ {t} : tx'[u] = tx[u]
  BY DEF AuctionInv, TypeOK, Procs
<1>2. ASSUME NEW u \in Procs \ {t}, r.pc \in LockedPC, tx[u].pc \in LockedPC
      PROVE  r.auction # tx[u].auction
  BY <1>2 DEF Exclusive, AuctionFree, Procs
<1>3. ASSUME NEW u \in Procs, NEW v \in Procs, u # v,
             tx'[u].pc \in LockedPC, tx'[v].pc \in LockedPC
      PROVE  tx'[u].auction # tx'[v].auction
  <2>1. CASE u = t
    BY <1>1, <1>2, <1>3, <2>1
  <2>2. CASE v = t
    BY <1>1, <1>2, <1>3, <2>2
  <2>3. CASE u # t /\ v # t
    BY <1>1, <1>3, <2>3 DEF Exclusive
  <2> QED
    BY <2>1, <2>2, <2>3
<1> QED
  BY <1>3 DEF Exclusive

(***************************************************************************)
(* A step that commits nothing.                                            *)
(***************************************************************************)
LEMMA Unseen ==
    ASSUME AuctionInv, BiddingInv, NEW t \in Procs, NEW r, tx' = [tx EXCEPT ![t] = r],
           Claim(r, auctions, bids, inv, now),
           r.pc \in LockedPC =>
              \/ tx[t].pc \in LockedPC /\ r.auction = tx[t].auction
              \/ AuctionFree(t, r.auction),
           UNCHANGED <<auctions, bids, inv, now>>
    PROVE  BiddingInv'
<1>1. Exclusive(tx')
  BY StillExclusive DEF BiddingInv
<1>2. ASSUME NEW u \in Procs
      PROVE  Claim(tx'[u], auctions, bids, inv, now)
  <2>1. CASE u = t
    BY <2>1 DEF AuctionInv, TypeOK, Procs
  <2>2. CASE u # t
    BY <2>2 DEF AuctionInv, TypeOK, BiddingInv, Procs
  <2> QED
    BY <2>1, <2>2
<1> QED
  BY <1>1, <1>2 DEF BiddingInv

(***************************************************************************)
(* A COMMIT by the holder t of auction a: others hold other auctions, and  *)
(* find their rows as they left them.                                      *)
(***************************************************************************)
LEMMA Committed ==
    ASSUME AuctionInv, AuctionAssumption, BiddingInv, NEW t \in Procs, NEW r,
           tx' = [tx EXCEPT ![t] = r], r.pc \in {"idle", "settleLock"},
           tx[t].pc \in LockedPC, now' = now,
           Sound(auctions', bids', inv'),
           \A c \in DOMAIN auctions \ {tx[t].auction} :
              /\ auctions'[c] = auctions[c]
              /\ On(bids', c) = On(bids, c)
              /\ \A b \in On(bids, c) : bids'[b] = bids[b]
              /\ auctions[c].status = "ACTIVE" =>
                    (<<auctions[c].owner, auctions[c].item>> \in inv =>
                        <<auctions[c].owner, auctions[c].item>> \in inv'),
           \A b \in DOMAIN bids : bids'[b].auction = bids[b].auction
    PROVE  BiddingInv'
<1>1. r.pc \notin LockedPC /\ r.pc \notin BidPC \cup CancelPC \cup SettlePC
      /\ r.pc \notin {"bidLock", "cancelLock", "releaseLosers", "expire"}
  BY DEF BidPC, CancelPC, SettlePC, LockedPC
<1>2. Exclusive(tx')
  BY <1>1, StillExclusive DEF BiddingInv
<1>3. Claim(r, auctions', bids', inv', now')
  BY <1>1 DEF Claim
<1>4. ASSUME NEW u \in Procs
      PROVE  Claim(tx'[u], auctions', bids', inv', now')
  <2>1. CASE u = t
    BY <1>3, <2>1 DEF AuctionInv, TypeOK, Procs
  <2>2. CASE u # t
    <3>1. tx'[u] = tx[u] /\ Claim(tx[u], auctions, bids, inv, now)
      BY <2>2 DEF AuctionInv, TypeOK, BiddingInv, Procs
    <3>2. Refers(tx[u], DOMAIN auctions, DOMAIN bids) /\ now \in Nat
      BY Types, SMTT(30)
    <3>3. tx[u].pc \in LockedPC =>
             /\ tx[u].auction \in DOMAIN auctions \ {tx[t].auction}
             /\ auctions[tx[u].auction].status = "ACTIVE"
      BY <2>2, <3>1, <3>2 DEF BiddingInv, Exclusive, Claim, Refers, LockedPC
    <3>4. tx[u].pc \in LockedPC =>
             /\ auctions'[tx[u].auction] = auctions[tx[u].auction]
             /\ On(bids', tx[u].auction) = On(bids, tx[u].auction)
             /\ \A b \in On(bids, tx[u].auction) : bids'[b] = bids[b]
             /\ <<auctions[tx[u].auction].owner, auctions[tx[u].auction].item>> \in inv =>
                   <<auctions[tx[u].auction].owner, auctions[tx[u].auction].item>> \in inv'
      BY <3>3, Zenon
    <3>5. Tables(auctions, bids) /\ now' \in Nat /\ now <= now'
      BY <3>2, TablesHold
    <3>6. Claim(tx[u], auctions', bids', inv', now')
      <4>1. Untouched(tx[u], auctions, bids, inv, auctions', bids', inv')
        BY <3>4, Zenon DEF Untouched
      <4> QED
        BY <3>1, <3>2, <3>5, <4>1, ClaimStays
    <3> QED
      BY <3>1, <3>6
  <2> QED
    BY <2>1, <2>2
<1> QED
  BY <1>2, <1>4 DEF BiddingInv

-----------------------------------------------------------------------------
(* The steps that commit nothing.                                          *)

SameWork(r, q) == r.auction = q.auction /\ r.bid = q.bid /\ r.amount = q.amount /\ r.at = q.at

(***************************************************************************)
(* Going on to the next step leaves the rest of the record as it is.       *)
(***************************************************************************)
LEMMA GotoRecord ==
    ASSUME AuctionInv, AuctionAssumption, NEW t \in Procs, NEW step, Goto(t, step)
    PROVE  \E r : tx' = [tx EXCEPT ![t] = r] /\ r.pc = step /\ SameWork(r, tx[t])
<1> DEFINE r == [tx[t] EXCEPT !.pc = step]
<1>1. tx' = [tx EXCEPT ![t] = r]
  BY Zenon DEF Goto
<1>2. tx[t] \in Tx
  BY Types
<1>3. r.pc = step /\ SameWork(r, tx[t])
  BY <1>2 DEF Tx, SameWork
<1> QED
  BY <1>1, <1>3

(***************************************************************************)
(* A claim carries over to the next step under the same lock.              *)
(***************************************************************************)
LEMMA ClaimGoesOn ==
    ASSUME NEW A, NEW B, NEW V, NEW n, NEW q, NEW r, Claim(q, A, B, V, n), SameWork(r, q),
           \/ q.pc \in BidPC /\ r.pc \in BidPC
           \/ q.pc \in CancelPC /\ r.pc \in CancelPC
           \/ q.pc \in SettlePC /\ r.pc \in SettlePC \ {"releaseLosers", "expire"}
           \/ /\ q.pc \in SettlePC /\ r.pc \in {"releaseLosers", "expire"}
              /\ r.bid # 0 => <<A[r.auction].owner, A[r.auction].item>> \in V
    PROVE  Claim(r, A, B, V, n) /\ q.pc \in LockedPC
  BY DEF Claim, SameWork, BidPC, CancelPC, SettlePC, LockedPC

(***************************************************************************)
(* The steps of a handler or a settler under its auction's lock.           *)
(***************************************************************************)
LEMMA GoesOn ==
    ASSUME AuctionInv, AuctionAssumption, BiddingInv, NEW t \in Procs, NEW step, Goto(t, step),
           \/ tx[t].pc \in BidPC /\ step \in BidPC
           \/ tx[t].pc \in CancelPC /\ step \in CancelPC
           \/ tx[t].pc \in SettlePC /\ step \in SettlePC \ {"releaseLosers", "expire"},
           UNCHANGED <<auctions, bids, inv, now>>
    PROVE  BiddingInv'
<1>1. PICK r : tx' = [tx EXCEPT ![t] = r] /\ r.pc = step /\ SameWork(r, tx[t])
  BY GotoRecord
<1>2. Claim(tx[t], auctions, bids, inv, now)
  BY DEF BiddingInv
<1>3. Claim(r, auctions, bids, inv, now) /\ tx[t].pc \in LockedPC
  BY <1>1, <1>2, ClaimGoesOn
<1> QED
  BY <1>1, <1>3, Unseen DEF SameWork

(***************************************************************************)
(* Reserving, releasing, charging and crediting.                           *)
(***************************************************************************)
LEMMA PouchStepKeeps ==
    ASSUME AuctionInv, AuctionAssumption, BiddingInv, NEW t \in Procs,
           ReserveForBid(t) \/ ReleaseForCancel(t) \/ SettleWinner(t) \/ CreditOwner(t)
    PROVE  BiddingInv'
<1>1. UNCHANGED <<auctions, bids, inv, now>>
  BY DEF ReserveForBid, ReleaseForCancel, SettleWinner, CreditOwner, auctionVars, clockVars
<1>2. CASE ReserveForBid(t)
  BY <1>1, <1>2, GoesOn, SMTT(30) DEF ReserveForBid, BidPC
<1>3. CASE ReleaseForCancel(t)
  BY <1>1, <1>3, GoesOn, SMTT(30) DEF ReleaseForCancel, CancelPC
<1>4. CASE SettleWinner(t)
  BY <1>1, <1>4, GoesOn DEF SettleWinner, SettlePC
<1>5. CASE CreditOwner(t)
  BY <1>1, <1>5, GoesOn DEF CreditOwner, SettlePC
<1> QED
  BY <1>2, <1>3, <1>4, <1>5

(***************************************************************************)
(* The loop over the losers is entered when the seller has the item, and   *)
(* left with the same claim.                                               *)
(***************************************************************************)
LEMMA LoopKeeps ==
    ASSUME AuctionInv, AuctionAssumption, BiddingInv, NEW s \in Procs,
           Transfer(s) \/ ReleaseLoser(s)
    PROVE  BiddingInv'
<1>1. /\ UNCHANGED <<auctions, bids, inv, now>>
      /\ tx[s].pc \in {"transfer", "releaseLosers"} /\ tx[s] \in Tx
      /\ Claim(tx[s], auctions, bids, inv, now)
      /\ Refers(tx[s], DOMAIN auctions, DOMAIN bids)
  BY Types DEF Transfer, ReleaseLoser, auctionVars, clockVars, BiddingInv
<1>2. <<auctions[tx[s].auction].owner, auctions[tx[s].auction].item>> \in inv
  <2>1. CASE Transfer(s)
    BY <2>1, SMTT(30) DEF Transfer, SellerHasItem
  <2>2. CASE ReleaseLoser(s)
    <3>1. tx[s].bid # 0
      BY <2>2, <1>1, Types DEF ReleaseLoser, Refers
    <3> QED
      BY <2>2, <3>1, <1>1, SMTT(40) DEF ReleaseLoser, Claim
  <2> QED
    BY <2>1, <2>2
<1>3. PICK rest : LoopOver(s, rest)
  BY DEF Transfer, ReleaseLoser
<1> DEFINE next == IF rest = {} THEN "expire" ELSE "releaseLosers"
           r == [tx[s] EXCEPT !.pc = next, !.losers = rest]
<1>4. tx' = [tx EXCEPT ![s] = r]
  BY <1>3, Zenon DEF LoopOver
<1>5. next \in {"releaseLosers", "expire"}
  OBVIOUS
<1> HIDE DEF next
<1>6. r.pc = next /\ SameWork(r, tx[s])
  BY <1>1 DEF Tx, SameWork
<1> HIDE DEF r
<1>7. Claim(r, auctions, bids, inv, now) /\ tx[s].pc \in LockedPC
  <2>1. tx[s].pc \in SettlePC /\ r.pc \in {"releaseLosers", "expire"}
    BY <1>1, <1>5, <1>6 DEF SettlePC
  <2>2. <<auctions[r.auction].owner, auctions[r.auction].item>> \in inv
    BY <1>2, <1>6 DEF SameWork
  <2> QED
    BY <1>1, <1>6, <2>1, <2>2, ClaimGoesOn
<1> QED
  BY <1>1, <1>4, <1>6, <1>7, Unseen DEF SameWork

(***************************************************************************)
(* A transaction that holds nothing and is not about to bid or to withdraw *)
(* relies on nothing.                                                      *)
(***************************************************************************)
LEMMA NothingToClaim ==
    ASSUME NEW r, r.pc \in {"idle", "insert", "settleLock"}, NEW A, NEW B, NEW V, NEW n
    PROVE  Claim(r, A, B, V, n) /\ r.pc \notin LockedPC
<1>1. /\ r.pc \notin BidPC \cup {"bidLock"} /\ r.pc \notin CancelPC \cup {"cancelLock"}
      /\ r.pc \notin SettlePC /\ r.pc \notin LockedPC
      /\ r.pc \notin {"releaseLosers", "expire"}
  BY DEF BidPC, CancelPC, SettlePC, LockedPC
<1> QED
  BY <1>1 DEF Claim

(***************************************************************************)
(* A request, and a sweep, begins without a lock.                          *)
(***************************************************************************)
LEMMA BeginKeeps ==
    ASSUME AuctionInv, AuctionAssumption, BiddingInv, NEW t \in Procs, Begin(t) \/ Tick(t)
    PROVE  BiddingInv'
<1>1. ASSUME NEW g \in Guilds, NEW i \in Items, NEW d \in Durations, BeginCreate(t, g, i, d)
      PROVE  BiddingInv'
  <2> DEFINE r == [Idle EXCEPT !.pc = "insert", !.guild = g, !.item = i, !.duration = d,
                               !.at = now]
  <2>1. tx' = [tx EXCEPT ![t] = r] /\ UNCHANGED <<auctions, bids, inv, now>>
    BY <1>1 DEF BeginCreate, auctionVars, clockVars
  <2>2. r.pc = "insert"
    BY DEF Idle
  <2> HIDE DEF r
  <2>3. Claim(r, auctions, bids, inv, now) /\ r.pc \notin LockedPC
    BY <2>2, NothingToClaim
  <2> QED
    BY <2>1, <2>3, Unseen
<1>2. ASSUME NEW g \in Guilds, NEW i \in Items, NEW amount \in Amounts,
             BeginBid(t, g, i, amount)
      PROVE  BiddingInv'
  <2>1. PICK a \in ActiveAuctions(i) :
           tx' = [tx EXCEPT ![t] = [Idle EXCEPT !.pc = "bidLock", !.guild = g,
                                                !.auction = a, !.amount = amount]]
    BY <1>2 DEF BeginBid
  <2> DEFINE r == [Idle EXCEPT !.pc = "bidLock", !.guild = g, !.auction = a, !.amount = amount]
  <2>2. r.pc = "bidLock" /\ r.amount = amount
    BY DEF Idle
  <2>3. tx' = [tx EXCEPT ![t] = r]
    BY <2>1
  <2>4. amount > 0 /\ UNCHANGED <<auctions, bids, inv, now>>
    BY <1>2 DEF BeginBid, auctionVars, clockVars
  <2> HIDE DEF r
  <2>5. /\ r.pc \notin BidPC /\ r.pc \notin CancelPC \cup {"cancelLock"}
        /\ r.pc \notin SettlePC /\ r.pc \notin LockedPC
        /\ r.pc \notin {"releaseLosers", "expire"}
    BY <2>2 DEF BidPC, CancelPC, SettlePC, LockedPC
  <2>6. Claim(r, auctions, bids, inv, now)
    BY <2>2, <2>4, <2>5 DEF Claim
  <2> QED
    BY <2>3, <2>4, <2>5, <2>6, Unseen
<1>3. ASSUME NEW g \in Guilds, NEW i \in Items, NEW b \in DOMAIN bids, BeginCancel(t, g, i, b)
      PROVE  BiddingInv'
  <2> DEFINE a == bids[b].auction
             r == [Idle EXCEPT !.pc = "cancelLock", !.guild = g, !.item = i,
                               !.auction = a, !.bid = b]
  <2>1. tx' = [tx EXCEPT ![t] = r] /\ UNCHANGED <<auctions, bids, inv, now>>
    BY <1>3 DEF BeginCancel, auctionVars, clockVars
  <2>2. r.pc = "cancelLock" /\ r.auction = bids[b].auction /\ r.bid = b
    BY DEF Idle
  <2> HIDE DEF r
  <2>3. /\ r.pc \notin BidPC \cup {"bidLock"} /\ r.pc \notin CancelPC
        /\ r.pc \notin SettlePC /\ r.pc \notin LockedPC
        /\ r.pc \notin {"releaseLosers", "expire"}
    BY <2>2 DEF BidPC, CancelPC, SettlePC, LockedPC
  <2>4. Claim(r, auctions, bids, inv, now)
    BY <2>2, <2>3 DEF Claim
  <2> QED
    BY <2>1, <2>3, <2>4, Unseen
<1>4. CASE Tick(t)
  <2> DEFINE due == {a \in DOMAIN auctions :
                       auctions[a].status = "ACTIVE" /\ auctions[a].endTime <= now}
             r == [Idle EXCEPT !.pc = "settleLock", !.auction = Min(due), !.queue = due]
  <2>1. tx' = [tx EXCEPT ![t] = r] /\ UNCHANGED <<auctions, bids, inv, now>>
    BY <1>4 DEF Tick, auctionVars, clockVars
  <2> HIDE DEF due
  <2>2. r.pc = "settleLock"
    BY DEF Idle
  <2> HIDE DEF r
  <2>3. Claim(r, auctions, bids, inv, now) /\ r.pc \notin LockedPC
    BY <2>2, NothingToClaim
  <2> QED
    BY <2>1, <2>3, Unseen
<1> QED
  BY <1>1, <1>2, <1>3, <1>4 DEF Begin, CreateRequest, BidRequest, CancelRequest

(***************************************************************************)
(* ceilDiv rounds up: what is at least the quotient tops 100 x.            *)
(***************************************************************************)
LEMMA CeilDivRoundsUp ==
    ASSUME NEW x \in Nat, NEW m \in Nat, m >= ceilDiv(x * minBidNumerator, minBidDenominator)
    PROVE  minBidNumerator * x <= minBidDenominator * m
  BY DEF ceilDiv, minBidNumerator, minBidDenominator

(***************************************************************************)
(* A bid that passes its checks tops every bid on the auction, for the     *)
(* highest one standing is the last one placed.                            *)
(***************************************************************************)
LEMMA LockForBidKeeps ==
    ASSUME AuctionInv, AuctionAssumption, BiddingInv, NEW t \in Procs, LockForBid(t)
    PROVE  BiddingInv'
<1> DEFINE a == tx[t].auction
           r == [tx[t] EXCEPT !.pc = "bidReserve", !.at = now]
<1>1. /\ tx[t].pc = "bidLock" /\ AuctionFree(t, a) /\ BidAllowed(t)
      /\ tx' = [tx EXCEPT ![t] = r]
      /\ UNCHANGED <<auctions, bids, inv, now>>
  <2>1. tx[t].pc = "bidLock" /\ AuctionFree(t, a) /\ BidAllowed(t)
    BY Zenon DEF LockForBid
  <2>2. tx' = [tx EXCEPT ![t] = r]
    BY Zenon DEF LockForBid
  <2>3. UNCHANGED <<auctions, bids, inv, now>>
    BY DEF LockForBid, auctionVars, clockVars
  <2> QED
    BY <2>1, <2>2, <2>3
<1>2. /\ tx[t] \in Tx /\ Refers(tx[t], DOMAIN auctions, DOMAIN bids)
      /\ Claim(tx[t], auctions, bids, inv, now)
  BY Types DEF BiddingInv
<1>3. /\ r.pc = "bidReserve" /\ r.auction = tx[t].auction /\ r.amount = tx[t].amount
      /\ r.at = now
  BY <1>2 DEF Tx
<1> HIDE DEF r
<1>4. a \in DOMAIN auctions /\ auctions[a].status = "ACTIVE" /\ now <= auctions[a].endTime
  BY <1>1, <1>2 DEF BidAllowed, Refers
<1>5. tx[t].amount \in Nat /\ tx[t].amount > 0
  BY <1>1, <1>2 DEF Tx, Claim
<1>6. Tops(tx[t].amount, bids, a)
  <2>1. Tables(auctions, bids) /\ Orderly(auctions, bids)
    BY TablesHold DEF BiddingInv, Sound
  <2>2. MeetsFloor(a, tx[t].amount)
    BY <1>1 DEF BidAllowed
  <2>3. CASE On(bids, a) = {}
    BY <2>3 DEF Tops
  <2>4. ASSUME NEW l \in On(bids, a), IsLast(bids, a, l), Highest(a) = {l}
        PROVE  Tops(tx[t].amount, bids, a)
    <3>1. l \in DOMAIN bids /\ bids[l].amount \in Nat
      BY <2>1, RowTypes DEF On
    <3>2. tx[t].amount >= ceilDiv(bids[l].amount * minBidNumerator, minBidDenominator)
      BY <2>2, <2>4 DEF MeetsFloor
    <3>3. minBidNumerator * bids[l].amount <= minBidDenominator * tx[t].amount
      BY <1>5, <3>1, <3>2, CeilDivRoundsUp
    <3>4. ASSUME NEW b \in On(bids, a)
          PROVE  bids[b].amount \in Nat /\ bids[b].amount <= bids[l].amount
      <4>1. b \in DOMAIN bids /\ b \in Nat /\ l \in Nat /\ bids[b].amount \in Nat
        BY <2>1, RowTypes DEF On
      <4>2. b = l \/ b < l
        BY <2>4, <4>1 DEF IsLast, On
      <4> QED
        BY <2>1, <3>1, <4>1, <4>2, LaterIsGreater DEF On
    <3>5. ASSUME NEW b \in On(bids, a)
          PROVE  minBidNumerator * bids[b].amount <= minBidDenominator * tx[t].amount
      BY <1>5, <3>1, <3>3, <3>4 DEF minBidNumerator, minBidDenominator
    <3> QED
      BY <3>5 DEF Tops
  <2> QED
    BY <1>4, <2>1, <2>3, <2>4, HighestIsLast
<1>7. /\ r.pc \notin CancelPC \cup {"cancelLock"} /\ r.pc \notin SettlePC
      /\ r.pc \notin {"releaseLosers", "expire"}
  BY <1>3 DEF CancelPC, SettlePC
<1>8. Claim(r, auctions, bids, inv, now)
  BY <1>3, <1>4, <1>5, <1>6, <1>7 DEF Claim
<1> QED
  BY <1>1, <1>3, <1>8, Unseen

(***************************************************************************)
(* A bid that may be withdrawn is not the last one on its auction.         *)
(***************************************************************************)
LEMMA LockForCancelKeeps ==
    ASSUME AuctionInv, AuctionAssumption, BiddingInv, NEW t \in Procs, LockForCancel(t)
    PROVE  BiddingInv'
<1> DEFINE a == tx[t].auction
           b == tx[t].bid
<1>1. /\ tx[t].pc = "cancelLock" /\ AuctionFree(t, a) /\ CancelAllowed(t)
      /\ Goto(t, "cancelRelease") /\ UNCHANGED <<auctions, bids, inv, now>>
  BY DEF LockForCancel, auctionVars, clockVars
<1>2. PICK r : tx' = [tx EXCEPT ![t] = r] /\ r.pc = "cancelRelease" /\ SameWork(r, tx[t])
  BY <1>1, GotoRecord
<1>3. /\ Refers(tx[t], DOMAIN auctions, DOMAIN bids) /\ bids[b].auction = a
  BY <1>1, Types DEF BiddingInv, Claim
<1>4. /\ a \in DOMAIN auctions /\ auctions[a].status = "ACTIVE" /\ b \in On(bids, a)
      /\ bids[b].status = "ACTIVE" /\ b \notin Highest(a) /\ b \in Nat
  BY <1>1, <1>3, Types DEF CancelAllowed, Refers, On
<1>5. \E c \in On(bids, a) : b < c
  <2>1. Tables(auctions, bids) /\ Orderly(auctions, bids)
    BY TablesHold DEF BiddingInv, Sound
  <2>2. PICK l \in On(bids, a) : IsLast(bids, a, l) /\ Highest(a) = {l}
    BY <1>4, <2>1, HighestIsLast
  <2>3. l \in Nat /\ b <= l /\ b # l
    BY <1>4, <2>1, <2>2, RowTypes DEF IsLast, On
  <2> QED
    BY <1>4, <2>2, <2>3
<1>6. /\ r.pc \notin BidPC \cup {"bidLock"} /\ r.pc \notin SettlePC
      /\ r.pc \notin {"releaseLosers", "expire"}
  BY <1>2 DEF BidPC, SettlePC
<1>7. Claim(r, auctions, bids, inv, now)
  BY <1>2, <1>3, <1>4, <1>5, <1>6 DEF Claim, SameWork
<1> QED
  BY <1>1, <1>2, <1>7, Unseen DEF SameWork

(***************************************************************************)
(* The Settler takes the last bid, or finds that there is none.            *)
(***************************************************************************)
LEMMA LockForSettlementKeeps ==
    ASSUME AuctionInv, AuctionAssumption, BiddingInv, NEW s \in Procs, LockForSettlement(s)
    PROVE  BiddingInv'
<1> DEFINE a == tx[s].auction
<1>1. /\ tx[s].pc = "settleLock" /\ AuctionFree(s, a) /\ Eligible(a)
      /\ UNCHANGED <<auctions, bids, inv, now>>
  BY DEF LockForSettlement, auctionVars, clockVars
<1>2. /\ tx[s] \in Tx /\ tx[s].bid = 0 /\ a \in DOMAIN auctions /\ now \in Nat
      /\ auctions[a].status = "ACTIVE" /\ auctions[a].endTime < now
  BY <1>1, Types DEF Refers, Eligible, Auction
<1>3. \/ On(bids, a) = {} /\ Highest(a) = {}
      \/ \E b \in On(bids, a) : IsLast(bids, a, b) /\ Highest(a) = {b}
  BY <1>2, TablesHold, HighestIsLast DEF BiddingInv, Sound
<1>4. ASSUME NEW r, tx' = [tx EXCEPT ![s] = r], r.auction = a,
             r.pc \in {"settleWinner", "expire"}, r.pc = "expire" => r.bid = 0,
             IF r.bid = 0 THEN On(bids, a) = {} ELSE IsLast(bids, a, r.bid)
      PROVE  BiddingInv'
  <2>1. /\ r.pc \notin BidPC \cup {"bidLock"} /\ r.pc \notin CancelPC \cup {"cancelLock"}
        /\ ~(r.pc \in {"releaseLosers", "expire"} /\ r.bid # 0)
    BY <1>4 DEF BidPC, CancelPC
  <2>2. Claim(r, auctions, bids, inv, now)
    BY <1>2, <1>4, <2>1 DEF Claim
  <2> QED
    BY <1>1, <1>4, <2>2, Unseen
<1>5. CASE Highest(a) = {} /\ Goto(s, "expire")
  <2>1. PICK r : tx' = [tx EXCEPT ![s] = r] /\ r.pc = "expire" /\ SameWork(r, tx[s])
    BY <1>5, GotoRecord
  <2> QED
    BY <1>2, <1>3, <1>4, <1>5, <2>1 DEF SameWork
<1>6. ASSUME NEW w \in Highest(a),
             tx' = [tx EXCEPT ![s] = [@ EXCEPT !.pc = "settleWinner", !.bid = w]]
      PROVE  BiddingInv'
  <2> DEFINE r == [tx[s] EXCEPT !.pc = "settleWinner", !.bid = w]
  <2>1. tx' = [tx EXCEPT ![s] = r]
    BY <1>6, Zenon
  <2>2. r.pc = "settleWinner" /\ r.bid = w /\ r.auction = a
    BY <1>2 DEF Tx
  <2> HIDE DEF r
  <2>3. IsLast(bids, a, w) /\ w # 0
    BY <1>3, <1>6, Types DEF On
  <2> QED
    BY <1>4, <2>1, <2>2, <2>3
<1> QED
  BY <1>5, <1>6 DEF LockForSettlement

(***************************************************************************)
(* Rolling back gives the claim up.                                        *)
(***************************************************************************)
LEMMA AbortKeeps ==
    ASSUME AuctionInv, BiddingInv, NEW t \in Procs, Abort(t) /\ UNCHANGED clockVars
    PROVE  BiddingInv'
<1>1. Return(t) /\ UNCHANGED <<auctions, bids, inv, now>>
  BY DEF Abort, auctionVars, clockVars
<1>2. PICK r \in Tx : tx' = [tx EXCEPT ![t] = r] /\ r.pc \in {"idle", "settleLock"}
  BY <1>1, ReturnRecord
<1>3. Claim(r, auctions, bids, inv, now) /\ r.pc \notin LockedPC
  BY <1>2, NothingToClaim
<1> QED
  BY <1>1, <1>2, <1>3, Unseen

(***************************************************************************)
(* A restart gives all claims up; the clock and stuttering keep them.      *)
(***************************************************************************)
LEMMA OthersKeep ==
    ASSUME AuctionInv, AuctionAssumption, BiddingInv, Crash \/ Time \/ UNCHANGED vars
    PROVE  BiddingInv'
<1>1. CASE Crash
  <2>1. \A t \in Procs : tx'[t].pc = "idle"
    BY <1>1 DEF Crash, Idle, Procs
  <2>2. \A t \in Procs : Claim(tx'[t], auctions, bids, inv, now) /\ tx'[t].pc \notin LockedPC
    BY <2>1, NothingToClaim
  <2>3. UNCHANGED <<auctions, bids, inv, now>>
    BY <1>1 DEF Crash, auctionVars, clockVars
  <2> QED
    BY <2>2, <2>3 DEF BiddingInv, Exclusive
<1>2. CASE Time \/ UNCHANGED vars
  <2>1. UNCHANGED <<auctions, bids, inv, tx>> /\ now \in Nat /\ now' \in Nat /\ now <= now'
    BY <1>2, Types DEF Time, AdvanceClock, auctionVars, vars
  <2>2. ASSUME NEW t \in Procs
        PROVE  Claim(tx[t], auctions, bids, inv, now')
    <3>1. Untouched(tx[t], auctions, bids, inv, auctions, bids, inv)
      BY DEF Untouched
    <3>2. /\ Claim(tx[t], auctions, bids, inv, now) /\ Tables(auctions, bids)
          /\ Refers(tx[t], DOMAIN auctions, DOMAIN bids)
      BY Types, TablesHold DEF BiddingInv
    <3> QED
      BY <2>1, <3>1, <3>2, ClaimStays
  <2> QED
    BY <2>1, <2>2 DEF BiddingInv
<1> QED
  BY <1>1, <1>2
-----------------------------------------------------------------------------
(* The steps that commit.                                                  *)

\* A, B and A2, B2 differ in auction a and its bids only.
Elsewhere(a, A, B, A2, B2) ==
    \A c \in DOMAIN A \ {a} :
        A2[c] = A[c] /\ On(B2, c) = On(B, c) /\ \A b \in On(B, c) : B2[b] = B[b]

\* The bids of B2 are those of B, but for their statuses.
SameBids(B, B2) ==
    /\ DOMAIN B2 = DOMAIN B
    /\ \A b \in DOMAIN B : /\ B2[b].auction = B[b].auction /\ B2[b].guild = B[b].guild
                           /\ B2[b].amount = B[b].amount /\ B2[b].at = B[b].at

(***************************************************************************)
(* The bids on an auction stay open when one that is not the last is       *)
(* withdrawn.                                                              *)
(***************************************************************************)
LEMMA SoundAfterCancel ==
    ASSUME NEW A, NEW B, NEW V, NEW B2, NEW k \in DOMAIN B,
           Tables(A, B), Sound(A, B, V), SameBids(B, B2),
           A[B[k].auction].status = "ACTIVE",
           \E c \in On(B, B[k].auction) : k < c,
           B2[k].status = "CANCELLED",
           \A b \in DOMAIN B \ {k} : B2[b].status = B[b].status
    PROVE  Sound(A, B2, V)
<1> DEFINE a == B[k].auction
<1>1. \A c : On(B2, c) = On(B, c) /\ \A b : IsLast(B2, c, b) <=> IsLast(B, c, b)
  BY DEF SameBids, On, IsLast
<1>2. a \in DOMAIN A /\ OpenBids(B, a) /\ k \in On(B, a)
  BY RowTypes DEF Sound, Orderly, On
<1>3. OpenBids(B2, a)
  <2>1. PICK l \in On(B, a) : IsLast(B, a, l) /\ B[l].status = "ACTIVE"
    BY <1>2 DEF OpenBids
  <2>2. l # k
    <3>1. PICK c \in On(B, a) : k < c
      OBVIOUS
    <3>2. c \in Nat /\ l \in Nat /\ k \in Nat /\ c <= l
      BY <2>1, <3>1, RowTypes DEF On, IsLast
    <3> QED
      BY <3>1, <3>2
  <2>3. B2[l].status = "ACTIVE" /\ IsLast(B2, a, l) /\ l \in On(B2, a)
    BY <1>1, <2>1, <2>2 DEF On
  <2>4. \A b \in On(B2, a) : B2[b].status \in {"ACTIVE", "CANCELLED"}
    BY <1>1, <1>2 DEF OpenBids, On
  <2> QED
    BY <2>3, <2>4 DEF OpenBids
<1>4. \A c : c # a => (OpenBids(B, c) => OpenBids(B2, c)) /\ (ClosedBids(B, c) => ClosedBids(B2, c))
  <2>1. \A c : c # a => \A b \in On(B, c) : B2[b].status = B[b].status
    BY DEF On
  <2>2. \A c : c # a => (OpenBids(B, c) => OpenBids(B2, c))
    BY <1>1, <2>1 DEF OpenBids
  <2>3. \A c : c # a => (ClosedBids(B, c) => ClosedBids(B2, c))
    BY <1>1, <2>1 DEF ClosedBids
  <2> QED
    BY <2>2, <2>3
<1>5. Orderly(A, B2)
  <2>1. Rising(B2)
    BY DEF Sound, Orderly, Rising, SameBids
  <2>2. /\ \A b \in DOMAIN B2 : B2[b].amount > 0
        /\ \A b \in DOMAIN B2 : B2[b].at + bidExtensionWindow <= A[B2[b].auction].endTime
    BY DEF Sound, Orderly, SameBids
  <2>3. /\ \A c \in DOMAIN A : A[c].status = "ACTIVE" => OpenBids(B2, c)
        /\ \A c \in DOMAIN A : A[c].status = "EXPIRED" => ClosedBids(B2, c)
    BY <1>3, <1>4 DEF Sound, Orderly
  <2> QED
    BY <2>1, <2>2, <2>3 DEF Orderly
<1>6. InTurn(A, B2)
  BY DEF Sound, InTurn, SameBids
<1>7. ASSUME NEW i \in Items
      PROVE  Owned(A, B2, V, i)
  <2>1. B[k].status # "WON"
    BY <1>2 DEF OpenBids
  <2>2. Won(A, B2, i) = Won(A, B, i)
    BY <2>1 DEF Won, SameBids
  <2>3. \A w \in Won(A, B, i) : B2[w].guild = B[w].guild
    BY DEF Won, SameBids
  <2> QED
    BY <2>2, <2>3 DEF Owned, Sound
<1> QED
  BY <1>5, <1>6, <1>7 DEF Sound

(***************************************************************************)
(* CancelBid commits.                                                      *)
(***************************************************************************)
LEMMA CommitCancelKeeps ==
    ASSUME AuctionInv, AuctionAssumption, BiddingInv, NEW t \in Procs, CommitCancel(t)
    PROVE  BiddingInv' /\ Elsewhere(tx[t].auction, auctions, bids, auctions', bids')
<1> DEFINE a == tx[t].auction
           k == tx[t].bid
<1>1. /\ tx[t].pc = "cancelCommit" /\ k \in DOMAIN bids /\ bids[k] \in Bid
      /\ Claim(tx[t], auctions, bids, inv, now)
  BY Types DEF CommitCancel, Refers, BiddingInv
<1>2. bids[k].auction = a /\ auctions[a].status = "ACTIVE" /\ \E c \in On(bids, a) : k < c
  BY <1>1 DEF Claim, CancelPC, LockedPC
<1>3. bids' = [bids EXCEPT ![k].status = "CANCELLED"] /\ UNCHANGED <<auctions, inv, now>>
  BY DEF CommitCancel, clockVars
<1>4. SameBids(bids, bids') /\ bids'[k].status = "CANCELLED"
      /\ \A b \in DOMAIN bids \ {k} : bids'[b] = bids[b]
  <2>1. \A b \in DOMAIN bids \ {k} : bids'[b] = bids[b]
    BY <1>3
  <2>2. /\ bids'[k].status = "CANCELLED" /\ bids'[k].auction = bids[k].auction
        /\ bids'[k].guild = bids[k].guild /\ bids'[k].amount = bids[k].amount
        /\ bids'[k].at = bids[k].at
    BY <1>1, <1>3 DEF Bid
  <2>3. DOMAIN bids' = DOMAIN bids
    BY <1>3
  <2> QED
    BY <2>1, <2>2, <2>3 DEF SameBids
<1>5. Sound(auctions, bids', inv)
  BY <1>1, <1>2, <1>4, TablesHold, SoundAfterCancel DEF BiddingInv
<1>6. PICK r : tx' = [tx EXCEPT ![t] = r] /\ r.pc \in {"idle", "settleLock"}
  BY ReturnRecord DEF CommitCancel
<1>7. \A c \in DOMAIN auctions \ {a} :
         On(bids', c) = On(bids, c) /\ \A b \in On(bids, c) : bids'[b] = bids[b]
  BY <1>2, <1>4 DEF On, SameBids
<1>8. tx[t].pc \in LockedPC
  BY <1>1 DEF LockedPC
<1>9. BiddingInv'
  BY <1>3, <1>4, <1>5, <1>6, <1>7, <1>8, Committed DEF SameBids
<1> QED
  BY <1>3, <1>7, <1>9 DEF Elsewhere

(***************************************************************************)
(* A new bid is the last one and tops the others, and its auction goes on  *)
(* for a sniping window at least.                                          *)
(***************************************************************************)
LEMMA SoundAfterBid ==
    ASSUME AuctionAssumption,
           NEW A, NEW B, NEW V, NEW A2, NEW B2, NEW a \in DOMAIN A, NEW m \in Nat,
           Tables(A, B), Sound(A, B, V), A[a].status = "ACTIVE",
           DOMAIN B2 = DOMAIN B \cup {m}, \A b \in DOMAIN B : B2[b] = B[b] /\ b < m,
           B2[m].auction = a, B2[m].amount \in Nat, B2[m].amount > 0,
           B2[m].status = "ACTIVE", Tops(B2[m].amount, B, a),
           B2[m].at + bidExtensionWindow <= A2[a].endTime,
           A2[a].endTime \in Nat, A[a].endTime <= A2[a].endTime,
           DOMAIN A2 = DOMAIN A, \A c \in DOMAIN A \ {a} : A2[c] = A[c],
           A2[a].status = "ACTIVE", A2[a].item = A[a].item
    PROVE  Sound(A2, B2, V)
<1> USE DEF Sound
<1>1. m \notin DOMAIN B /\ m \in DOMAIN B2 /\ \A b \in DOMAIN B : b \in Nat
  BY RowTypes
<1>2. On(B2, a) = On(B, a) \cup {m} /\ \A c : c # a => On(B2, c) = On(B, c)
  BY DEF On
<1>3. \A b \in On(B, a) : b \in DOMAIN B /\ B2[b] = B[b] /\ b < m
  BY DEF On
<1>4. OpenBids(B2, a)
  <2>1. OpenBids(B, a)
    BY DEF Orderly
  <2>2. \A b \in On(B2, a) : B2[b].status \in {"ACTIVE", "CANCELLED"}
    BY <1>2, <1>3, <2>1 DEF OpenBids
  <2>3. m \in On(B2, a) /\ IsLast(B2, a, m)
    BY <1>1, <1>2, <1>3 DEF IsLast, On
  <2> QED
    BY <2>2, <2>3 DEF OpenBids
<1>5. ASSUME NEW c \in DOMAIN A, c # a
      PROVE  (OpenBids(B, c) => OpenBids(B2, c)) /\ (ClosedBids(B, c) => ClosedBids(B2, c))
  <2>1. On(B2, c) = On(B, c) /\ \A b \in On(B, c) : B2[b] = B[b]
    BY <1>2, <1>5 DEF On
  <2> QED
    BY <2>1 DEF OpenBids, ClosedBids, IsLast
<1>6. Rising(B2)
  <2>1. ASSUME NEW b \in DOMAIN B2, NEW c \in DOMAIN B2, b < c, B2[b].auction = B2[c].auction
        PROVE  minBidNumerator * B2[b].amount <= minBidDenominator * B2[c].amount
    <3>1. CASE c = m
      <4>1. b \in DOMAIN B /\ B2[b] = B[b] /\ b \in On(B, a)
        BY <2>1, <3>1 DEF On
      <4> QED
        BY <3>1, <4>1 DEF Tops
    <3>2. CASE c # m /\ b # m
      BY <2>1, <3>2 DEF Orderly, Rising
    <3>3. CASE b = m
      BY <1>1, <2>1, <3>3
    <3> QED
      BY <3>1, <3>2, <3>3
  <2> QED
    BY <2>1 DEF Rising
<1>7. Orderly(A2, B2)
  <2>1. \A b \in DOMAIN B2 : B2[b].amount > 0
    BY DEF Orderly
  <2>2. ASSUME NEW b \in DOMAIN B2
        PROVE  B2[b].at + bidExtensionWindow <= A2[B2[b].auction].endTime
    <3>1. CASE b = m
      BY <3>1
    <3>2. CASE b \in DOMAIN B
      <4>1. /\ B[b].at \in Nat /\ B[b].auction \in DOMAIN A /\ bidExtensionWindow \in Nat
            /\ A[B[b].auction].endTime \in Nat
        BY <3>2, RowTypes DEF AuctionAssumption
      <4>2. B[b].at + bidExtensionWindow <= A[B[b].auction].endTime
        BY <3>2 DEF Orderly
      <4>3. CASE B[b].auction = a
        BY <3>2, <4>1, <4>2, <4>3
      <4>4. CASE B[b].auction # a
        BY <3>2, <4>1, <4>2, <4>4
      <4> QED
        BY <4>3, <4>4
    <3> QED
      BY <3>1, <3>2
  <2>3. ASSUME NEW c \in DOMAIN A2
        PROVE  /\ A2[c].status = "ACTIVE" => OpenBids(B2, c)
               /\ A2[c].status = "EXPIRED" => ClosedBids(B2, c)
    BY <1>4, <1>5 DEF Orderly
  <2> QED
    BY <1>6, <2>1, <2>2, <2>3 DEF Orderly
<1>8. \A c \in DOMAIN A : A2[c].item = A[c].item /\ A2[c].status = A[c].status
  OBVIOUS
<1>9. \A b \in DOMAIN B : B[b].auction \in DOMAIN A
  BY DEF Tables
<1>10. InTurn(A2, B2)
  <2>1. ASSUME NEW b \in DOMAIN B2, NEW c \in DOMAIN B2,
               A2[B2[b].auction].item = A2[B2[c].auction].item,
               A2[B2[b].auction].status = "EXPIRED", A2[B2[c].auction].status = "ACTIVE"
        PROVE  b < c
    <3>1. b \in DOMAIN B
      BY <2>1
    <3>2. CASE c = m
      BY <3>1, <3>2
    <3>3. CASE c \in DOMAIN B
      BY <1>8, <1>9, <2>1, <3>1, <3>3 DEF InTurn
    <3> QED
      BY <3>2, <3>3
  <2>2. \A x, c \in DOMAIN A2 :
           A2[x].item = A2[c].item /\ A2[x].status = "ACTIVE" /\ A2[c].status = "ACTIVE" => x = c
    BY <1>8 DEF InTurn
  <2> QED
    BY <2>1, <2>2 DEF InTurn
<1>11. ASSUME NEW i \in Items
       PROVE  Owned(A2, B2, V, i)
  <2>1. Won(A2, B2, i) = Won(A, B, i)
    BY <1>8, <1>9 DEF Won
  <2>2. \A w \in Won(A, B, i) : B2[w].guild = B[w].guild
    BY DEF Won
  <2> QED
    BY <2>1, <2>2 DEF Owned
<1> QED
  BY <1>7, <1>10, <1>11

(***************************************************************************)
(* A bid placed before the end leaves a window until the end that follows. *)
(***************************************************************************)
LEMMA WindowIsLeft ==
    ASSUME AuctionAssumption, NEW end \in Nat, NEW at \in Nat, at <= end
    PROVE  /\ ExtendedEnd(end, at) \in Nat /\ end <= ExtendedEnd(end, at)
           /\ at + bidExtensionWindow <= ExtendedEnd(end, at)
  BY DEF ExtendedEnd, AuctionAssumption

(***************************************************************************)
(* PlaceBid commits.                                                       *)
(***************************************************************************)
LEMMA CommitBidKeeps ==
    ASSUME AuctionInv, AuctionAssumption, BiddingInv, NEW t \in Procs, CommitBid(t)
    PROVE  BiddingInv' /\ Elsewhere(tx[t].auction, auctions, bids, auctions', bids')
<1> DEFINE a == tx[t].auction
           m == Len(bids) + 1
           e == [auction |-> a, guild |-> tx[t].guild, amount |-> tx[t].amount,
                 status |-> "ACTIVE", at |-> tx[t].at]
           end == ExtendedEnd(auctions[a].endTime, tx[t].at)
<1>1. /\ tx[t].pc = "bidCommit" /\ a \in DOMAIN auctions /\ auctions[a] \in Auction
      /\ tx[t].guild \in Guilds /\ tx[t].amount \in Nat /\ tx[t].at \in Nat
      /\ Claim(tx[t], auctions, bids, inv, now)
      /\ auctions \in Seq(Auction) /\ bids \in Seq(Bid)
  BY Types DEF CommitBid, Refers, BiddingInv, Tx
<1>2. /\ tx[t].amount > 0 /\ tx[t].at <= auctions[a].endTime /\ Tops(tx[t].amount, bids, a)
      /\ auctions[a].status = "ACTIVE"
  BY <1>1 DEF Claim, BidPC, LockedPC
<1>3. auctions[a].endTime \in Nat
  BY <1>1 DEF Auction
<1>4. end \in Nat /\ auctions[a].endTime <= end /\ tx[t].at + bidExtensionWindow <= end
  BY <1>1, <1>2, <1>3, WindowIsLeft
<1>5. /\ bids' = Append(bids, e)
      /\ auctions' = [auctions EXCEPT ![a].endTime = end]
      /\ UNCHANGED <<inv, now>>
  BY DEF CommitBid, clockVars
<1> HIDE DEF end
<1>6. /\ DOMAIN auctions' = DOMAIN auctions
      /\ \A c \in DOMAIN auctions \ {a} : auctions'[c] = auctions[c]
      /\ auctions'[a].endTime = end /\ auctions'[a].status = "ACTIVE"
      /\ auctions'[a].item = auctions[a].item
  BY <1>1, <1>2, <1>5 DEF Auction
<1>7. e \in Bid
  BY <1>1 DEF Bid, BidStatus
<1>8. e.auction = a /\ e.amount = tx[t].amount /\ e.status = "ACTIVE" /\ e.at = tx[t].at
  OBVIOUS
<1> HIDE DEF e
<1>9. /\ DOMAIN bids' = DOMAIN bids \cup {m} /\ bids'[m] = e /\ m \in Nat
      /\ \A b \in DOMAIN bids : bids'[b] = bids[b] /\ b < m
  <2>1. m \in Nat
    BY <1>1
  <2> QED
    BY <1>1, <1>5, <1>7, <2>1, InsertRow, SMTT(30)
<1>10. Tables(auctions, bids) /\ Sound(auctions, bids, inv)
  BY TablesHold DEF BiddingInv
<1> HIDE DEF m
<1>11. Sound(auctions', bids', inv)
  BY <1>1, <1>2, <1>4, <1>6, <1>8, <1>9, <1>10, SoundAfterBid
<1>12. PICK r : tx' = [tx EXCEPT ![t] = r] /\ r.pc \in {"idle", "settleLock"}
  BY ReturnRecord DEF CommitBid
<1>13. \A c \in DOMAIN auctions \ {a} :
          On(bids', c) = On(bids, c) /\ \A b \in On(bids, c) : bids'[b] = bids[b]
  BY <1>8, <1>9 DEF On
<1>14. tx[t].pc \in LockedPC
  BY <1>1 DEF LockedPC
<1>15. BiddingInv'
  BY <1>5, <1>6, <1>9, <1>11, <1>12, <1>13, <1>14, Committed
<1> QED
  BY <1>6, <1>13, <1>15 DEF Elsewhere

(***************************************************************************)
(* A settlement closes the auction, and its winner is the new owner of the *)
(* item: the winning bid is later than all that won the item before.       *)
(***************************************************************************)
LEMMA SoundAfterSettlement ==
    ASSUME NEW A, NEW B, NEW V, NEW A2, NEW B2, NEW V2, NEW a \in DOMAIN A, NEW w \in Nat,
           Tables(A, B), Sound(A, B, V), A[a].status = "ACTIVE",
           IF w = 0 THEN On(B, a) = {}
           ELSE IsLast(B, a, w) /\ <<A[a].owner, A[a].item>> \in V,
           DOMAIN A2 = DOMAIN A, \A c \in DOMAIN A \ {a} : A2[c] = A[c],
           A2[a].status = "EXPIRED", A2[a].item = A[a].item, A2[a].endTime = A[a].endTime,
           SameBids(B, B2),
           \A b \in DOMAIN B : B[b].auction # a => B2[b].status = B[b].status,
           \A b \in On(B, a) : IF b = w THEN B2[b].status = "WON"
                               ELSE IF B[b].status = "ACTIVE" THEN B2[b].status = "LOST"
                               ELSE B2[b].status = B[b].status,
           V2 = IF w = 0 THEN V
                ELSE (V \ {<<A[a].owner, A[a].item>>}) \cup {<<B[w].guild, A[a].item>>}
    PROVE  Sound(A2, B2, V2)
<1> USE DEF Sound
<1>1. \A c : On(B2, c) = On(B, c) /\ \A b : IsLast(B2, c, b) <=> IsLast(B, c, b)
  BY DEF SameBids, On, IsLast
<1>2. OpenBids(B, a)
  BY DEF Orderly
<1>3. ClosedBids(B2, a)
  <2>1. CASE w = 0
    BY <1>1, <2>1 DEF ClosedBids
  <2>2. CASE w # 0
    <3>1. w \in On(B2, a) /\ IsLast(B2, a, w) /\ B2[w].status = "WON"
      BY <1>1, <2>2 DEF IsLast
    <3>2. \A c \in On(B2, a) \ {w} : B2[c].status \in {"LOST", "CANCELLED"}
      BY <1>1, <1>2 DEF OpenBids
    <3> QED
      BY <3>1, <3>2 DEF ClosedBids
  <2> QED
    BY <2>1, <2>2
<1>4. ASSUME NEW c \in DOMAIN A, c # a
      PROVE  (OpenBids(B, c) => OpenBids(B2, c)) /\ (ClosedBids(B, c) => ClosedBids(B2, c))
  <2>1. \A b \in On(B, c) : B2[b].status = B[b].status
    BY <1>4 DEF On
  <2>2. OpenBids(B, c) => OpenBids(B2, c)
    BY <1>1, <2>1 DEF OpenBids
  <2>3. ClosedBids(B, c) => ClosedBids(B2, c)
    BY <1>1, <2>1 DEF ClosedBids
  <2> QED
    BY <2>2, <2>3
<1>5. \A c \in DOMAIN A : A2[c].item = A[c].item /\ A2[c].endTime = A[c].endTime
  OBVIOUS
<1>6. \A b \in DOMAIN B : B[b].auction \in DOMAIN A
  BY DEF Tables
<1>7. Orderly(A2, B2)
  <2>1. Rising(B2)
    BY DEF Orderly, Rising, SameBids
  <2>2. /\ \A b \in DOMAIN B2 : B2[b].amount > 0
        /\ \A b \in DOMAIN B2 : B2[b].at + bidExtensionWindow <= A2[B2[b].auction].endTime
    BY <1>5, <1>6 DEF Orderly, SameBids
  <2>3. ASSUME NEW c \in DOMAIN A2
        PROVE  /\ A2[c].status = "ACTIVE" => OpenBids(B2, c)
               /\ A2[c].status = "EXPIRED" => ClosedBids(B2, c)
    BY <1>3, <1>4 DEF Orderly
  <2> QED
    BY <2>1, <2>2, <2>3 DEF Orderly
<1>8. InTurn(A2, B2)
  <2>1. \A x, c \in DOMAIN A2 :
           A2[x].item = A2[c].item /\ A2[x].status = "ACTIVE" /\ A2[c].status = "ACTIVE" => x = c
    BY DEF InTurn
  <2>2. ASSUME NEW b \in DOMAIN B2, NEW c \in DOMAIN B2,
               A2[B2[b].auction].item = A2[B2[c].auction].item,
               A2[B2[b].auction].status = "EXPIRED", A2[B2[c].auction].status = "ACTIVE"
        PROVE  b < c
    <3>1. /\ b \in DOMAIN B /\ c \in DOMAIN B
          /\ B2[b].auction = B[b].auction /\ B2[c].auction = B[c].auction
          /\ B[b].auction \in DOMAIN A /\ B[c].auction \in DOMAIN A
      BY <1>6 DEF SameBids
    <3>2. B[c].auction # a /\ A[B[c].auction].status = "ACTIVE"
      BY <2>2, <3>1
    <3>3. A[B[b].auction].item = A[B[c].auction].item
      BY <1>5, <2>2, <3>1
    <3>4. B[b].auction # a
      BY <3>1, <3>2, <3>3 DEF InTurn
    <3>5. A[B[b].auction].status = "EXPIRED"
      BY <2>2, <3>1, <3>4
    <3> QED
      BY <3>1, <3>2, <3>3, <3>5 DEF InTurn
  <2> QED
    BY <2>1, <2>2 DEF InTurn
<1>9. ASSUME NEW i \in Items, i # A[a].item \/ w = 0
      PROVE  Owned(A2, B2, V2, i)
  <2>1. \A b \in DOMAIN B : A[B[b].auction].item = i => B2[b].status = B[b].status
    BY <1>9 DEF On
  <2>2. Won(A2, B2, i) = Won(A, B, i)
    BY <1>5, <1>6, <2>1 DEF Won, SameBids
  <2>3. OwnersOf(V2, i) = OwnersOf(V, i)
    BY <1>9 DEF OwnersOf
  <2>4. \A b \in Won(A, B, i) : B2[b].guild = B[b].guild
    BY DEF Won, SameBids
  <2> QED
    BY <2>2, <2>3, <2>4 DEF Owned
<1>10. ASSUME w # 0
       PROVE  Owned(A2, B2, V2, A[a].item)
  <2> DEFINE i == A[a].item
  <2>1. w \in On(B, a) /\ w \in DOMAIN B /\ B[w].auction = a /\ B[w].guild \in Guilds
        /\ i \in Items /\ A[a].owner \in Guilds
    BY <1>10, RowTypes DEF IsLast, On
  <2>2. ASSUME NEW b \in Won(A, B, i)
        PROVE  b < w
    <3>1. b \in DOMAIN B /\ B[b].status = "WON" /\ A[B[b].auction].item = i
          /\ B[b].auction \in DOMAIN A /\ A[B[b].auction].status \in AuctionStatus
      BY RowTypes DEF Won
    <3>2. A[B[b].auction].status # "ACTIVE"
      <4>1. A[B[b].auction].status = "ACTIVE" => OpenBids(B, B[b].auction)
        BY <3>1 DEF Orderly
      <4> QED
        BY <3>1, <4>1 DEF OpenBids, On
    <3>3. A[B[b].auction].status = "EXPIRED"
      BY <3>1, <3>2 DEF AuctionStatus
    <3> QED
      BY <2>1, <3>1, <3>3 DEF InTurn
  <2>3. w \in Won(A2, B2, i)
    BY <1>10, <2>1 DEF Won, SameBids
  <2>4. ASSUME NEW b \in Won(A2, B2, i), b # w
        PROVE  b \in Won(A, B, i)
    <3>1. b \in DOMAIN B /\ B2[b].status = "WON" /\ A[B[b].auction].item = i
      BY <1>5, <1>6 DEF Won, SameBids
    <3>2. B[b].status = "WON"
      BY <2>4, <3>1 DEF On
    <3> QED
      BY <3>1, <3>2 DEF Won
  <2>5. \A b \in Won(A2, B2, i) : b <= w
    BY <2>2, <2>4, RowTypes, <2>1 DEF Won
  <2>6. OwnersOf(V, i) = {A[a].owner}
    <3>1. A[a].owner \in OwnersOf(V, i)
      BY <1>10, <2>1 DEF OwnersOf
    <3>2. \E g : OwnersOf(V, i) = {g}
      BY <2>1 DEF Owned
    <3> QED
      BY <3>1, <3>2
  <2>7. OwnersOf(V2, i) = {B[w].guild}
    <3>1. \A g \in Guilds : <<g, i>> \in V2 <=> g = B[w].guild
      BY <1>10, <2>6 DEF OwnersOf
    <3> QED
      BY <2>1, <3>1 DEF OwnersOf
  <2> QED
    BY <2>1, <2>3, <2>5, <2>7 DEF Owned, SameBids
<1> QED
  BY <1>7, <1>8, <1>9, <1>10

(***************************************************************************)
(* The Settler commits.  The sellers of other open auctions keep their     *)
(* items, for no two open auctions are about the same one.                 *)
(***************************************************************************)
LEMMA CommitSettlementKeeps ==
    ASSUME AuctionInv, AuctionAssumption, BiddingInv, NEW s \in Procs, CommitSettlement(s)
    PROVE  BiddingInv' /\ Elsewhere(tx[s].auction, auctions, bids, auctions', bids')
<1> DEFINE a == tx[s].auction
           w == tx[s].bid
<1>1. /\ tx[s].pc = "expire" /\ a \in DOMAIN auctions /\ auctions[a] \in Auction
      /\ w \in Nat /\ Claim(tx[s], auctions, bids, inv, now)
      /\ Tables(auctions, bids) /\ Sound(auctions, bids, inv)
  <2>1. tx[s].pc = "expire" /\ tx[s] \in Tx /\ Refers(tx[s], DOMAIN auctions, DOMAIN bids)
    BY Types DEF CommitSettlement
  <2>2. a \in DOMAIN auctions /\ auctions[a] \in Auction /\ w \in Nat
    BY <2>1, Types DEF Refers, Tx
  <2> QED
    BY <2>1, <2>2, TablesHold DEF BiddingInv
<1>2. /\ auctions[a].status = "ACTIVE"
      /\ IF w = 0 THEN On(bids, a) = {}
         ELSE IsLast(bids, a, w) /\ <<auctions[a].owner, auctions[a].item>> \in inv
  BY <1>1 DEF Claim, SettlePC, LockedPC
<1>3. /\ auctions' = [auctions EXCEPT ![a].status = "EXPIRED"]
      /\ bids' = [b \in DOMAIN bids |-> [bids[b] EXCEPT !.status = Verdict(b, a, w)]]
      /\ inv' = HandOver(a, w) /\ now' = now
  BY Zenon DEF CommitSettlement, clockVars
<1>4. /\ DOMAIN auctions' = DOMAIN auctions
      /\ \A c \in DOMAIN auctions \ {a} : auctions'[c] = auctions[c]
      /\ auctions'[a].status = "EXPIRED" /\ auctions'[a].item = auctions[a].item
      /\ auctions'[a].endTime = auctions[a].endTime
  BY <1>1, <1>3 DEF Auction
<1> HIDE DEF a, w
<1>5. ASSUME NEW b \in DOMAIN bids
      PROVE  /\ bids'[b].auction = bids[b].auction /\ bids'[b].guild = bids[b].guild
             /\ bids'[b].amount = bids[b].amount /\ bids'[b].at = bids[b].at
             /\ bids'[b].status = Verdict(b, a, w)
             /\ Verdict(b, a, w) = bids[b].status => bids'[b] = bids[b]
  <2>1. bids'[b] = [bids[b] EXCEPT !.status = Verdict(b, a, w)]
    BY <1>3
  <2>2. bids[b] \in Bid
    BY Types
  <2> QED
    BY <2>1, <2>2 DEF Bid
<1>6. SameBids(bids, bids')
  BY <1>3, <1>5 DEF SameBids
<1>7. \A b \in DOMAIN bids : bids[b].auction # a => Verdict(b, a, w) = bids[b].status
  <2>1. \A b \in DOMAIN bids : b # 0
    BY Types
  <2> QED
    BY <1>2, <2>1 DEF Verdict, ActiveBidsOf, BidsOf, IsLast, On
<1>8. \A b \in On(bids, a) : IF b = w THEN bids'[b].status = "WON"
                             ELSE IF bids[b].status = "ACTIVE" THEN bids'[b].status = "LOST"
                             ELSE bids'[b].status = bids[b].status
  BY <1>5 DEF Verdict, ActiveBidsOf, BidsOf, On
<1>9. inv' = IF w = 0 THEN inv
             ELSE (inv \ {<<auctions[a].owner, auctions[a].item>>})
                     \cup {<<bids[w].guild, auctions[a].item>>}
  BY <1>3 DEF HandOver
<1>10. \A b \in DOMAIN bids : bids[b].auction # a => bids'[b].status = bids[b].status
  BY <1>5, <1>7
<1>11. Sound(auctions', bids', inv')
  BY <1>1, <1>2, <1>4, <1>6, <1>8, <1>9, <1>10, SoundAfterSettlement
<1>12. PICK r : tx' = [tx EXCEPT ![s] = r] /\ r.pc \in {"idle", "settleLock"}
  BY ReturnRecord DEF CommitSettlement
<1>13. ASSUME NEW c \in DOMAIN auctions \ {a}
       PROVE  /\ auctions'[c] = auctions[c]
              /\ On(bids', c) = On(bids, c)
              /\ \A b \in On(bids, c) : bids'[b] = bids[b]
              /\ auctions[c].status = "ACTIVE" =>
                    (<<auctions[c].owner, auctions[c].item>> \in inv =>
                        <<auctions[c].owner, auctions[c].item>> \in inv')
  <2>1. auctions'[c] = auctions[c]
    BY <1>4
  <2>2. On(bids', c) = On(bids, c)
    BY <1>6 DEF On, SameBids
  <2>3. \A b \in On(bids, c) : bids'[b] = bids[b]
    BY <1>5, <1>7 DEF On
  <2>4. auctions[c].status = "ACTIVE" => auctions[c].item # auctions[a].item
    BY <1>1, <1>2 DEF Sound, InTurn
  <2>5. auctions[c].status = "ACTIVE" =>
           (<<auctions[c].owner, auctions[c].item>> \in inv =>
               <<auctions[c].owner, auctions[c].item>> \in inv')
    BY <1>9, <2>4
  <2> QED
    BY <2>1, <2>2, <2>3, <2>5
<1>14. tx[s].pc \in LockedPC
  BY <1>1 DEF LockedPC
<1>15. BiddingInv'
  BY <1>3, <1>5, <1>11, <1>12, <1>13, <1>14, Committed DEF a
<1> QED
  BY <1>13, <1>15 DEF Elsewhere, a

(***************************************************************************)
(* A new auction has no bids, and its item is not on offer elsewhere.      *)
(***************************************************************************)
LEMMA SoundAfterInsert ==
    ASSUME NEW A, NEW B, NEW V, NEW A2, NEW m,
           Tables(A, B), Sound(A, B, V), m \notin DOMAIN A,
           DOMAIN A2 = DOMAIN A \cup {m}, \A c \in DOMAIN A : A2[c] = A[c],
           A2[m].status = "ACTIVE",
           \A c \in DOMAIN A : A[c].item = A2[m].item => A[c].status # "ACTIVE"
    PROVE  Sound(A2, B, V)
<1> USE DEF Sound
<1>1. \A b \in DOMAIN B : B[b].auction \in DOMAIN A /\ A2[B[b].auction] = A[B[b].auction]
  BY DEF Tables
<1>2. On(B, m) = {}
  BY <1>1 DEF On
<1>3. Orderly(A2, B)
  <2>1. \A b \in DOMAIN B : B[b].at + bidExtensionWindow <= A2[B[b].auction].endTime
    BY <1>1 DEF Orderly
  <2>2. OpenBids(B, m)
    BY <1>2 DEF OpenBids
  <2>3. /\ \A c \in DOMAIN A2 : A2[c].status = "ACTIVE" => OpenBids(B, c)
        /\ \A c \in DOMAIN A2 : A2[c].status = "EXPIRED" => ClosedBids(B, c)
    BY <2>2 DEF Orderly
  <2> QED
    BY <2>1, <2>3 DEF Orderly
<1>4. InTurn(A2, B)
  <2>1. \A x, c \in DOMAIN A2 :
           A2[x].item = A2[c].item /\ A2[x].status = "ACTIVE" /\ A2[c].status = "ACTIVE" => x = c
    BY DEF InTurn
  <2> QED
    BY <1>1, <2>1 DEF InTurn
<1>5. ASSUME NEW i \in Items
      PROVE  Owned(A2, B, V, i)
  <2>1. Won(A2, B, i) = Won(A, B, i)
    BY <1>1 DEF Won
  <2> QED
    BY <2>1 DEF Owned
<1> QED
  BY <1>3, <1>4, <1>5

(***************************************************************************)
(* CreateAuction commits.                                                  *)
(***************************************************************************)
LEMMA InsertKeeps ==
    ASSUME AuctionInv, AuctionInv', AuctionAssumption, BiddingInv, NEW t \in Procs,
           InsertAuction(t)
    PROVE  BiddingInv'
<1> DEFINE m == Len(auctions) + 1
<1>1. PICK e : auctions' = Append(auctions, e) /\ e.item = tx[t].item /\ e.status = "ACTIVE"
  BY DEF InsertAuction
<1>2. UNCHANGED <<bids, inv, now>> /\ RowAdmitted(t)
  BY DEF InsertAuction, clockVars
<1>3. auctions \in Seq(Auction) /\ auctions' \in Seq(Auction) /\ now \in Nat
  BY Types DEF AuctionInv, TypeOK
<1>4. /\ DOMAIN auctions' = DOMAIN auctions \cup {m} /\ m \notin DOMAIN auctions
      /\ auctions'[m] = e /\ \A c \in DOMAIN auctions : auctions'[c] = auctions[c]
  BY <1>1, <1>3
<1> HIDE DEF m
<1>5. \A c \in DOMAIN auctions : auctions[c].item = e.item => auctions[c].status # "ACTIVE"
  BY <1>1, <1>2 DEF RowAdmitted, OneActivePerItem, ActiveAuctions
<1>6. Tables(auctions, bids) /\ Sound(auctions, bids, inv)
  BY TablesHold DEF BiddingInv
<1>7. Sound(auctions', bids, inv)
  BY <1>1, <1>4, <1>5, <1>6, SoundAfterInsert
<1>8. PICK r : tx' = [tx EXCEPT ![t] = r] /\ r.pc \in {"idle", "settleLock"}
  BY ReturnRecord DEF InsertAuction
<1>9. Claim(r, auctions', bids, inv, now) /\ r.pc \notin LockedPC
  BY <1>8, NothingToClaim
<1>10. ASSUME NEW u \in Procs
       PROVE  Claim(tx'[u], auctions', bids, inv, now)
  <2>1. CASE u = t
    BY <1>8, <1>9, <2>1 DEF AuctionInv, TypeOK, Procs
  <2>2. CASE u # t
    <3>1. tx'[u] = tx[u]
      BY <1>8, <2>2 DEF AuctionInv, TypeOK, Procs
    <3>2. Claim(tx[u], auctions, bids, inv, now) /\ Refers(tx[u], DOMAIN auctions, DOMAIN bids)
      BY Types DEF BiddingInv
    <3>3. tx[u].pc \in LockedPC => auctions'[tx[u].auction] = auctions[tx[u].auction]
      BY <1>4, <3>2 DEF Refers, LockedPC
    <3>4. Untouched(tx[u], auctions, bids, inv, auctions', bids, inv)
      BY <3>3, Zenon DEF Untouched
    <3> QED
      BY <1>3, <1>6, <3>1, <3>2, <3>4, ClaimStays
  <2> QED
    BY <2>1, <2>2
<1>11. Exclusive(tx')
  BY <1>8, <1>9, StillExclusive DEF BiddingInv
<1> QED
  BY <1>2, <1>7, <1>10, <1>11 DEF BiddingInv

(***************************************************************************)
(* Nothing is on offer at first, and the seeded guilds have the items.     *)
(***************************************************************************)
LEMMA InitBidding ==
    ASSUME AuctionAssumption, AuctionInit
    PROVE  BiddingInv
<1>1. DOMAIN auctions = {} /\ DOMAIN bids = {} /\ \A t \in Procs : tx[t].pc = "idle"
  BY DEF AuctionInit, Idle, Procs
<1>2. Orderly(auctions, bids) /\ InTurn(auctions, bids)
  BY <1>1 DEF Orderly, Rising, InTurn
<1>3. ASSUME NEW i \in Items
      PROVE  Owned(auctions, bids, inv, i)
  <2>1. SeedOwner[i] \in Guilds
    BY DEF AuctionAssumption
  <2>2. \A g \in Guilds : <<g, i>> \in inv <=> g = SeedOwner[i]
    BY DEF AuctionInit
  <2> QED
    BY <1>1, <2>1, <2>2 DEF Owned, Won, OwnersOf
<1>4. ASSUME NEW t \in Procs
      PROVE  Claim(tx[t], auctions, bids, inv, now) /\ tx[t].pc \notin LockedPC
  <2> DEFINE r == tx[t]
  <2>1. r.pc \in {"idle", "insert", "settleLock"}
    BY <1>1
  <2> HIDE DEF r
  <2>2. Claim(r, auctions, bids, inv, now) /\ r.pc \notin LockedPC
    BY <2>1, NothingToClaim
  <2> QED
    BY <2>2 DEF r
<1> QED
  BY <1>2, <1>3, <1>4 DEF BiddingInv, Sound, Exclusive

-----------------------------------------------------------------------------
(* The theorems.                                                           *)

(***************************************************************************)
(* Steps other than a COMMIT write no row.                                 *)
(***************************************************************************)
LEMMA WhoCommits ==
    ASSUME [AuctionNext]_vars
    PROVE  \/ UNCHANGED <<auctions, bids>>
           \/ \E t \in Procs : \/ InsertAuction(t) \/ CommitBid(t)
                               \/ CommitCancel(t) \/ CommitSettlement(t)
<1>1. ASSUME NEW t \in Handlers, Begin(t) \/ HandlerStep(t) \/ Fault(t)
      PROVE  \/ UNCHANGED <<auctions, bids>>
             \/ InsertAuction(t) \/ CommitBid(t) \/ CommitCancel(t)
  <2>1. CASE Begin(t)
    BY <2>1 DEF Begin, CreateRequest, BidRequest, CancelRequest, BeginCreate, BeginBid,
                BeginCancel, auctionVars
  <2>2. CASE \/ LockForBid(t) \/ ReserveForBid(t) \/ LockForCancel(t) \/ ReleaseForCancel(t)
             \/ Refuse(t) \/ Fault(t)
    BY <2>2, SMTT(40) DEF LockForBid, ReserveForBid, LockForCancel, ReleaseForCancel, Refuse, Fault,
                Abort, auctionVars
  <2> QED
    BY <1>1, <2>1, <2>2 DEF HandlerStep
<1>2. ASSUME NEW s \in Settlers, Tick(s) \/ SettlerStep(s) \/ Fault(s)
      PROVE  UNCHANGED <<auctions, bids>> \/ CommitSettlement(s)
  BY <1>2 DEF SettlerStep, Tick, LockForSettlement, SettleWinner, CreditOwner, Transfer,
              ReleaseLoser, Refuse, Fault, Abort, auctionVars
<1>3. Crash \/ Time \/ Quiescent \/ UNCHANGED vars => UNCHANGED <<auctions, bids>>
  BY DEF Crash, Time, Quiescent, auctionVars, vars
<1> QED
  BY <1>1, <1>2, <1>3 DEF AuctionNext, Procs

(***************************************************************************)
(* Every step keeps BiddingInv.                                            *)
(***************************************************************************)
LEMMA StepKeeps ==
    ASSUME AuctionInv, AuctionInv', BiddingInv, [AuctionNext]_vars
    PROVE  BiddingInv'
<1> USE AuctionAssumption
<1>1. ASSUME NEW t \in Handlers, Begin(t) \/ HandlerStep(t) \/ Fault(t)
      PROVE  BiddingInv'
  <2>1. t \in Procs
    BY DEF Procs
  <2>2. CASE Begin(t)
    BY <2>1, <2>2, BeginKeeps
  <2>3. CASE InsertAuction(t)
    BY <2>1, <2>3, InsertKeeps
  <2>4. CASE LockForBid(t)
    BY <2>1, <2>4, LockForBidKeeps
  <2>5. CASE ReserveForBid(t) \/ ReleaseForCancel(t)
    BY <2>1, <2>5, PouchStepKeeps
  <2>6. CASE CommitBid(t)
    BY <2>1, <2>6, CommitBidKeeps
  <2>7. CASE LockForCancel(t)
    BY <2>1, <2>7, LockForCancelKeeps
  <2>8. CASE CommitCancel(t)
    BY <2>1, <2>8, CommitCancelKeeps
  <2>9. CASE Refuse(t) \/ Fault(t)
    BY <2>1, <2>9, AbortKeeps DEF Refuse, Fault
  <2> QED
    BY <1>1, <2>2, <2>3, <2>4, <2>5, <2>6, <2>7, <2>8, <2>9 DEF HandlerStep
<1>2. ASSUME NEW s \in Settlers, Tick(s) \/ SettlerStep(s) \/ Fault(s)
      PROVE  BiddingInv'
  <2>1. s \in Procs
    BY DEF Procs
  <2>2. CASE Tick(s)
    BY <2>1, <2>2, BeginKeeps
  <2>3. CASE LockForSettlement(s)
    BY <2>1, <2>3, LockForSettlementKeeps
  <2>4. CASE SettleWinner(s) \/ CreditOwner(s)
    BY <2>1, <2>4, PouchStepKeeps
  <2>5. CASE Transfer(s) \/ ReleaseLoser(s)
    BY <2>1, <2>5, LoopKeeps
  <2>6. CASE CommitSettlement(s)
    BY <2>1, <2>6, CommitSettlementKeeps
  <2>7. CASE Refuse(s) \/ Fault(s)
    BY <2>1, <2>7, AbortKeeps DEF Refuse, Fault
  <2> QED
    BY <1>2, <2>2, <2>3, <2>4, <2>5, <2>6, <2>7 DEF SettlerStep
<1>3. CASE Crash \/ Time \/ UNCHANGED vars
  BY <1>3, OthersKeep
<1> QED
  BY <1>1, <1>2, <1>3 DEF AuctionNext, Quiescent

(***************************************************************************)
(* BiddingInv is inductive relative to AuctionInv.                         *)
(***************************************************************************)
THEOREM BiddingInvariant == AuctionSpec => []BiddingInv
<1>1. AuctionInit => BiddingInv
  BY AuctionAssumption, InitBidding
<1>2. AuctionInv /\ AuctionInv' /\ BiddingInv /\ [AuctionNext]_vars => BiddingInv'
  BY StepKeeps
<1> QED
  BY <1>1, <1>2, AuctionInvariant, PTL DEF AuctionSpec

(***************************************************************************)
(* A later bid on an auction tops an earlier one.                          *)
(***************************************************************************)
LEMMA LadderHolds ==
    ASSUME AuctionInv, BiddingInv
    PROVE  BidLadder
<1> SUFFICES ASSUME NEW b \in DOMAIN bids, NEW c \in DOMAIN bids,
                    b < c, bids[b].auction = bids[c].auction
             PROVE  minBidDenominator * bids[c].amount >= minBidNumerator * bids[b].amount
  BY DEF BidLadder
<1>1. bids[b].amount \in Nat /\ bids[c].amount \in Nat
  BY TablesHold, RowTypes
<1>2. minBidNumerator * bids[b].amount <= minBidDenominator * bids[c].amount
  BY DEF BiddingInv, Sound, Orderly, Rising
<1> QED
  BY <1>1, <1>2 DEF minBidNumerator, minBidDenominator

(***************************************************************************)
(* However the requests race, every accepted bid tops all bids accepted on *)
(* the auction before it by 5%, for all amounts.                           *)
(***************************************************************************)
THEOREM BidsClimb == AuctionSpec => []BidLadder
<1>1. AuctionInv /\ BiddingInv => BidLadder
  BY LadderHolds
<1> QED
  BY <1>1, AuctionInvariant, BiddingInvariant, PTL

(***************************************************************************)
(* The last bid on a closed auction is the greatest and has won.           *)
(***************************************************************************)
LEMMA VerdictHolds ==
    ASSUME AuctionInv, BiddingInv
    PROVE  FairVerdict
<1> SUFFICES ASSUME NEW a \in DOMAIN auctions,
                    auctions[a].status = "EXPIRED", NEW b \in BidsOf(a)
             PROVE  IF \A c \in BidsOf(a) : bids[c].amount <= bids[b].amount
                    THEN bids[b].status = "WON"
                    ELSE bids[b].status \in {"LOST", "CANCELLED"}
  BY DEF FairVerdict
<1>1. Tables(auctions, bids) /\ Orderly(auctions, bids) /\ BidsOf(a) = On(bids, a)
  BY TablesHold DEF BiddingInv, Sound, BidsOf, On
<1>2. PICK w \in On(bids, a) : /\ IsLast(bids, a, w) /\ bids[w].status = "WON"
                               /\ \A c \in On(bids, a) \ {w} :
                                     bids[c].status \in {"LOST", "CANCELLED"}
  BY <1>1 DEF Orderly, ClosedBids
<1>3. ASSUME NEW c \in On(bids, a)
      PROVE  /\ c \in Nat /\ bids[c].amount \in Nat /\ w \in Nat /\ bids[w].amount \in Nat
             /\ c # w => bids[c].amount < bids[w].amount
  <2>1. /\ c \in DOMAIN bids /\ w \in DOMAIN bids /\ c \in Nat /\ w \in Nat
        /\ bids[c].amount \in Nat /\ bids[w].amount \in Nat
        /\ bids[c].auction = bids[w].auction
    BY <1>1, RowTypes DEF On
  <2>2. c # w => c < w
    BY <1>2, <2>1 DEF IsLast
  <2> QED
    BY <1>1, <2>1, <2>2, LaterIsGreater
<1>4. CASE b = w
  BY <1>1, <1>2, <1>3, <1>4
<1>5. CASE b # w
  BY <1>1, <1>2, <1>3, <1>5
<1> QED
  BY <1>4, <1>5

(***************************************************************************)
(* The greatest bid ever accepted on an auction wins it, and nobody else.  *)
(***************************************************************************)
THEOREM VerdictsAreFair == AuctionSpec => []FairVerdict
<1>1. AuctionInv /\ BiddingInv => FairVerdict
  BY VerdictHolds
<1> QED
  BY <1>1, AuctionInvariant, BiddingInvariant, PTL

(***************************************************************************)
(* The greatest of a set of ids, when there is one.                        *)
(***************************************************************************)
LEMMA MaxIs ==
    ASSUME NEW S \in SUBSET Nat, NEW m \in S, \A n \in S : n <= m
    PROVE  Max(S) = m
<1>1. \A y \in S : m >= y
  OBVIOUS
<1>2. \E x \in S : \A y \in S : x >= y
  BY <1>1
<1>3. Max(S) \in S /\ \A y \in S : Max(S) >= y
  BY <1>2, Zenon DEF Max
<1>4. ASSUME NEW x \in S, \A y \in S : x >= y
      PROVE  x = m
  BY <1>4
<1> QED
  BY <1>3, <1>4, Zenon

(***************************************************************************)
(* The winner of the last auction of an item owns it.                      *)
(***************************************************************************)
LEMMA HeirOwns ==
    ASSUME AuctionInv, BiddingInv
    PROVE  Title
<1> SUFFICES ASSUME NEW i \in Items
             PROVE  {g \in Guilds : <<g, i>> \in inv} = {Heir(i)}
  BY DEF Title
<1>1. WonBids(i) = Won(auctions, bids, i) /\ Owned(auctions, bids, inv, i)
  BY DEF WonBids, Won, BiddingInv, Sound
<1>2. CASE WonBids(i) = {} /\ OwnersOf(inv, i) = {SeedOwner[i]}
  BY <1>2 DEF Heir, OwnersOf
<1>3. ASSUME NEW w \in WonBids(i), \A b \in WonBids(i) : b <= w,
             OwnersOf(inv, i) = {bids[w].guild}
      PROVE  {g \in Guilds : <<g, i>> \in inv} = {Heir(i)}
  <2>1. WonBids(i) \subseteq Nat
    BY TablesHold, RowTypes DEF WonBids
  <2>2. Max(WonBids(i)) = w
    BY <1>3, <2>1, MaxIs
  <2>3. Heir(i) = bids[w].guild
    BY <1>3, <2>2 DEF Heir
  <2> QED
    BY <1>3, <2>3 DEF OwnersOf
<1> QED
  BY <1>1, <1>2, <1>3 DEF Owned

(***************************************************************************)
(* Every item has one owner, who won its last settled auction: also when   *)
(* auctions of the same item follow each other or were created for a       *)
(* seller who no longer has it.                                            *)
(***************************************************************************)
THEOREM TitleHolds == AuctionSpec => []Title
<1>1. AuctionInv /\ BiddingInv => Title
  BY HeirOwns
<1> QED
  BY <1>1, AuctionInvariant, BiddingInvariant, PTL

(***************************************************************************)
(* A bid, a withdrawal and a settlement write the auction whose lock they  *)
(* hold, and only while it is open.                                        *)
(***************************************************************************)
LEMMA WritesOpenAuction ==
    ASSUME AuctionInv, AuctionAssumption, BiddingInv, NEW t \in Procs,
           CommitBid(t) \/ CommitCancel(t) \/ CommitSettlement(t)
    PROVE  /\ tx[t].auction \in DOMAIN auctions
           /\ auctions[tx[t].auction].status = "ACTIVE"
           /\ Elsewhere(tx[t].auction, auctions, bids, auctions', bids')
<1>1. tx[t].pc \in {"bidCommit", "cancelCommit", "expire"}
  BY DEF CommitBid, CommitCancel, CommitSettlement
<1>2. Claim(tx[t], auctions, bids, inv, now) /\ Refers(tx[t], DOMAIN auctions, DOMAIN bids)
  BY Types DEF BiddingInv
<1>3. tx[t].auction \in DOMAIN auctions /\ auctions[tx[t].auction].status = "ACTIVE"
  BY <1>1, <1>2 DEF Claim, Refers, LockedPC
<1>4. Elsewhere(tx[t].auction, auctions, bids, auctions', bids')
  BY CommitBidKeeps, CommitCancelKeeps, CommitSettlementKeeps
<1> QED
  BY <1>3, <1>4

\* What no step may do to what is settled.
Final ==
    \A a \in DOMAIN auctions :
       auctions[a].status = "EXPIRED" =>
          /\ auctions'[a] = auctions[a]
          /\ BidsOf(a)' = BidsOf(a)
          /\ \A b \in BidsOf(a) : bids'[b] = bids[b]

(***************************************************************************)
(* Only the auction that is locked is written, and it is open.             *)
(***************************************************************************)
LEMMA ClosedStaysClosed ==
    ASSUME AuctionInv, BiddingInv, [AuctionNext]_vars
    PROVE  Final
<1> SUFFICES ASSUME NEW a \in DOMAIN auctions, auctions[a].status = "EXPIRED"
             PROVE  /\ auctions'[a] = auctions[a]
                    /\ BidsOf(a)' = BidsOf(a)
                    /\ \A b \in BidsOf(a) : bids'[b] = bids[b]
  BY DEF Final
<1>1. BidsOf(a) = On(bids, a) /\ BidsOf(a)' = On(bids', a)
  BY DEF BidsOf, On
<1>2. CASE UNCHANGED <<auctions, bids>>
  BY <1>2 DEF BidsOf
<1>3. ASSUME NEW t \in Procs, InsertAuction(t)
      PROVE  auctions'[a] = auctions[a] /\ UNCHANGED bids
  <2>1. auctions \in Seq(Auction)
    BY DEF AuctionInv, TypeOK
  <2>2. PICK e : auctions' = Append(auctions, e)
    BY <1>3 DEF InsertAuction
  <2> QED
    BY <1>3, <2>1, <2>2 DEF InsertAuction
<1>4. ASSUME NEW t \in Procs, CommitBid(t) \/ CommitCancel(t) \/ CommitSettlement(t)
      PROVE  /\ auctions'[a] = auctions[a] /\ On(bids', a) = On(bids, a)
             /\ \A b \in On(bids, a) : bids'[b] = bids[b]
  <2>1. /\ auctions[tx[t].auction].status = "ACTIVE"
        /\ Elsewhere(tx[t].auction, auctions, bids, auctions', bids')
    BY <1>4, AuctionAssumption, WritesOpenAuction
  <2> QED
    BY <2>1 DEF Elsewhere
<1> QED
  BY <1>1, <1>2, <1>3, <1>4, WhoCommits

(***************************************************************************)
(* Once EXPIRED, an auction and its bids never change again.               *)
(***************************************************************************)
THEOREM SettledForGood == AuctionSpec => ExpiredIsFinal
<1>1. AuctionInv /\ BiddingInv /\ [AuctionNext]_vars => Final
  BY ClosedStaysClosed
<1> QED
  BY <1>1, AuctionInvariant, BiddingInvariant, PTL
     DEF AuctionSpec, ExpiredIsFinal, Final

\* When a step may close an auction.
Quiet ==
    \A a \in DOMAIN auctions :
       auctions[a].status = "ACTIVE" /\ auctions'[a].status = "EXPIRED" =>
          \A b \in BidsOf(a) : now > bids[b].at + bidExtensionWindow

(***************************************************************************)
(* A settlement closes an auction after its end, which every bid has left  *)
(* a whole window away.                                                    *)
(***************************************************************************)
LEMMA ClosesWhenQuiet ==
    ASSUME AuctionInv, BiddingInv, [AuctionNext]_vars
    PROVE  Quiet
<1> SUFFICES ASSUME NEW a \in DOMAIN auctions,
                    auctions[a].status = "ACTIVE", auctions'[a].status = "EXPIRED",
                    NEW b \in BidsOf(a)
             PROVE  now > bids[b].at + bidExtensionWindow
  BY DEF Quiet
<1>1. auctions \in Seq(Auction) /\ auctions'[a] # auctions[a]
  BY DEF AuctionInv, TypeOK
<1>2. ASSUME NEW t \in Procs
      PROVE  ~InsertAuction(t)
  <2>1. ASSUME NEW e, auctions' = Append(auctions, e)
        PROVE  FALSE
    BY <1>1, <2>1
  <2> QED
    BY <2>1 DEF InsertAuction
<1>3. PICK t \in Procs : CommitBid(t) \/ CommitCancel(t) \/ CommitSettlement(t)
  BY <1>1, <1>2, WhoCommits
<1>4. tx[t].auction = a
  BY <1>1, <1>3, AuctionAssumption, WritesOpenAuction DEF Elsewhere
<1>5. CommitSettlement(t)
  <2>1. ~CommitCancel(t)
    BY <1>1 DEF CommitCancel
  <2>2. CommitBid(t) => auctions'[a].status = auctions[a].status
    <3>1. auctions[a] \in Auction
      BY <1>1, Rows
    <3> QED
      BY <1>4, <3>1 DEF CommitBid, Auction
  <2> QED
    BY <1>3, <2>1, <2>2
<1>6. auctions[a].endTime < now
  <2>1. Claim(tx[t], auctions, bids, inv, now) /\ tx[t].pc = "expire"
    BY <1>5 DEF BiddingInv, CommitSettlement
  <2> QED
    BY <1>4, <2>1 DEF Claim, SettlePC
<1>7. bids[b].at + bidExtensionWindow <= auctions[a].endTime
  BY DEF BiddingInv, Sound, Orderly, BidsOf
<1>8. /\ bids[b].at \in Nat /\ bidExtensionWindow \in Nat /\ auctions[a].endTime \in Nat
      /\ now \in Nat
  BY TablesHold, RowTypes, Types, AuctionAssumption DEF BidsOf, AuctionAssumption
<1> QED
  BY <1>6, <1>7, <1>8

(***************************************************************************)
(* An auction is closed only after a whole sniping window without bids,    *)
(* for every window and every extension that is no shorter.                *)
(***************************************************************************)
THEOREM QuietFirst == AuctionSpec => QuietBeforeClose
<1>1. AuctionInv /\ BiddingInv /\ [AuctionNext]_vars => Quiet
  BY ClosesWhenQuiet
<1> QED
  BY <1>1, AuctionInvariant, BiddingInvariant, PTL
     DEF AuctionSpec, QuietBeforeClose, Quiet
=============================================================================
