--------------------------- MODULE AuctionProofs ---------------------------
(***************************************************************************)
(* Proofs about the auction house, for any number of guilds, items,        *)
(* requests, settlers, auctions and bids and any amounts: every row has    *)
(* its type, no pouch is overdrawn, the log explains every balance, and    *)
(* the daily limit meters what is spent.                                   *)
(***************************************************************************)
EXTENDS AuctionProperties, PouchProofs, WellFoundedInduction

Procs == Handlers \cup Settlers

(***************************************************************************)
(* What the ids in a transaction record refer to, A and B being the ids of *)
(* the auctions and of the bids.  Rows are never deleted, so a reference   *)
(* stays valid when others commit.                                         *)
(***************************************************************************)
Refers(r, A, B) ==
    /\ r.queue \subseteq A
    /\ r.losers \subseteq B
    /\ r.pc = "insert" => r.guild \in Guilds /\ r.item \in Items
    /\ r.pc \in {"bidLock", "bidReserve", "bidCommit"} => r.guild \in Guilds
    /\ r.pc \notin {"idle", "insert"} => r.auction \in A
    /\ r.pc \in {"cancelLock", "cancelRelease", "cancelCommit", "settleWinner",
                 "creditOwner", "transfer", "releaseLosers"} => r.bid \in B
    /\ r.pc = "settleLock" => r.bid = 0
    /\ r.pc = "expire" => r.bid \in B \cup {0}
    /\ r.pc = "releaseLosers" => r.losers # {}

References ==
    /\ \A b \in DOMAIN bids : bids[b].auction \in DOMAIN auctions
    /\ \A t \in Procs : Refers(tx[t], DOMAIN auctions, DOMAIN bids)

AuctionInv == PouchInv /\ TypeOK /\ References

-----------------------------------------------------------------------------
(* Facts about the operators.                                              *)

(***************************************************************************)
(* The least element of a set of ids, by which the Settler walks through   *)
(* its sweep and through the losing bids, is one of them.                  *)
(***************************************************************************)
LEMMA MinIsMember ==
    ASSUME NEW S \in SUBSET Nat, S # {}
    PROVE  /\ Min(S) \in S
           /\ \A n \in S : Min(S) <= n
<1>1. PICK m \in S : \A n \in S : <<n, m>> \notin OpToRel(<, Nat)
  BY WFMin, NatLessThanWellFounded
<1>2. ASSUME NEW n \in S
      PROVE  m <= n
  <2> DEFINE R == {ss \in Nat \X Nat : ss[1] < ss[2]}
  <2>1. OpToRel(<, Nat) = R
    BY DEF OpToRel
  <2>2. <<n, m>> \notin R
    BY <1>1, <2>1
  <2>3. n \in Nat /\ m \in Nat
    OBVIOUS
  <2>4. ~(n < m)
    BY <2>2, <2>3
  <2> QED
    BY <2>3, <2>4
<1>3. \E x \in S : \A y \in S : x <= y
  BY <1>2
<1> QED
  BY <1>3, Zenon DEF Min

(***************************************************************************)
(* The rows of a table, by id.                                             *)
(***************************************************************************)
LEMMA Rows ==
    ASSUME NEW S, NEW s \in Seq(S)
    PROVE  /\ DOMAIN s = 1 .. Len(s) /\ Len(s) \in Nat
           /\ DOMAIN s \subseteq Nat \ {0}
           /\ \A i \in DOMAIN s : s[i] \in S
  OBVIOUS

(***************************************************************************)
(* INSERT appends a row and leaves the others as they are.                 *)
(***************************************************************************)
LEMMA InsertRow ==
    ASSUME NEW S, NEW s \in Seq(S), NEW e \in S
    PROVE  /\ Append(s, e) \in Seq(S)
           /\ DOMAIN Append(s, e) = DOMAIN s \cup {Len(s) + 1}
           /\ Append(s, e)[Len(s) + 1] = e
           /\ \A i \in DOMAIN s : Append(s, e)[i] = s[i] /\ i < Len(s) + 1
  OBVIOUS

(***************************************************************************)
(* UPDATE changes rows in place.                                           *)
(***************************************************************************)
LEMMA UpdateRows ==
    ASSUME NEW S, NEW s \in Seq(S), NEW f, DOMAIN f = DOMAIN s,
           f = [i \in DOMAIN s |-> f[i]],
           \A i \in DOMAIN s : f[i] \in S
    PROVE  f \in Seq(S)
<1>1. DOMAIN s = 1 .. Len(s) /\ Len(s) \in Nat
  OBVIOUS
<1>2. f \in [1 .. Len(s) -> S]
  BY <1>1
<1> QED
  BY <1>1, <1>2

(***************************************************************************)
(* A transaction record is a record, and so is one with a step, bid, ...   *)
(* replaced.                                                               *)
(***************************************************************************)
LEMMA TxUpdate ==
    ASSUME NEW r \in Tx, NEW pc \in PC, NEW g \in Guilds \cup {None},
           NEW i \in Items \cup {None}, NEW a \in Nat, NEW b \in Nat, NEW n \in Nat,
           NEW S \in SUBSET Nat
    PROVE  /\ [r EXCEPT !.pc = pc] \in Tx
           /\ [r EXCEPT !.pc = pc, !.at = n] \in Tx
           /\ [r EXCEPT !.pc = pc, !.bid = b] \in Tx
           /\ [r EXCEPT !.pc = pc, !.losers = S] \in Tx
           /\ [r EXCEPT !.pc = pc, !.guild = g, !.item = i, !.duration = b, !.at = n] \in Tx
           /\ [r EXCEPT !.pc = pc, !.guild = g, !.auction = a, !.amount = n] \in Tx
           /\ [r EXCEPT !.pc = pc, !.guild = g, !.item = i, !.auction = a, !.bid = b] \in Tx
           /\ [r EXCEPT !.pc = pc, !.auction = a, !.queue = S] \in Tx
  BY DEF Tx

(***************************************************************************)
(* A transaction that does not run has a record of its type.               *)
(***************************************************************************)
LEMMA IdleIsTx == Idle \in Tx
<1>1. "idle" \in PC /\ 0 \in Nat /\ {} \in SUBSET Nat
  BY DEF PC
<1> QED
  BY <1>1 DEF Idle, Tx

-----------------------------------------------------------------------------
(* The common parts of the steps.                                          *)

(***************************************************************************)
(* A step of one transaction that keeps the pouches in order, only adds or *)
(* updates rows, and leaves a record behind whose references are good.     *)
(***************************************************************************)
LEMMA StepFrame ==
    ASSUME AuctionInv, PouchInv', NEW t \in Procs, NEW r \in Tx,
           tx' = [tx EXCEPT ![t] = r],
           Refers(r, DOMAIN auctions', DOMAIN bids'),
           auctions' \in Seq(Auction), DOMAIN auctions \subseteq DOMAIN auctions',
           bids' \in Seq(Bid), DOMAIN bids \subseteq DOMAIN bids',
           \A b \in DOMAIN bids' : bids'[b].auction \in DOMAIN auctions',
           inv' \subseteq Guilds \X Items, faults' \in Nat
    PROVE  AuctionInv'
<1>1. TypeOK'
  BY DEF AuctionInv, PouchInv, TypeOK, Procs
<1>2. ASSUME NEW u \in Procs
      PROVE  Refers(tx'[u], DOMAIN auctions', DOMAIN bids')
  <2>1. CASE u = t
    BY <2>1 DEF AuctionInv, TypeOK, Procs
  <2>2. CASE u # t
    <3>1. tx'[u] = tx[u] /\ Refers(tx[u], DOMAIN auctions, DOMAIN bids)
      BY <2>2 DEF AuctionInv, TypeOK, References, Procs
    <3> QED
      BY <3>1 DEF Refers
  <2> QED
    BY <2>1, <2>2
<1> QED
  BY <1>1, <1>2 DEF AuctionInv, References

(***************************************************************************)
(* A step that touches nothing but the record of one transaction.          *)
(***************************************************************************)
LEMMA ReadFrame ==
    ASSUME AuctionInv, NEW t \in Procs, NEW r \in Tx, tx' = [tx EXCEPT ![t] = r],
           Refers(r, DOMAIN auctions, DOMAIN bids),
           UNCHANGED <<pouchVars, clockVars, auctionVars, faults>>
    PROVE  AuctionInv'
<1>1. PouchInv'
  BY DEF AuctionInv, PouchInv, PouchTypeOK, RowsSolvent, BooksBalance, pouchVars, clockVars
<1> QED
  BY <1>1, StepFrame DEF AuctionInv, TypeOK, References, auctionVars

(***************************************************************************)
(* A step that also rewrites a pouch.                                      *)
(***************************************************************************)
LEMMA PouchFrame ==
    ASSUME AuctionInv, PouchInv', NEW t \in Procs, NEW r \in Tx, tx' = [tx EXCEPT ![t] = r],
           Refers(r, DOMAIN auctions, DOMAIN bids),
           UNCHANGED <<auctionVars, faults>>
    PROVE  AuctionInv'
  BY StepFrame DEF AuctionInv, TypeOK, References, auctionVars

(***************************************************************************)
(* A transaction that returns refers to nothing, or to the next auction of *)
(* its sweep.                                                              *)
(***************************************************************************)
LEMMA ReturnRecord ==
    ASSUME AuctionInv, NEW t \in Procs, Return(t)
    PROVE  \E r \in Tx : /\ tx' = [tx EXCEPT ![t] = r]
                         /\ Refers(r, DOMAIN auctions, DOMAIN bids)
                         /\ r.pc \in {"idle", "settleLock"}
<1> DEFINE rest == tx[t].queue \ {tx[t].auction}
           next == [Idle EXCEPT !.pc = "settleLock", !.auction = Min(rest), !.queue = rest]
<1>1. rest \subseteq DOMAIN auctions /\ DOMAIN auctions \subseteq Nat
  <2>1. auctions \in Seq(Auction)
    BY DEF AuctionInv, TypeOK
  <2> QED
    BY <2>1, Rows DEF AuctionInv, References, Refers
<1>2. CASE rest = {}
  <2>1. tx' = [tx EXCEPT ![t] = Idle]
    BY <1>2 DEF Return
  <2>2. Refers(Idle, DOMAIN auctions, DOMAIN bids) /\ Idle.pc = "idle"
    BY DEF Refers, Idle
  <2> QED
    BY <2>1, <2>2, IdleIsTx
<1>3. CASE rest # {}
  <2>1. Min(rest) \in rest /\ rest \in SUBSET Nat
    BY <1>1, <1>3, MinIsMember
  <2>2. Min(rest) \in Nat /\ "settleLock" \in PC /\ None \in Guilds \cup {None}
    BY <2>1 DEF PC
  <2>3. tx' = [tx EXCEPT ![t] = next]
    BY <1>3, Zenon DEF Return
  <2> HIDE DEF rest
  <2>4. next \in Tx
    BY <2>1, <2>2, IdleIsTx, TxUpdate, ZenonT(60)
  <2>5. /\ next.pc = "settleLock" /\ next.auction = Min(rest) /\ next.queue = rest
        /\ next.losers = {} /\ next.bid = 0
    BY DEF Idle
  <2>6. Refers(next, DOMAIN auctions, DOMAIN bids)
    BY <1>1, <2>1, <2>5 DEF Refers
  <2> QED
    BY <2>3, <2>4, <2>5, <2>6
<1> QED
  BY <1>2, <1>3

(***************************************************************************)
(* Rolling back.                                                           *)
(***************************************************************************)
LEMMA AbortPreserves ==
    ASSUME AuctionInv, PouchTableAssumption, AuctionAssumption, NEW t \in Procs, Abort(t),
           UNCHANGED clockVars, faults' \in Nat
    PROVE  AuctionInv'
<1>1. t \in Txs
  BY DEF Procs, AuctionAssumption
<1>2. PouchInv'
  BY <1>1, RollbackPreserves DEF Abort, AuctionInv
<1>3. PICK r \in Tx : /\ tx' = [tx EXCEPT ![t] = r]
                      /\ Refers(r, DOMAIN auctions, DOMAIN bids)
  BY ReturnRecord DEF Abort
<1> QED
  BY <1>2, <1>3, StepFrame DEF Abort, AuctionInv, TypeOK, References, auctionVars

-----------------------------------------------------------------------------
(* The steps.                                                              *)

\* What every step may use.
LEMMA Types ==
    ASSUME AuctionInv, AuctionAssumption
    PROVE  /\ auctions \in Seq(Auction) /\ bids \in Seq(Bid) /\ faults \in Nat /\ now \in Nat
           /\ \A t \in Procs : tx[t] \in Tx /\ t \in Txs
                                /\ Refers(tx[t], DOMAIN auctions, DOMAIN bids)
           /\ \A a \in DOMAIN auctions : auctions[a] \in Auction /\ a \in Nat \ {0}
           /\ \A b \in DOMAIN bids : /\ bids[b] \in Bid /\ b \in Nat \ {0}
                                     /\ bids[b].auction \in DOMAIN auctions
<1>1. auctions \in Seq(Auction) /\ bids \in Seq(Bid)
  BY DEF AuctionInv, TypeOK
<1>2. /\ DOMAIN auctions \subseteq Nat \ {0} /\ DOMAIN bids \subseteq Nat \ {0}
      /\ \A a \in DOMAIN auctions : auctions[a] \in Auction
      /\ \A b \in DOMAIN bids : bids[b] \in Bid
  BY <1>1, Rows
<1> QED
  BY <1>1, <1>2 DEF AuctionInv, TypeOK, PouchTypeOK, References, Procs, AuctionAssumption

(***************************************************************************)
(* The first steps of the requests and of a sweep.                         *)
(***************************************************************************)
LEMMA BeginPreserves ==
    ASSUME AuctionInv, AuctionAssumption, NEW t \in Procs, Begin(t)
    PROVE  AuctionInv'
<1>1. ASSUME NEW g \in Guilds, NEW i \in Items, NEW d \in Durations, BeginCreate(t, g, i, d)
      PROVE  AuctionInv'
  <2> DEFINE r == [Idle EXCEPT !.pc = "insert", !.guild = g, !.item = i, !.duration = d,
                               !.at = now]
  <2>0. d \in Nat
    BY DEF AuctionAssumption
  <2>1. r \in Tx
    BY <2>0, Types, IdleIsTx, TxUpdate, ZenonT(60) DEF PC
  <2>2. r.pc = "insert" /\ r.guild = g /\ r.item = i /\ r.queue = {} /\ r.losers = {}
    BY DEF Idle
  <2>3. tx' = [tx EXCEPT ![t] = r] /\ UNCHANGED <<pouchVars, clockVars, auctionVars, faults>>
    BY <1>1 DEF BeginCreate
  <2> HIDE DEF r
  <2>4. Refers(r, DOMAIN auctions, DOMAIN bids)
    BY <2>2 DEF Refers
  <2> QED
    BY <2>1, <2>3, <2>4, ReadFrame, Zenon
<1>2. ASSUME NEW g \in Guilds, NEW i \in Items, NEW amount \in Amounts,
             BeginBid(t, g, i, amount)
      PROVE  AuctionInv'
  <2>1. PICK a \in ActiveAuctions(i) :
           /\ tx' = [tx EXCEPT ![t] = [Idle EXCEPT !.pc = "bidLock", !.guild = g,
                                                   !.auction = a, !.amount = amount]]
           /\ UNCHANGED <<pouchVars, clockVars, auctionVars, faults>>
    BY <1>2 DEF BeginBid
  <2> DEFINE r == [Idle EXCEPT !.pc = "bidLock", !.guild = g, !.auction = a, !.amount = amount]
  <2>2. a \in DOMAIN auctions /\ a \in Nat /\ amount \in Nat
    BY Types DEF ActiveAuctions, AuctionAssumption
  <2>3. r \in Tx
    BY <2>2, IdleIsTx, TxUpdate, ZenonT(60) DEF PC
  <2>4. r.pc = "bidLock" /\ r.guild = g /\ r.auction = a /\ r.queue = {} /\ r.losers = {}
    BY DEF Idle
  <2> HIDE DEF r
  <2>5. Refers(r, DOMAIN auctions, DOMAIN bids)
    BY <2>2, <2>4 DEF Refers
  <2> QED
    BY <2>1, <2>3, <2>5, ReadFrame DEF r
<1>3. ASSUME NEW g \in Guilds, NEW i \in Items, NEW b \in DOMAIN bids, BeginCancel(t, g, i, b)
      PROVE  AuctionInv'
  <2> DEFINE a == bids[b].auction
             r == [Idle EXCEPT !.pc = "cancelLock", !.guild = g, !.item = i,
                               !.auction = a, !.bid = b]
  <2>1. a \in DOMAIN auctions /\ a \in Nat /\ b \in Nat
    BY Types
  <2>2. r \in Tx
    BY <2>1, IdleIsTx, TxUpdate, ZenonT(60) DEF PC
  <2>3. r.pc = "cancelLock" /\ r.auction = a /\ r.bid = b /\ r.queue = {} /\ r.losers = {}
    BY DEF Idle
  <2>4. tx' = [tx EXCEPT ![t] = r] /\ UNCHANGED <<pouchVars, clockVars, auctionVars, faults>>
    BY <1>3 DEF BeginCancel
  <2> HIDE DEF r
  <2>5. Refers(r, DOMAIN auctions, DOMAIN bids)
    BY <2>1, <2>3 DEF Refers
  <2> QED
    BY <2>2, <2>4, <2>5, ReadFrame
<1> QED
  BY <1>1, <1>2, <1>3 DEF Begin, CreateRequest, BidRequest, CancelRequest

(***************************************************************************)
(* The sweep's list names auctions that exist; settling starts from there. *)
(***************************************************************************)
LEMMA TickPreserves ==
    ASSUME AuctionInv, AuctionAssumption, NEW s \in Procs, Tick(s)
    PROVE  AuctionInv'
<1> DEFINE due == {a \in DOMAIN auctions :
                     auctions[a].status = "ACTIVE" /\ auctions[a].endTime <= now}
           r == [Idle EXCEPT !.pc = "settleLock", !.auction = Min(due), !.queue = due]
<1>1. due \in SUBSET Nat /\ due # {} /\ due \subseteq DOMAIN auctions
  BY Types DEF Tick
<1>2. tx' = [tx EXCEPT ![s] = r] /\ UNCHANGED <<pouchVars, clockVars, auctionVars, faults>>
  BY DEF Tick
<1> HIDE DEF due
<1>3. Min(due) \in due /\ Min(due) \in Nat
  BY <1>1, MinIsMember
<1>4. r \in Tx
  BY <1>1, <1>3, IdleIsTx, TxUpdate, ZenonT(60) DEF PC
<1>5. /\ r.pc = "settleLock" /\ r.auction = Min(due) /\ r.queue = due /\ r.losers = {}
      /\ r.bid = 0
  BY DEF Idle
<1> HIDE DEF r
<1>6. Refers(r, DOMAIN auctions, DOMAIN bids)
  BY <1>1, <1>3, <1>5 DEF Refers
<1> QED
  BY <1>2, <1>4, <1>6, ReadFrame

(***************************************************************************)
(* A duration is an integer, whether it wraps or not.                      *)
(***************************************************************************)
LEMMA DurationIsInt ==
    ASSUME AuctionAssumption, NEW d \in Nat
    PROVE  DurationOf(d) \in Int
<1> DEFINE x == d * second + MaxDuration + 1
           w == 2 * MaxDuration + 2
<1>1. x \in Int /\ w \in Nat /\ w > 0 /\ MaxDuration + 1 \in Int
  BY DEF AuctionAssumption
<1> HIDE DEF x, w
<1>2. x % w \in Int
  BY <1>1
<1>3. DurationOf(d) = (x % w) - (MaxDuration + 1)
  BY DEF DurationOf, x, w
<1> QED
  BY <1>1, <1>2, <1>3

(***************************************************************************)
(* The steps of CreateAuction and PlaceBid.                                *)
(***************************************************************************)
LEMMA InsertAuctionPreserves ==
    ASSUME AuctionInv, AuctionAssumption, NEW t \in Procs, InsertAuction(t)
    PROVE  AuctionInv'
<1> DEFINE d == DurationOf(tx[t].duration)
<1>1. PICK p \in BasePrices, start \in tx[t].at .. now :
         auctions' = Append(auctions, [item |-> tx[t].item, owner |-> tx[t].guild,
                                       status |-> "ACTIVE", basePrice |-> p,
                                       endTime |-> start + d])
  BY DEF InsertAuction
<1> DEFINE e == [item |-> tx[t].item, owner |-> tx[t].guild, status |-> "ACTIVE",
                 basePrice |-> p, endTime |-> start + d]
<1>2. tx[t].item \in Items /\ tx[t].guild \in Guilds
  BY Types DEF InsertAuction, Refers
<1>3. start + d \in Nat /\ p \in Nat
  <2>1. tx[t].at \in Nat /\ tx[t].duration \in Nat /\ p \in Nat
    BY Types DEF Tx, AuctionAssumption
  <2>2. d \in Int /\ d > 0
    BY <2>1, DurationIsInt DEF InsertAuction, RowAdmitted
  <2> HIDE DEF d
  <2> QED
    BY <2>1, <2>2
<1>4. e \in Auction
  BY <1>2, <1>3 DEF Auction, AuctionStatus
<1> HIDE DEF e
<1>5. auctions' \in Seq(Auction) /\ DOMAIN auctions \subseteq DOMAIN auctions'
  BY <1>1, <1>4, Types, InsertRow DEF e
<1>6. PICK r \in Tx : /\ tx' = [tx EXCEPT ![t] = r]
                      /\ Refers(r, DOMAIN auctions, DOMAIN bids)
  BY ReturnRecord DEF InsertAuction
<1>7. Refers(r, DOMAIN auctions', DOMAIN bids')
  BY <1>5, <1>6 DEF Refers, InsertAuction
<1>8. PouchInv'
  BY DEF AuctionInv, PouchInv, PouchTypeOK, RowsSolvent, BooksBalance, pouchVars, clockVars,
         InsertAuction
<1> QED
  BY <1>5, <1>6, <1>7, <1>8, Types, StepFrame
     DEF InsertAuction, AuctionInv, TypeOK, References

(***************************************************************************)
(* The bid goes on under the lock with the time it has read.               *)
(***************************************************************************)
LEMMA LockForBidPreserves ==
    ASSUME AuctionInv, AuctionAssumption, NEW t \in Procs, LockForBid(t)
    PROVE  AuctionInv'
<1> DEFINE r == [tx[t] EXCEPT !.pc = "bidReserve", !.at = now]
<1>1. tx[t] \in Tx /\ now \in Nat /\ Refers(tx[t], DOMAIN auctions, DOMAIN bids)
  BY Types
<1>2. r \in Tx
  BY <1>1 DEF PC, LockedPC, Tx
<1>3. /\ r.pc = "bidReserve" /\ r.guild = tx[t].guild /\ r.auction = tx[t].auction
      /\ r.queue = tx[t].queue /\ r.losers = tx[t].losers
  BY <1>1 DEF Tx
<1>4. tx[t].pc = "bidLock" /\ UNCHANGED <<pouchVars, clockVars, auctionVars, faults>>
  BY Zenon DEF LockForBid
<1>5. tx' = [tx EXCEPT ![t] = r]
  BY Zenon DEF LockForBid
<1> HIDE DEF r
<1>6. Refers(r, DOMAIN auctions, DOMAIN bids)
  BY <1>1, <1>3, <1>4 DEF Refers
<1> QED
  BY <1>2, <1>4, <1>5, <1>6, ReadFrame

(***************************************************************************)
(* The reservation writes the bidder's pouch row and nothing else.         *)
(***************************************************************************)
LEMMA ReserveForBidPreserves ==
    ASSUME AuctionInv, PouchTableAssumption, AuctionAssumption, NEW t \in Procs,
           ReserveForBid(t)
    PROVE  AuctionInv'
<1>1. /\ tx[t] \in Tx /\ t \in Txs /\ Refers(tx[t], DOMAIN auctions, DOMAIN bids)
      /\ tx[t].amount \in Nat
  BY Types DEF Tx
<1>2. tx[t].pc = "bidReserve" /\ tx[t].guild \in Guilds
  BY <1>1 DEF ReserveForBid, Refers
<1>3. PouchInv'
  BY <1>1, <1>2, ReservePreserves DEF ReserveForBid, AuctionInv
<1> DEFINE r == [tx[t] EXCEPT !.pc = "bidCommit"]
<1>4. r \in Tx
  BY <1>1 DEF PC, LockedPC, Tx
<1>5. /\ r.pc = "bidCommit" /\ r.guild = tx[t].guild /\ r.auction = tx[t].auction
      /\ r.queue = tx[t].queue /\ r.losers = tx[t].losers
  BY <1>1 DEF Tx
<1>6. tx' = [tx EXCEPT ![t] = r]
  BY Zenon DEF ReserveForBid, Goto
<1> HIDE DEF r
<1>7. Refers(r, DOMAIN auctions, DOMAIN bids)
  BY <1>1, <1>2, <1>5 DEF Refers
<1> QED
  BY <1>3, <1>4, <1>6, <1>7, PouchFrame DEF ReserveForBid

(***************************************************************************)
(* The new bid refers to the auction and the guild of its transaction.     *)
(***************************************************************************)
LEMMA CommitBidPreserves ==
    ASSUME AuctionInv, PouchTableAssumption, AuctionAssumption, NEW t \in Procs, CommitBid(t)
    PROVE  AuctionInv'
<1> DEFINE a == tx[t].auction
           e == [auction |-> a, guild |-> tx[t].guild, amount |-> tx[t].amount,
                 status |-> "ACTIVE", at |-> tx[t].at]
           x == [auctions[a] EXCEPT !.endTime = ExtendedEnd(@, tx[t].at)]
<1>1. /\ tx[t] \in Tx /\ t \in Txs /\ Refers(tx[t], DOMAIN auctions, DOMAIN bids)
      /\ tx[t].amount \in Nat /\ tx[t].at \in Nat
      /\ auctions \in Seq(Auction) /\ bids \in Seq(Bid)
  BY Types DEF Tx
<1>2. tx[t].guild \in Guilds /\ a \in DOMAIN auctions /\ a \in Nat /\ auctions[a] \in Auction
  BY <1>1, Types DEF CommitBid, Refers
<1>3. PouchInv'
  BY <1>1, CommitPreserves DEF CommitBid, AuctionInv
<1>4. e \in Bid
  BY <1>1, <1>2 DEF Bid, BidStatus
<1>5. x \in Auction
  <2>1. auctions[a].endTime \in Nat
    BY <1>2 DEF Auction
  <2>2. ExtendedEnd(auctions[a].endTime, tx[t].at) \in Nat
    BY <2>1 DEF ExtendedEnd, AuctionAssumption
  <2> QED
    BY <1>2, <2>2 DEF Auction
<1>6. auctions' = [auctions EXCEPT ![a] = x] /\ bids' = Append(bids, e)
  BY DEF CommitBid
<1> HIDE DEF a, e, x
<1>7. auctions' \in Seq(Auction) /\ DOMAIN auctions' = DOMAIN auctions
  BY <1>1, <1>2, <1>5, <1>6, SMTT(30)
<1>8. /\ bids' \in Seq(Bid) /\ DOMAIN bids \subseteq DOMAIN bids'
      /\ \A b \in DOMAIN bids' : bids'[b].auction \in DOMAIN auctions'
  <2>1. e.auction = a
    BY DEF e
  <2>2. /\ bids' \in Seq(Bid) /\ DOMAIN bids' = DOMAIN bids \cup {Len(bids) + 1}
        /\ bids'[Len(bids) + 1] = e
        /\ \A b \in DOMAIN bids : bids'[b] = bids[b]
    BY <1>1, <1>4, <1>6, InsertRow
  <2>3. \A b \in DOMAIN bids : bids[b].auction \in DOMAIN auctions
    BY Types
  <2> QED
    BY <1>2, <1>7, <2>1, <2>2, <2>3
<1>9. PICK r \in Tx : tx' = [tx EXCEPT ![t] = r] /\ Refers(r, DOMAIN auctions, DOMAIN bids)
  BY ReturnRecord DEF CommitBid
<1>10. Refers(r, DOMAIN auctions', DOMAIN bids')
  BY <1>7, <1>8, <1>9 DEF Refers
<1> QED
  BY <1>3, <1>7, <1>8, <1>9, <1>10, StepFrame DEF CommitBid, AuctionInv, TypeOK

(***************************************************************************)
(* The steps of CancelBid.                                                 *)
(***************************************************************************)
LEMMA LockForCancelPreserves ==
    ASSUME AuctionInv, AuctionAssumption, NEW t \in Procs, LockForCancel(t)
    PROVE  AuctionInv'
<1> DEFINE r == [tx[t] EXCEPT !.pc = "cancelRelease"]
<1>1. tx[t] \in Tx /\ Refers(tx[t], DOMAIN auctions, DOMAIN bids)
  BY Types
<1>2. r \in Tx
  BY <1>1 DEF PC, LockedPC, Tx
<1>3. /\ r.pc = "cancelRelease" /\ r.bid = tx[t].bid /\ r.auction = tx[t].auction
      /\ r.queue = tx[t].queue /\ r.losers = tx[t].losers
  BY <1>1 DEF Tx
<1>4. /\ tx[t].pc = "cancelLock" /\ tx' = [tx EXCEPT ![t] = r]
      /\ UNCHANGED <<pouchVars, clockVars, auctionVars, faults>>
  BY Zenon DEF LockForCancel, Goto
<1> HIDE DEF r
<1>5. Refers(r, DOMAIN auctions, DOMAIN bids)
  BY <1>1, <1>3, <1>4 DEF Refers
<1> QED
  BY <1>2, <1>4, <1>5, ReadFrame

(***************************************************************************)
(* A cancellation releases the amount of a bid that exists.                *)
(***************************************************************************)
LEMMA ReleaseForCancelPreserves ==
    ASSUME AuctionInv, PouchTableAssumption, AuctionAssumption, NEW t \in Procs,
           ReleaseForCancel(t)
    PROVE  AuctionInv'
<1>1. tx[t] \in Tx /\ t \in Txs /\ Refers(tx[t], DOMAIN auctions, DOMAIN bids)
  BY Types
<1>2. tx[t].pc = "cancelRelease" /\ tx[t].bid \in DOMAIN bids
  BY <1>1 DEF ReleaseForCancel, Refers
<1>3. bids[tx[t].bid].guild \in Guilds /\ bids[tx[t].bid].amount \in Nat
  BY <1>2, Types DEF Bid
<1>4. PouchInv'
  BY <1>1, <1>3, ReleasePreserves DEF ReleaseForCancel, AuctionInv
<1> DEFINE r == [tx[t] EXCEPT !.pc = "cancelCommit"]
<1>5. r \in Tx
  BY <1>1 DEF PC, LockedPC, Tx
<1>6. /\ r.pc = "cancelCommit" /\ r.bid = tx[t].bid /\ r.auction = tx[t].auction
      /\ r.queue = tx[t].queue /\ r.losers = tx[t].losers
  BY <1>1 DEF Tx
<1>7. tx' = [tx EXCEPT ![t] = r]
  BY Zenon DEF ReleaseForCancel, Goto
<1> HIDE DEF r
<1>8. Refers(r, DOMAIN auctions, DOMAIN bids)
  BY <1>1, <1>2, <1>6 DEF Refers
<1> QED
  BY <1>4, <1>5, <1>7, <1>8, PouchFrame DEF ReleaseForCancel

(***************************************************************************)
(* COMMIT changes the status of one bid and the pouch of its guild.        *)
(***************************************************************************)
LEMMA CommitCancelPreserves ==
    ASSUME AuctionInv, PouchTableAssumption, AuctionAssumption, NEW t \in Procs,
           CommitCancel(t)
    PROVE  AuctionInv'
<1> DEFINE k == tx[t].bid
           x == [bids[k] EXCEPT !.status = "CANCELLED"]
<1>1. t \in Txs /\ k \in DOMAIN bids /\ bids[k] \in Bid /\ bids \in Seq(Bid)
  BY Types DEF CommitCancel, Refers
<1>2. PouchInv'
  BY <1>1, CommitPreserves DEF CommitCancel, AuctionInv
<1>3. x \in Bid /\ x.auction = bids[k].auction
  BY <1>1 DEF Bid, BidStatus
<1>4. bids' = [bids EXCEPT ![k] = x]
  BY DEF CommitCancel
<1> HIDE DEF k, x
<1>5. /\ bids' \in Seq(Bid) /\ DOMAIN bids' = DOMAIN bids
      /\ \A b \in DOMAIN bids : bids'[b].auction = bids[b].auction
  BY <1>1, <1>3, <1>4
<1>6. PICK r \in Tx : tx' = [tx EXCEPT ![t] = r] /\ Refers(r, DOMAIN auctions, DOMAIN bids)
  BY ReturnRecord DEF CommitCancel
<1> QED
  BY <1>2, <1>5, <1>6, Types, StepFrame DEF CommitCancel, AuctionInv, TypeOK

(***************************************************************************)
(* The steps of the Settler.                                               *)
(***************************************************************************)
LEMMA LockForSettlementPreserves ==
    ASSUME AuctionInv, AuctionAssumption, NEW s \in Procs, LockForSettlement(s)
    PROVE  AuctionInv'
<1>1. tx[s] \in Tx /\ Refers(tx[s], DOMAIN auctions, DOMAIN bids) /\ tx[s].pc = "settleLock"
  BY Types DEF LockForSettlement
<1>2. UNCHANGED <<pouchVars, clockVars, auctionVars, faults>>
  BY DEF LockForSettlement
<1>3. CASE Goto(s, "expire")
  <2> DEFINE r == [tx[s] EXCEPT !.pc = "expire"]
  <2>1. r \in Tx
    BY <1>1 DEF PC, LockedPC, Tx
  <2>2. /\ r.pc = "expire" /\ r.bid = tx[s].bid /\ r.auction = tx[s].auction
        /\ r.queue = tx[s].queue /\ r.losers = tx[s].losers
    BY <1>1 DEF Tx
  <2>3. tx' = [tx EXCEPT ![s] = r]
    BY <1>3, Zenon DEF Goto
  <2> HIDE DEF r
  <2>4. Refers(r, DOMAIN auctions, DOMAIN bids)
    BY <1>1, <2>2 DEF Refers
  <2> QED
    BY <1>2, <2>1, <2>3, <2>4, ReadFrame
<1>4. ASSUME NEW w \in Highest(tx[s].auction),
             tx' = [tx EXCEPT ![s] = [@ EXCEPT !.pc = "settleWinner", !.bid = w]]
      PROVE  AuctionInv'
  <2> DEFINE r == [tx[s] EXCEPT !.pc = "settleWinner", !.bid = w]
  <2>1. w \in DOMAIN bids /\ w \in Nat
    BY Types DEF Highest, ActiveBidsOf, BidsOf
  <2>2. r \in Tx
    BY <1>1, <2>1 DEF PC, LockedPC, Tx
  <2>3. /\ r.pc = "settleWinner" /\ r.bid = w /\ r.auction = tx[s].auction
        /\ r.queue = tx[s].queue /\ r.losers = tx[s].losers
    BY <1>1 DEF Tx
  <2>4. tx' = [tx EXCEPT ![s] = r]
    BY <1>4, Zenon
  <2> HIDE DEF r
  <2>5. Refers(r, DOMAIN auctions, DOMAIN bids)
    BY <1>1, <2>1, <2>3 DEF Refers
  <2> QED
    BY <1>2, <2>2, <2>4, <2>5, ReadFrame
<1> QED
  BY <1>3, <1>4 DEF LockForSettlement

(***************************************************************************)
(* What a settlement works on: its auction, and the bid that wins it.      *)
(***************************************************************************)
LEMMA SettlementRows ==
    ASSUME AuctionInv, AuctionAssumption, NEW s \in Procs,
           tx[s].pc \in {"settleWinner", "creditOwner", "transfer", "releaseLosers"}
    PROVE  /\ tx[s] \in Tx /\ s \in Txs /\ Refers(tx[s], DOMAIN auctions, DOMAIN bids)
           /\ tx[s].bid \in DOMAIN bids /\ tx[s].auction \in DOMAIN auctions
           /\ bids[tx[s].bid].guild \in Guilds /\ bids[tx[s].bid].amount \in Nat
           /\ auctions[tx[s].auction].owner \in Guilds
<1>1. tx[s].bid \in DOMAIN bids /\ tx[s].auction \in DOMAIN auctions
  BY Types DEF Refers
<1>2. bids[tx[s].bid] \in Bid /\ auctions[tx[s].auction] \in Auction
  BY <1>1, Types
<1> QED
  BY <1>1, <1>2, Types DEF Bid, Auction

(***************************************************************************)
(* Going on to the next step of the settlement leaves the references of    *)
(* the transaction good.                                                   *)
(***************************************************************************)
LEMMA NextSettlementStep ==
    ASSUME AuctionInv, AuctionAssumption, NEW s \in Procs,
           tx[s].pc \in {"settleWinner", "creditOwner", "transfer", "releaseLosers"},
           NEW step \in {"creditOwner", "transfer"}, Goto(s, step)
    PROVE  \E r \in Tx : /\ tx' = [tx EXCEPT ![s] = r]
                         /\ Refers(r, DOMAIN auctions, DOMAIN bids)
<1> DEFINE r == [tx[s] EXCEPT !.pc = step]
<1>1. /\ tx[s] \in Tx /\ Refers(tx[s], DOMAIN auctions, DOMAIN bids)
      /\ tx[s].bid \in DOMAIN bids /\ tx[s].auction \in DOMAIN auctions
  BY SettlementRows
<1>2. r \in Tx
  BY <1>1 DEF PC, LockedPC, Tx
<1>3. /\ r.pc = step /\ r.bid = tx[s].bid /\ r.auction = tx[s].auction
      /\ r.queue = tx[s].queue /\ r.losers = tx[s].losers
  BY <1>1 DEF Tx
<1>4. tx' = [tx EXCEPT ![s] = r]
  BY Zenon DEF Goto
<1> HIDE DEF r
<1>5. Refers(r, DOMAIN auctions, DOMAIN bids)
  BY <1>1, <1>3 DEF Refers
<1> QED
  BY <1>2, <1>4, <1>5

(***************************************************************************)
(* The winner is charged within its limit, from what it has reserved.      *)
(***************************************************************************)
LEMMA SettleWinnerPreserves ==
    ASSUME AuctionInv, PouchTableAssumption, AuctionAssumption, NEW s \in Procs,
           SettleWinner(s)
    PROVE  AuctionInv'
<1>1. s \in Txs /\ bids[tx[s].bid].guild \in Guilds /\ bids[tx[s].bid].amount \in Nat
  BY SettlementRows DEF SettleWinner
<1>2. PouchInv'
  BY <1>1, SettlePreserves DEF SettleWinner, AuctionInv
<1>3. PICK r \in Tx : tx' = [tx EXCEPT ![s] = r] /\ Refers(r, DOMAIN auctions, DOMAIN bids)
  BY NextSettlementStep DEF SettleWinner
<1> QED
  BY <1>2, <1>3, PouchFrame DEF SettleWinner

(***************************************************************************)
(* The owner of an auction that exists is credited a positive amount.      *)
(***************************************************************************)
LEMMA CreditOwnerPreserves ==
    ASSUME AuctionInv, PouchTableAssumption, AuctionAssumption, NEW s \in Procs,
           CreditOwner(s)
    PROVE  AuctionInv'
<1>1. s \in Txs /\ auctions[tx[s].auction].owner \in Guilds /\ bids[tx[s].bid].amount \in Nat
  BY SettlementRows DEF CreditOwner
<1>2. PouchInv'
  BY <1>1, CreditPreserves DEF CreditOwner, AuctionInv
<1>3. PICK r \in Tx : tx' = [tx EXCEPT ![s] = r] /\ Refers(r, DOMAIN auctions, DOMAIN bids)
  BY NextSettlementStep DEF CreditOwner
<1> QED
  BY <1>2, <1>3, PouchFrame DEF CreditOwner

(***************************************************************************)
(* The loop over the losing bids runs over bids there are.                 *)
(***************************************************************************)
LEMMA LoopOverRecord ==
    ASSUME AuctionInv, AuctionAssumption, NEW s \in Procs,
           tx[s].pc \in {"settleWinner", "creditOwner", "transfer", "releaseLosers"},
           NEW rest \in SUBSET DOMAIN bids, LoopOver(s, rest)
    PROVE  \E r \in Tx : /\ tx' = [tx EXCEPT ![s] = r]
                         /\ Refers(r, DOMAIN auctions, DOMAIN bids)
<1> DEFINE step == IF rest = {} THEN "expire" ELSE "releaseLosers"
           r == [tx[s] EXCEPT !.pc = step, !.losers = rest]
<1>1. /\ tx[s] \in Tx /\ Refers(tx[s], DOMAIN auctions, DOMAIN bids)
      /\ tx[s].bid \in DOMAIN bids /\ tx[s].auction \in DOMAIN auctions
  BY SettlementRows
<1>2. step \in PC /\ rest \in SUBSET Nat
  BY Types DEF PC, LockedPC
<1>3. step = "releaseLosers" => rest # {}
  OBVIOUS
<1>4. step \in {"expire", "releaseLosers"}
  OBVIOUS
<1>5. tx' = [tx EXCEPT ![s] = r]
  BY Zenon DEF LoopOver
<1> HIDE DEF step
<1>6. r \in Tx
  BY <1>1, <1>2 DEF Tx
<1>7. /\ r.pc = step /\ r.bid = tx[s].bid /\ r.auction = tx[s].auction
      /\ r.queue = tx[s].queue /\ r.losers = rest
  BY <1>1 DEF Tx
<1> HIDE DEF r
<1>8. Refers(r, DOMAIN auctions, DOMAIN bids)
  BY <1>1, <1>3, <1>4, <1>7 DEF Refers
<1> QED
  BY <1>5, <1>6, <1>8

(***************************************************************************)
(* The losers are bids of the table; the pouches stay as they are.         *)
(***************************************************************************)
LEMMA TransferPreserves ==
    ASSUME AuctionInv, AuctionAssumption, NEW s \in Procs, Transfer(s)
    PROVE  AuctionInv'
<1>1. Losers(tx[s].auction, tx[s].bid) \in SUBSET DOMAIN bids
  BY DEF Losers, ActiveBidsOf, BidsOf
<1>2. PICK r \in Tx : tx' = [tx EXCEPT ![s] = r] /\ Refers(r, DOMAIN auctions, DOMAIN bids)
  BY <1>1, LoopOverRecord DEF Transfer
<1> QED
  BY <1>2, ReadFrame DEF Transfer

(***************************************************************************)
(* The loser at hand gets its reservation back, and one loser less is      *)
(* left.                                                                   *)
(***************************************************************************)
LEMMA ReleaseLoserPreserves ==
    ASSUME AuctionInv, PouchTableAssumption, AuctionAssumption, NEW s \in Procs,
           ReleaseLoser(s)
    PROVE  AuctionInv'
<1> DEFINE l == Min(tx[s].losers)
<1>1. /\ tx[s].losers \subseteq DOMAIN bids /\ tx[s].losers # {} /\ tx[s].losers \in SUBSET Nat
      /\ s \in Txs
  BY SettlementRows DEF ReleaseLoser, Refers, Tx
<1>2. l \in DOMAIN bids
  BY <1>1, MinIsMember
<1>3. bids[l].guild \in Guilds /\ bids[l].amount \in Nat
  BY <1>2, Types DEF Bid
<1>4. PouchInv'
  BY <1>1, <1>3, ReleasePreserves DEF ReleaseLoser, AuctionInv
<1>5. PICK r \in Tx : tx' = [tx EXCEPT ![s] = r] /\ Refers(r, DOMAIN auctions, DOMAIN bids)
  BY <1>1, LoopOverRecord DEF ReleaseLoser
<1> QED
  BY <1>4, <1>5, PouchFrame DEF ReleaseLoser

(***************************************************************************)
(* COMMIT writes the verdict on the bids, closes the auction, hands over   *)
(* the item and publishes the pouches.                                     *)
(***************************************************************************)
LEMMA CommitSettlementPreserves ==
    ASSUME AuctionInv, PouchTableAssumption, AuctionAssumption, NEW s \in Procs,
           CommitSettlement(s)
    PROVE  AuctionInv'
<1> DEFINE a == tx[s].auction
           w == tx[s].bid
           x == [auctions[a] EXCEPT !.status = "EXPIRED"]
<1>1. /\ s \in Txs /\ a \in DOMAIN auctions /\ auctions[a] \in Auction
      /\ w \in DOMAIN bids \cup {0}
      /\ auctions \in Seq(Auction) /\ bids \in Seq(Bid)
  BY Types DEF CommitSettlement, Refers
<1>2. PouchInv'
  BY <1>1, CommitPreserves DEF CommitSettlement, AuctionInv
<1>3. auctions' \in Seq(Auction) /\ DOMAIN auctions' = DOMAIN auctions
  <2>1. x \in Auction
    BY <1>1 DEF Auction, AuctionStatus
  <2>2. auctions' = [auctions EXCEPT ![a] = x]
    BY Zenon DEF CommitSettlement
  <2> HIDE DEF a, x
  <2> QED
    BY <1>1, <2>1, <2>2
<1>4. /\ bids' \in Seq(Bid) /\ DOMAIN bids' = DOMAIN bids
      /\ \A b \in DOMAIN bids : bids'[b].auction = bids[b].auction
  <2>1. bids' = [b \in DOMAIN bids |-> [bids[b] EXCEPT !.status = Verdict(b, a, w)]]
    BY Zenon DEF CommitSettlement
  <2>2. ASSUME NEW b \in DOMAIN bids
        PROVE  bids'[b] \in Bid /\ bids'[b].auction = bids[b].auction
    <3>1. bids[b] \in Bid
      BY Types
    <3>2. Verdict(b, a, w) \in BidStatus
      BY <3>1 DEF Verdict, Bid, BidStatus
    <3>3. bids'[b] = [bids[b] EXCEPT !.status = Verdict(b, a, w)]
      BY <2>1
    <3> QED
      BY <3>1, <3>2, <3>3 DEF Bid
  <2> HIDE DEF a, w
  <2> QED
    BY <1>1, <2>1, <2>2, UpdateRows
<1>5. inv' \subseteq Guilds \X Items
  <2>1. CASE w = 0
    BY <2>1 DEF CommitSettlement, HandOver, AuctionInv, TypeOK
  <2>2. CASE w # 0
    <3>1. bids[w].guild \in Guilds /\ auctions[a].item \in Items
      BY <1>1, <2>2, Types DEF Bid, Auction
    <3>2. inv' \subseteq inv \cup {<<bids[w].guild, auctions[a].item>>}
      BY <2>2 DEF CommitSettlement, HandOver
    <3> QED
      BY <3>1, <3>2 DEF AuctionInv, TypeOK
  <2> QED
    BY <2>1, <2>2
<1>6. PICK r \in Tx : tx' = [tx EXCEPT ![s] = r] /\ Refers(r, DOMAIN auctions, DOMAIN bids)
  BY ReturnRecord DEF CommitSettlement
<1> QED
  BY <1>2, <1>3, <1>4, <1>5, <1>6, Types, StepFrame DEF CommitSettlement

(***************************************************************************)
(* Refusals, faults and restarts.                                          *)
(***************************************************************************)
LEMMA FailurePreserves ==
    ASSUME AuctionInv, PouchTableAssumption, AuctionAssumption,
           NEW t \in Procs, Refuse(t) \/ Fault(t)
    PROVE  AuctionInv'
<1>1. faults' \in Nat
  BY Types DEF Refuse, Fault
<1>2. Abort(t) /\ UNCHANGED clockVars
  BY DEF Refuse, Fault
<1> QED
  BY <1>1, <1>2, AbortPreserves

(***************************************************************************)
(* A restart leaves no transaction behind, hence no reference.             *)
(***************************************************************************)
LEMMA CrashPreserves ==
    ASSUME AuctionInv, PouchTableAssumption, AuctionAssumption, Crash
    PROVE  AuctionInv'
<1>1. PouchInv'
  BY RollbackAllPreserves DEF Crash, AuctionInv
<1>2. Refers(Idle, DOMAIN auctions, DOMAIN bids)
  BY DEF Refers, Idle
<1>3. faults' \in Nat
  BY Types DEF Crash
<1>4. /\ tx' \in [Handlers \cup Settlers -> Tx]
      /\ \A t \in Procs : tx'[t] = Idle
  BY IdleIsTx DEF Crash, Procs
<1>5. TypeOK'
  BY <1>1, <1>3, <1>4 DEF Crash, AuctionInv, PouchInv, TypeOK, auctionVars
<1>6. References'
  BY <1>2, <1>4 DEF Crash, AuctionInv, References, auctionVars
<1> QED
  BY <1>1, <1>5, <1>6 DEF AuctionInv

(***************************************************************************)
(* The clock, and steps that change nothing.                               *)
(***************************************************************************)
LEMMA QuietStepPreserves ==
    ASSUME AuctionInv, PouchTableAssumption, Time \/ UNCHANGED vars
    PROVE  AuctionInv'
<1>1. PouchInv'
  <2>1. CASE Time
    BY <2>1, ClockPreserves DEF Time, AuctionInv
  <2>2. CASE UNCHANGED vars
    BY <2>2 DEF vars, AuctionInv, PouchInv, PouchTypeOK, RowsSolvent, BooksBalance
  <2> QED
    BY <2>1, <2>2
<1>2. UNCHANGED <<auctions, bids, inv, tx, faults>>
  BY DEF Time, auctionVars, vars
<1> QED
  BY <1>1, <1>2 DEF AuctionInv, PouchInv, TypeOK, References

(***************************************************************************)
(* The service starts from the seeded tables.                              *)
(***************************************************************************)
LEMMA InitEstablishes ==
    ASSUME PouchTableAssumption, AuctionAssumption, AuctionInit
    PROVE  AuctionInv
<1>1. PouchInv
  BY SeedEstablishes DEF AuctionInit
<1>2. tx \in [Handlers \cup Settlers -> Tx] /\ \A t \in Procs : tx[t] = Idle
  BY IdleIsTx DEF AuctionInit, Procs
<1>3. inv \subseteq Guilds \X Items
  BY DEF AuctionInit, AuctionAssumption
<1>4. auctions \in Seq(Auction) /\ bids \in Seq(Bid) /\ DOMAIN bids = {} /\ faults \in Nat
  BY DEF AuctionInit
<1>5. Refers(Idle, DOMAIN auctions, DOMAIN bids)
  BY DEF Refers, Idle
<1> QED
  BY <1>1, <1>2, <1>3, <1>4, <1>5 DEF AuctionInv, PouchInv, TypeOK, References

-----------------------------------------------------------------------------
(* The theorems.                                                           *)

(***************************************************************************)
(* Every step of every request, of every settler, of the clock, and every  *)
(* failure keep AuctionInv.                                                *)
(***************************************************************************)
LEMMA StepPreserves ==
    ASSUME AuctionInv, [AuctionNext]_vars
    PROVE  AuctionInv'
<1> USE PouchTableAssumption, AuctionAssumption
<1>1. ASSUME NEW t \in Handlers, Begin(t) \/ HandlerStep(t) \/ Fault(t)
      PROVE  AuctionInv'
  <2>1. t \in Procs
    BY DEF Procs
  <2>2. CASE Begin(t)
    BY <2>1, <2>2, BeginPreserves
  <2>3. CASE InsertAuction(t)
    BY <2>1, <2>3, InsertAuctionPreserves
  <2>4. CASE LockForBid(t)
    BY <2>1, <2>4, LockForBidPreserves
  <2>5. CASE ReserveForBid(t)
    BY <2>1, <2>5, ReserveForBidPreserves
  <2>6. CASE CommitBid(t)
    BY <2>1, <2>6, CommitBidPreserves
  <2>7. CASE LockForCancel(t)
    BY <2>1, <2>7, LockForCancelPreserves
  <2>8. CASE ReleaseForCancel(t)
    BY <2>1, <2>8, ReleaseForCancelPreserves
  <2>9. CASE CommitCancel(t)
    BY <2>1, <2>9, CommitCancelPreserves
  <2>10. CASE Refuse(t) \/ Fault(t)
    BY <2>1, <2>10, FailurePreserves
  <2> QED
    BY <1>1, <2>2, <2>3, <2>4, <2>5, <2>6, <2>7, <2>8, <2>9, <2>10 DEF HandlerStep
<1>2. ASSUME NEW s \in Settlers, Tick(s) \/ SettlerStep(s) \/ Fault(s)
      PROVE  AuctionInv'
  <2>1. s \in Procs
    BY DEF Procs
  <2>2. CASE Tick(s)
    BY <2>1, <2>2, TickPreserves
  <2>3. CASE LockForSettlement(s)
    BY <2>1, <2>3, LockForSettlementPreserves
  <2>4. CASE SettleWinner(s)
    BY <2>1, <2>4, SettleWinnerPreserves
  <2>5. CASE CreditOwner(s)
    BY <2>1, <2>5, CreditOwnerPreserves
  <2>6. CASE Transfer(s)
    BY <2>1, <2>6, TransferPreserves
  <2>7. CASE ReleaseLoser(s)
    BY <2>1, <2>7, ReleaseLoserPreserves
  <2>8. CASE CommitSettlement(s)
    BY <2>1, <2>8, CommitSettlementPreserves
  <2>9. CASE Refuse(s) \/ Fault(s)
    BY <2>1, <2>9, FailurePreserves
  <2> QED
    BY <1>2, <2>2, <2>3, <2>4, <2>5, <2>6, <2>7, <2>8, <2>9 DEF SettlerStep
<1>3. CASE Crash
  BY <1>3, CrashPreserves
<1>4. CASE Time \/ UNCHANGED vars
  BY <1>4, QuietStepPreserves
<1> QED
  BY <1>1, <1>2, <1>3, <1>4 DEF AuctionNext, Quiescent

(***************************************************************************)
(* AuctionInv is inductive.                                                *)
(***************************************************************************)
THEOREM AuctionInvariant == AuctionSpec => []AuctionInv
<1>1. AuctionInit => AuctionInv
  BY PouchTableAssumption, AuctionAssumption, InitEstablishes
<1>2. AuctionInv /\ [AuctionNext]_vars => AuctionInv'
  BY StepPreserves
<1> QED
  BY <1>1, <1>2, PTL DEF AuctionSpec

(***************************************************************************)
(* Every row and every transaction record keeps its type; in particular    *)
(* no status outside the enums is ever written.                            *)
(***************************************************************************)
THEOREM TypeCorrect == AuctionSpec => []TypeOK
<1>1. AuctionInv => TypeOK
  BY DEF AuctionInv
<1> QED
  BY <1>1, AuctionInvariant, PTL

(***************************************************************************)
(* No guild ever commits itself to more gold than it owns, nor spends more *)
(* in a day than its limit, however bids, cancellations and settlements    *)
(* interleave, fail, or die with the server.                               *)
(***************************************************************************)
THEOREM SolvencyHolds == AuctionSpec => []Solvency
<1>1. AuctionInv => Solvency
  BY PouchInvImplies DEF AuctionInv
<1> QED
  BY <1>1, AuctionInvariant, PTL

(***************************************************************************)
(* The transaction log explains every balance.                             *)
(***************************************************************************)
THEOREM ReconciledHolds == AuctionSpec => []Reconciled
<1>1. AuctionInv => Reconciled
  BY PouchInvImplies DEF AuctionInv
<1> QED
  BY <1>1, AuctionInvariant, PTL

-----------------------------------------------------------------------------
(* The daily limit: it meters what is spent, across midnight and whatever  *)
(* fails, and the wallet shows what is left of it.                         *)

\* Steps before which a transaction has not touched a pouch.
FreshPC == {"idle", "insert", "bidLock", "bidReserve", "cancelLock", "cancelRelease",
            "settleLock", "settleWinner"}

(***************************************************************************)
(* A reservation or a payment is the first thing a transaction does to a   *)
(* pouch: were it not, a midnight between two payments of one transaction  *)
(* would reset the counter and leave the first payment in the log only.    *)
(***************************************************************************)
FreshFirst ==
    \A t \in Procs : tx[t].pc \in FreshPC => \A g \in Guilds : holder[g] # t

SpendingInv == Metered /\ FreshFirst

-----------------------------------------------------------------------------
(* The steps.                                                              *)

(***************************************************************************)
(* A transaction has touched no pouch before a fresh step, if the pouches  *)
(* it has now are those it had, or none.                                   *)
(***************************************************************************)
LEMMA StaysFresh ==
    ASSUME AuctionInv, PouchTableAssumption, AuctionAssumption, FreshFirst, NEW t \in Procs,
           NEW r, tx' = [tx EXCEPT ![t] = r],
           r.pc \in FreshPC => \A g \in Guilds : holder'[g] # t,
           \A g \in Guilds : holder'[g] \in {holder[g], t, None}
    PROVE  FreshFirst'
<1>1. ASSUME NEW u \in Procs, tx'[u].pc \in FreshPC, NEW g \in Guilds
      PROVE  holder'[g] # u
  <2>1. CASE u = t
    BY <1>1, <2>1 DEF AuctionInv, TypeOK, Procs
  <2>2. CASE u # t
    <3>1. tx'[u] = tx[u] /\ u # None
      BY <2>2 DEF AuctionInv, TypeOK, Procs, PouchTableAssumption, AuctionAssumption
    <3>2. holder[g] # u
      BY <1>1, <3>1 DEF FreshFirst
    <3> QED
      BY <2>2, <3>1, <3>2
  <2> QED
    BY <2>1, <2>2
<1> QED
  BY <1>1 DEF FreshFirst

(***************************************************************************)
(* Going on to a step that is not fresh, or from a fresh one.              *)
(***************************************************************************)
LEMMA GotoStaysFresh ==
    ASSUME AuctionInv, PouchTableAssumption, AuctionAssumption, FreshFirst, NEW t \in Procs,
           NEW step, Goto(t, step),
           \/ step \notin FreshPC /\ \A g \in Guilds : holder'[g] \in {holder[g], t}
           \/ tx[t].pc \in FreshPC /\ UNCHANGED holder
    PROVE  FreshFirst'
<1> DEFINE r == [tx[t] EXCEPT !.pc = step]
<1>1. tx' = [tx EXCEPT ![t] = r]
  BY Zenon DEF Goto
<1>2. r.pc = step
  BY Types DEF Tx
<1> HIDE DEF r
<1>3. r.pc \in FreshPC => \A g \in Guilds : holder'[g] # t
  BY <1>2 DEF FreshFirst
<1> QED
  BY <1>1, <1>3, StaysFresh

(***************************************************************************)
(* Steps that leave the pouches alone.                                     *)
(***************************************************************************)
LEMMA ReadsKeepSpending ==
    ASSUME AuctionInv, PouchTableAssumption, AuctionAssumption, SpendingInv, NEW t \in Procs,
           \/ Begin(t) \/ Tick(t) \/ InsertAuction(t)
           \/ LockForBid(t) \/ LockForCancel(t) \/ LockForSettlement(t) \/ Transfer(t)
    PROVE  SpendingInv' /\ UNCHANGED <<pouch, log>>
<1>1. UNCHANGED <<pouch, draft, holder, log, newLog, now, today>>
  BY DEF Begin, CreateRequest, BidRequest, CancelRequest, BeginCreate, BeginBid, BeginCancel,
         Tick, InsertAuction, LockForBid, LockForCancel, LockForSettlement, Transfer,
         pouchVars, clockVars
<1>2. Metered'
  BY <1>1 DEF SpendingInv, Metered
<1>3. FreshFirst /\ tx[t] \in Tx
  BY Types DEF SpendingInv
<1>4. CASE tx[t].pc \in FreshPC
  <2>1. PICK r : tx' = [tx EXCEPT ![t] = r]
    BY Zenon DEF Begin, CreateRequest, BidRequest, CancelRequest, BeginCreate, BeginBid,
         BeginCancel, Tick, InsertAuction, LockForBid, LockForCancel, LockForSettlement,
         Transfer, Return, Goto, LoopOver
  <2>2. \A g \in Guilds : holder'[g] # t
    BY <1>1, <1>3, <1>4 DEF FreshFirst
  <2>3. FreshFirst'
    BY <1>1, <1>3, <2>1, <2>2, StaysFresh
  <2> QED
    BY <1>1, <1>2, <2>3 DEF SpendingInv
<1>5. CASE tx[t].pc \notin FreshPC
  <2>1. Transfer(t)
    BY <1>5 DEF FreshPC, Begin, CreateRequest, BidRequest, CancelRequest, BeginCreate,
         BeginBid, BeginCancel, Tick, InsertAuction, LockForBid, LockForCancel,
         LockForSettlement
  <2>2. PICK rest : LoopOver(t, rest)
    BY <2>1 DEF Transfer
  <2> DEFINE next == IF rest = {} THEN "expire" ELSE "releaseLosers"
             r == [tx[t] EXCEPT !.pc = next, !.losers = rest]
  <2>3. tx' = [tx EXCEPT ![t] = r]
    BY <2>2, Zenon DEF LoopOver
  <2>4. next \notin FreshPC
    BY DEF FreshPC
  <2> HIDE DEF next
  <2>5. r.pc = next
    BY <1>3 DEF Tx
  <2> HIDE DEF r
  <2>6. FreshFirst'
    BY <1>1, <1>3, <2>3, <2>4, <2>5, StaysFresh
  <2> QED
    BY <1>1, <1>2, <2>6 DEF SpendingInv
<1> QED
  BY <1>1, <1>2, <1>4, <1>5 DEF SpendingInv

(***************************************************************************)
(* Steps that rewrite a pouch.                                             *)
(***************************************************************************)
LEMMA WritesKeepSpending ==
    ASSUME AuctionInv, PouchTableAssumption, AuctionAssumption, SpendingInv, NEW t \in Procs,
           \/ ReserveForBid(t) \/ ReleaseForCancel(t)
           \/ SettleWinner(t) \/ CreditOwner(t) \/ ReleaseLoser(t)
    PROVE  SpendingInv' /\ UNCHANGED <<pouch, log>>
<1>1. /\ PouchInv /\ Metered /\ FreshFirst /\ t \in Txs /\ tx[t] \in Tx
      /\ Refers(tx[t], DOMAIN auctions, DOMAIN bids) /\ tx[t].amount \in Nat
  BY Types, SMTT(40) DEF AuctionInv, SpendingInv, Tx
<1>2. UNCHANGED <<pouch, log, clockVars>>
  BY ZenonT(40)
     DEF ReserveForBid, ReleaseForCancel, SettleWinner, CreditOwner, ReleaseLoser, WriteRow
<1>3. \A b \in DOMAIN bids : bids[b].guild \in Guilds /\ bids[b].amount \in Nat
  BY Types, ZenonT(40) DEF Bid
<1>4. \A a \in DOMAIN auctions : auctions[a].owner \in Guilds
  BY Types DEF Auction
<1>5. \A g \in Guilds : holder'[g] \in {holder[g], t}
  BY ZenonT(40)
     DEF ReserveForBid, ReleaseForCancel, SettleWinner, CreditOwner, ReleaseLoser, WriteRow,
         AuctionInv, PouchInv, PouchTypeOK
<1>6. Metered'
  <2>1. CASE ReserveForBid(t)
    <3>1. tx[t].guild \in Guilds /\ holder[tx[t].guild] # t
      BY <1>1, <2>1 DEF ReserveForBid, Refers, FreshFirst, FreshPC
    <3>2. Spent(newLog[t][tx[t].guild]) = 0
      BY <1>1, <3>1, SeenIsMetered, SpentEntry DEF TransactionType
    <3> QED
      BY <1>1, <1>2, <2>1, <3>1, <3>2, FirstPaymentIsMetered DEF ReserveForBid
  <2>2. CASE ReleaseForCancel(t)
    <3>1. tx[t].bid \in DOMAIN bids
      BY <1>1, <2>2 DEF ReleaseForCancel, Refers
    <3> QED
      BY <1>1, <1>2, <1>3, <2>2, <3>1, OtherWriteIsMetered DEF ReleaseForCancel
  <2>3. CASE SettleWinner(t)
    <3>1. tx[t].bid \in DOMAIN bids
      BY <1>1, <2>3 DEF SettleWinner, Refers
    <3>2. holder[bids[tx[t].bid].guild] # t
      BY <1>1, <1>3, <2>3, <3>1 DEF SettleWinner, FreshFirst, FreshPC
    <3>3. Spent(newLog[t][bids[tx[t].bid].guild]) = 0
      BY <1>1, <1>3, <3>1, <3>2, SeenIsMetered, SpentEntry DEF TransactionType
    <3>4. \E type \in {"PURCHASE", "AUCTION_WIN"} :
             WriteRow(t, bids[tx[t].bid].guild,
                      Settle(SeenRow(t, bids[tx[t].bid].guild), bids[tx[t].bid].amount, today),
                      type, bids[tx[t].bid].amount)
      BY <2>3 DEF SettleWinner
    <3> QED
      BY <1>1, <1>2, <1>3, <3>1, <3>3, <3>4, FirstPaymentIsMetered
  <2>4. CASE CreditOwner(t)
    <3>1. tx[t].bid \in DOMAIN bids /\ tx[t].auction \in DOMAIN auctions
      BY <1>1, <2>4 DEF CreditOwner, Refers
    <3> QED
      BY <1>1, <1>2, <1>3, <1>4, <2>4, <3>1, OtherWriteIsMetered DEF CreditOwner
  <2>5. CASE ReleaseLoser(t)
    <3> DEFINE l == Min(tx[t].losers)
    <3>1. l \in DOMAIN bids
      <4>1. tx[t].losers # {} /\ tx[t].losers \subseteq DOMAIN bids
            /\ tx[t].losers \in SUBSET Nat
        BY <1>1, <2>5 DEF ReleaseLoser, Refers, Tx
      <4>2. l \in tx[t].losers
        BY <4>1, MinIsMember
      <4> QED
        BY <4>1, <4>2
    <3>2. WriteRow(t, bids[l].guild, Release(SeenRow(t, bids[l].guild), bids[l].amount),
                   "RELEASE", bids[l].amount)
      BY <2>5, Zenon DEF ReleaseLoser
    <3> HIDE DEF l
    <3> QED
      BY <1>1, <1>2, <1>3, <3>1, <3>2, OtherWriteIsMetered
  <2> QED
    BY <2>1, <2>2, <2>3, <2>4, <2>5
<1>7. FreshFirst'
  <2>1. CASE \/ ReserveForBid(t) \/ ReleaseForCancel(t) \/ SettleWinner(t) \/ CreditOwner(t)
    <3>1. PICK step \in {"bidCommit", "cancelCommit", "creditOwner", "transfer"} :
             Goto(t, step)
      BY <2>1 DEF ReserveForBid, ReleaseForCancel, SettleWinner, CreditOwner
    <3>2. step \notin FreshPC
      BY <3>1 DEF FreshPC
    <3> QED
      BY <1>1, <1>5, <3>1, <3>2, GotoStaysFresh
  <2>2. CASE ReleaseLoser(t)
    <3>1. PICK rest : LoopOver(t, rest)
      BY <2>2 DEF ReleaseLoser
    <3> DEFINE next == IF rest = {} THEN "expire" ELSE "releaseLosers"
               r == [tx[t] EXCEPT !.pc = next, !.losers = rest]
    <3>2. tx' = [tx EXCEPT ![t] = r]
      BY <3>1, Zenon DEF LoopOver
    <3>3. next \notin FreshPC
      BY DEF FreshPC
    <3> HIDE DEF next
    <3>4. r.pc = next
      BY <1>1 DEF Tx
    <3> HIDE DEF r
    <3> QED
      BY <1>1, <1>5, <3>2, <3>3, <3>4, StaysFresh
  <2> QED
    BY <2>1, <2>2
<1> QED
  BY <1>2, <1>6, <1>7 DEF SpendingInv

(***************************************************************************)
(* Steps that end a transaction.                                           *)
(***************************************************************************)
LEMMA EndsKeepSpending ==
    ASSUME AuctionInv, PouchTableAssumption, AuctionAssumption, SpendingInv, NEW t \in Procs,
           \/ CommitBid(t) \/ CommitCancel(t) \/ CommitSettlement(t)
           \/ Abort(t) /\ UNCHANGED clockVars
    PROVE  SpendingInv' /\ Metering
<1>1. PouchInv /\ Metered /\ FreshFirst /\ t \in Txs
  BY Types DEF AuctionInv, SpendingInv
<1>2. UNCHANGED clockVars /\ Return(t) /\ (CommitRows(t) \/ RollbackRows(t))
  BY DEF CommitBid, CommitCancel, CommitSettlement, Abort
<1>3. /\ Metered'
      /\ \A g \in Guilds : holder'[g] # t /\ holder'[g] \in {holder[g], None}
  BY <1>1, <1>2, CommitIsMetered, RollbackIsMetered
<1>4. Metering
  <2>1. CASE CommitRows(t)
    BY <1>1, <1>2, <2>1, CommitIsMetered DEF Metering
  <2>2. CASE RollbackRows(t)
    BY <1>1, <2>2, NothingMetered DEF RollbackRows
  <2> QED
    BY <1>2, <2>1, <2>2
<1>5. PICK r : tx' = [tx EXCEPT ![t] = r]
  BY <1>2, ReturnRecord
<1> QED
  BY <1>1, <1>3, <1>4, <1>5, StaysFresh DEF SpendingInv

(***************************************************************************)
(* A restart, the clock and stuttering.                                    *)
(***************************************************************************)
LEMMA OthersKeepSpending ==
    ASSUME AuctionInv, PouchTableAssumption, AuctionAssumption, SpendingInv,
           Crash \/ Time \/ UNCHANGED vars
    PROVE  SpendingInv' /\ Metering
<1>1. CASE Crash
  <2>1. RollbackAllRows /\ UNCHANGED clockVars /\ \A g \in Guilds : holder'[g] = None
    BY <1>1 DEF Crash, RollbackAllRows
  <2>2. FreshFirst'
    BY <2>1 DEF FreshFirst, Procs, PouchTableAssumption, AuctionAssumption
  <2> QED
    BY <2>1, <2>2, OthersAreMetered DEF AuctionInv, SpendingInv
<1>2. CASE Time \/ UNCHANGED vars
  <2>1. UNCHANGED <<pouchVars, tx>> /\ (AdvanceClock \/ UNCHANGED clockVars)
    BY <1>2 DEF Time, pouchVars, clockVars, vars
  <2>2. FreshFirst'
    BY <2>1 DEF SpendingInv, FreshFirst, pouchVars
  <2> QED
    BY <2>1, <2>2, OthersAreMetered DEF AuctionInv, SpendingInv
<1> QED
  BY <1>1, <1>2

-----------------------------------------------------------------------------
(* The theorems.                                                           *)

(***************************************************************************)
(* Every step keeps SpendingInv and moves the meters as it should.         *)
(***************************************************************************)
LEMMA StepsAreMetered ==
    ASSUME AuctionInv, SpendingInv, [AuctionNext]_vars
    PROVE  SpendingInv' /\ Metering
<1> USE PouchTableAssumption, AuctionAssumption
<1> PouchInv
  BY DEF AuctionInv
<1>1. ASSUME NEW t \in Handlers, Begin(t) \/ HandlerStep(t) \/ Fault(t)
      PROVE  SpendingInv' /\ Metering
  <2>1. t \in Procs
    BY DEF Procs
  <2>2. CASE Begin(t) \/ InsertAuction(t) \/ LockForBid(t) \/ LockForCancel(t)
    BY <2>1, <2>2, ReadsKeepSpending, NothingMetered
  <2>3. CASE ReserveForBid(t) \/ ReleaseForCancel(t)
    BY <2>1, <2>3, WritesKeepSpending, NothingMetered
  <2>4. CASE CommitBid(t) \/ CommitCancel(t) \/ Refuse(t) \/ Fault(t)
    BY <2>1, <2>4, EndsKeepSpending DEF Refuse, Fault
  <2> QED
    BY <1>1, <2>2, <2>3, <2>4 DEF HandlerStep
<1>2. ASSUME NEW s \in Settlers, Tick(s) \/ SettlerStep(s) \/ Fault(s)
      PROVE  SpendingInv' /\ Metering
  <2>1. s \in Procs
    BY DEF Procs
  <2>2. CASE Tick(s) \/ LockForSettlement(s) \/ Transfer(s)
    BY <2>1, <2>2, ReadsKeepSpending, NothingMetered
  <2>3. CASE SettleWinner(s) \/ CreditOwner(s) \/ ReleaseLoser(s)
    BY <2>1, <2>3, WritesKeepSpending, NothingMetered
  <2>4. CASE CommitSettlement(s) \/ Refuse(s) \/ Fault(s)
    BY <2>1, <2>4, EndsKeepSpending DEF Refuse, Fault
  <2> QED
    BY <1>2, <2>2, <2>3, <2>4 DEF SettlerStep
<1>3. CASE Crash \/ Time \/ UNCHANGED vars
  BY <1>3, OthersKeepSpending
<1> QED
  BY <1>1, <1>2, <1>3 DEF AuctionNext, Quiescent

(***************************************************************************)
(* The seeded rows are metered.                                            *)
(***************************************************************************)
LEMMA SeedIsMetered ==
    ASSUME AuctionInit
    PROVE  SpendingInv
<1>1. \A g \in Guilds : holder[g] = None /\ pouch[g].day = 0
  BY DEF AuctionInit, PouchInit, SeedPouch
<1>2. today = 0
  BY DEF AuctionInit, PouchInit
<1> QED
  BY <1>1, <1>2, PouchTableAssumption, AuctionAssumption
     DEF SpendingInv, Metered, FreshFirst, Procs, PouchTableAssumption, AuctionAssumption

(***************************************************************************)
(* SpendingInv is inductive relative to AuctionInv.                        *)
(***************************************************************************)
THEOREM SpendingInvariant == AuctionSpec => []SpendingInv
<1>1. AuctionInit => SpendingInv
  BY SeedIsMetered
<1>2. AuctionInv /\ SpendingInv /\ [AuctionNext]_vars => SpendingInv'
  BY StepsAreMetered
<1> QED
  BY <1>1, <1>2, AuctionInvariant, PTL DEF AuctionSpec

(***************************************************************************)
(* Within a date spent_today moves by just what the log shows as spent,    *)
(* and it restarts only when the date moves forward.                       *)
(***************************************************************************)
THEOREM SpendingIsMetered == AuctionSpec => SpendingMetered
<1> DEFINE Moves == \A g \in Guilds :
              /\ pouch[g].day <= pouch'[g].day
              /\ pouch'[g].spent = (IF pouch'[g].day = pouch[g].day THEN pouch[g].spent ELSE 0)
                                    + Spent(log'[g]) - Spent(log[g])
<1>1. AuctionInv /\ SpendingInv /\ [AuctionNext]_vars => Moves
  BY StepsAreMetered DEF Metering, MeterStep
<1> QED
  BY <1>1, AuctionInvariant, SpendingInvariant, PTL DEF AuctionSpec, SpendingMetered

(***************************************************************************)
(* The wallet shows as within reach what a bid could reserve.              *)
(***************************************************************************)
LEMMA WalletShowsReach ==
    ASSUME PouchInv, AuctionAssumption
    PROVE  WalletAgrees
<1> SUFFICES ASSUME NEW g \in Guilds, NEW a \in Amounts
             PROVE  LET w == GetWallet(pouch[g], today)
                    IN  ReserveOK(pouch[g], a, today) <=>
                          a > 0 /\ a <= w.usable /\ w.spentToday + a <= w.limit
  BY DEF WalletAgrees
<1>1. pouch[g] \in Pouch /\ today \in Nat /\ a \in Nat
  BY DEF PouchInv, PouchTypeOK, AuctionAssumption
<1>2. ResetIfNewDay(pouch[g], today).spent = (IF pouch[g].day = today THEN pouch[g].spent ELSE 0)
  BY <1>1, ResetFields
<1>3. pouch[g].total \in Int /\ pouch[g].reserved \in Int
  BY <1>1, RowFields
<1> QED
  BY <1>1, <1>2, <1>3 DEF ReserveOK, WithinDailyLimit, UsableBalance, GetWallet

(***************************************************************************)
(* So it does for every amount, all the time.                              *)
(***************************************************************************)
THEOREM WalletTellsTheTruth == AuctionSpec => []WalletAgrees
<1>1. AuctionInv => WalletAgrees
  BY AuctionAssumption, WalletShowsReach DEF AuctionInv
<1> QED
  BY <1>1, AuctionInvariant, PTL
=============================================================================
