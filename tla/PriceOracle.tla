----------------------------- MODULE PriceOracle -----------------------------
(***************************************************************************)
(* The prices of LEGENDARY items: the oracle's updater writes them to the  *)
(* items table and then to the in-process cache, while handlers read the   *)
(* table and then the cache, and the process may die at any point.         *)
(*                                                                         *)
(* A price is the number of the quotation it comes from: the oracle's      *)
(* first quotation of an item is 1, the price an item is created with is   *)
(* 0, and so is every answer the updater may not use (zero or negative).   *)
(* Items are numbered in the order of their ids.                           *)
(***************************************************************************)
EXTENDS Integers, Sequences, SequencesExt

CONSTANTS SeedItems,           \* LEGENDARY items of the seed migration
          Silent,              \* items the oracle never has a price for
          Readers,             \* requests that show a price
          MaxItems, MaxQuotes, MaxFailures           \* bounds

ASSUME OracleAssumption ==
    /\ SeedItems \in Nat /\ Silent \subseteq Nat
    /\ MaxItems \in Nat /\ MaxQuotes \in Nat \ {0} /\ MaxFailures \in Nat

VARIABLES price,               \* items.price in the database
          cache,               \* the cache: its DOMAIN is the set of its keys
          quote,               \* the oracle's current quotation of every item
          updater,             \* where the updater is
          reader,              \* where every request is
          seen,                \* the newest price of an item shown so far
          failures             \* faults so far

oracleVars == <<price, cache, quote, updater, reader, seen, failures>>

Items == DOMAIN price

\* left: the rest of the list of this tick; answer: the price in hand.
Resting == [pc |-> "rest", left |-> <<>>, answer |-> 0]

\* floor: the newest price shown before the request began.
NoRead == [pc |-> "idle", item |-> 0, floor |-> 0, row |-> 0, shown |-> 0]

OracleInit ==
    /\ price = [i \in 1..SeedItems |-> 0]
    /\ cache = [i \in {} |-> 0]
    /\ quote = [i \in 1..SeedItems |-> 1]
    /\ updater = Resting
    /\ reader = [r \in Readers |-> NoRead]
    /\ seen = [i \in 1..SeedItems |-> 0]
    /\ failures = 0

Fails == failures < MaxFailures /\ failures' = failures + 1

-----------------------------------------------------------------------------
(* The updater.                                                            *)

\* The item at hand.
Current == Head(updater.left)

\* From here the updater goes on with the items in rest.
GoOn(rest) ==
    updater' = IF rest = <<>> THEN Resting
               ELSE [pc |-> "fetch", left |-> rest, answer |-> 0]

\* The ticker fires: the LEGENDARY items are listed.
StartTick ==
    /\ updater.pc = "rest"
    /\ GoOn([i \in Items |-> i])
    /\ UNCHANGED <<price, cache, quote, reader, seen, failures>>

\* Mutant: a zero price is taken for a price.
Usable_Any(answer) == TRUE

Usable(answer) == answer > 0

\* Mutant: an item without a price ends the tick.
Skip_EndsTick == updater' = Resting

\* refreshItem returns; the price last known is kept.
Skip == GoOn(Tail(updater.left))

\* GetPrice returns the oracle's quotation, or something that is no price.
Answered(answer) ==
    /\ IF Usable(answer)
       THEN updater' = [updater EXCEPT !.pc = "persist", !.answer = answer]
       ELSE Skip
    /\ UNCHANGED <<price, cache, quote, reader, seen>>

\* The oracle has a price for this item, unless it is Silent.
Quoted ==
    /\ updater.pc = "fetch"
    /\ Current \notin Silent
    /\ Answered(quote[Current])
    /\ UNCHANGED failures

\* An error, a timeout or an unusable answer.
NotQuoted ==
    /\ updater.pc = "fetch"
    /\ Answered(0)
    /\ Fails \/ (Current \in Silent /\ UNCHANGED failures)

Persist ==
    /\ updater.pc = "persist"
    /\ price' = [price EXCEPT ![Current] = updater.answer]
    /\ updater' = [updater EXCEPT !.pc = "cache"]
    /\ UNCHANGED <<cache, quote, reader, seen, failures>>

\* Mutant: the price is cached although it has not been persisted.
PersistFails_Ignored ==
    /\ updater.pc = "persist"
    /\ Fails
    /\ price' \in {price, [price EXCEPT ![Current] = updater.answer]}
    /\ updater' = [updater EXCEPT !.pc = "cache"]
    /\ UNCHANGED <<cache, quote, reader, seen>>

\* UpdatePrice returns an error; the database may have done it all the same.
PersistFails ==
    /\ updater.pc = "persist"
    /\ Fails
    /\ price' \in {price, [price EXCEPT ![Current] = updater.answer]}
    /\ Skip
    /\ UNCHANGED <<cache, quote, reader, seen>>

SetCache ==
    /\ updater.pc = "cache"
    /\ cache' = [i \in DOMAIN cache \cup {Current} |->
                   IF i = Current THEN updater.answer ELSE cache[i]]
    /\ Skip
    /\ UNCHANGED <<price, quote, reader, seen, failures>>

UpdaterStep == StartTick \/ Quoted \/ NotQuoted \/ Persist \/ PersistFails \/ SetCache

-----------------------------------------------------------------------------
(* Requests.                                                               *)

\* toView and currentPrice: the price shown to a request that has read row.
Shown(i, row) == IF i \in DOMAIN cache THEN cache[i] ELSE row

BeginRead(r, i) ==
    /\ reader[r].pc \in {"idle", "done"}
    /\ reader' = [reader EXCEPT ![r] = [NoRead EXCEPT !.pc = "row", !.item = i,
                                                      !.floor = seen[i]]]
    /\ UNCHANGED <<price, cache, quote, updater, seen, failures>>

ReadRow(r) ==
    /\ reader[r].pc = "row"
    /\ reader' = [reader EXCEPT ![r].pc = "cache", ![r].row = price[reader[r].item]]
    /\ UNCHANGED <<price, cache, quote, updater, seen, failures>>

ReadCache(r) ==
    LET i == reader[r].item
        p == Shown(i, reader[r].row)
    IN  /\ reader[r].pc = "cache"
        /\ reader' = [reader EXCEPT ![r].pc = "done", ![r].shown = p]
        /\ seen' = [seen EXCEPT ![i] = IF p > @ THEN p ELSE @]
        /\ UNCHANGED <<price, cache, quote, updater, failures>>

\* CreateItem with rarity LEGENDARY.
CreateLegendary ==
    /\ Len(price) < MaxItems
    /\ price' = Append(price, 0)
    /\ quote' = Append(quote, 1)
    /\ seen' = Append(seen, 0)
    /\ UNCHANGED <<cache, updater, reader, failures>>

-----------------------------------------------------------------------------

\* The market moves: the oracle has a new quotation.
Requote(i) ==
    /\ quote[i] < MaxQuotes
    /\ quote' = [quote EXCEPT ![i] = @ + 1]
    /\ UNCHANGED <<price, cache, updater, reader, seen, failures>>

\* The process dies, with its cache, and is started again.
RestartServer ==
    /\ Fails
    /\ cache' = [i \in {} |-> 0]
    /\ updater' = Resting
    /\ reader' = [r \in Readers |-> NoRead]
    /\ UNCHANGED <<price, quote, seen>>

OracleNext ==
    \/ UpdaterStep
    \/ \E r \in Readers : ReadRow(r) \/ ReadCache(r) \/ \E i \in Items : BeginRead(r, i)
    \/ CreateLegendary
    \/ \E i \in Items : Requote(i)
    \/ RestartServer

OracleSpec == OracleInit /\ [][OracleNext]_oracleVars

\* Ticks come and their calls return: GetPrice has a timeout of its own.
FairOracleSpec == OracleSpec /\ WF_oracleVars(UpdaterStep)

-----------------------------------------------------------------------------

(***************************************************************************)
(* Rows hold prices, the cache holds usable quotations only, of items that *)
(* exist, and the list of a tick names such items.                         *)
(***************************************************************************)
OracleTypeOK ==
    /\ price \in Seq(Nat) /\ quote \in Seq(Nat \ {0}) /\ seen \in Seq(Nat)
    /\ DOMAIN quote = Items /\ DOMAIN seen = Items
    /\ DOMAIN cache \subseteq Items /\ \A i \in DOMAIN cache : cache[i] \in Nat \ {0}
    /\ updater \in [pc: {"rest", "fetch", "persist", "cache"}, left: Seq(Items), answer: Nat]
    /\ updater.pc # "rest" => updater.left # <<>>
    /\ reader \in [Readers -> [pc: {"idle", "row", "cache", "done"}, item: Nat, floor: Nat,
                               row: Nat, shown: Nat]]
    /\ \A r \in Readers : reader[r].pc # "idle" => reader[r].item \in Items
    /\ failures \in Nat

(***************************************************************************)
(* "Keeping last known-good price": the cache is never ahead of the table, *)
(* so that losing it loses no price; and the table is never ahead of the   *)
(* oracle.                                                                 *)
(***************************************************************************)
NothingToLose ==
    \A i \in Items : price[i] <= quote[i] /\ (i \in DOMAIN cache => cache[i] <= price[i])

(***************************************************************************)
(* A request never shows an older price than another that ended before it  *)
(* began, be there failed updates, updates whose reply is lost, or a       *)
(* restart in between.                                                     *)
(***************************************************************************)
MonotoneReads == \A r \in Readers : reader[r].pc = "done" => reader[r].shown >= reader[r].floor

\* What a request would show of item i now.
Showing(i) == Shown(i, price[i])

(***************************************************************************)
(* Whatever the oracle quotes for an item is shown in the end, that or     *)
(* something newer: an item the oracle has no price for, a failed update   *)
(* or a restart does not keep the others from being refreshed.             *)
(***************************************************************************)
QuotesArrive ==
    \A i \in (1..MaxItems) \ Silent, q \in 1..MaxQuotes :
        (i \in Items /\ quote[i] = q) ~> (i \in Items /\ Showing(i) >= q)
=============================================================================
