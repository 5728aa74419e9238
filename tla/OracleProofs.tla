---------------------------- MODULE OracleProofs ----------------------------
(***************************************************************************)
(* For any number of items and requests: no request shows an older price   *)
(* than one that ended before it began.                                    *)
(*                                                                         *)
(* MonotoneReads is not inductive.  It needs to be known what a request    *)
(* would show now (Showing) never falls below what has been shown, which   *)
(* needs the cache to be behind the table and the updater to write nothing *)
(* but newer quotations, the same one to both.                             *)
(***************************************************************************)
EXTENDS PriceOracle, SequenceTheorems, TLAPS

\* Every price that was ever shown could still be shown.
NothingForgotten == \A i \in Items : seen[i] <= Showing(i)

\* The quotation the updater has in hand is not older than the table, and is
\* the one in the table when it is about to be cached.
InHand ==
    /\ updater.pc = "persist" =>
          /\ updater.answer > 0
          /\ price[Current] <= updater.answer
          /\ updater.answer <= quote[Current]
    /\ updater.pc = "cache" => updater.answer > 0 /\ updater.answer = price[Current]

\* What a request has read is not older than what was shown when it began.
FreshRow ==
    \A r \in Readers :
        LET i == reader[r].item
        IN  /\ reader[r].pc \in {"row", "cache"} => reader[r].floor <= seen[i]
            /\ reader[r].pc = "cache" =>
                  reader[r].floor <= reader[r].row /\ reader[r].row <= price[i]

OracleInv ==
    OracleTypeOK /\ NothingToLose /\ NothingForgotten /\ InHand /\ FreshRow /\ MonotoneReads

-----------------------------------------------------------------------------
(* Facts used by every step.                                               *)

UpdaterType == [pc: {"rest", "fetch", "persist", "cache"}, left: Seq(Items), answer: Nat]

ReaderType == [pc: {"idle", "row", "cache", "done"}, item: Nat, floor: Nat, row: Nat, shown: Nat]

(***************************************************************************)
(* The rows and the records, by the ids of the items.                      *)
(***************************************************************************)
LEMMA OracleTypes ==
    ASSUME OracleInv
    PROVE  /\ Items = 1..Len(price) /\ Len(price) \in Nat
           /\ \A i \in Items : i \in Nat /\ price[i] \in Nat /\ quote[i] \in Nat /\ quote[i] > 0
                               /\ seen[i] \in Nat
           /\ \A i \in DOMAIN cache : i \in Items /\ cache[i] \in Nat /\ cache[i] > 0
           /\ updater \in UpdaterType /\ (updater.pc # "rest" => updater.left # <<>>)
           /\ \A r \in Readers : reader[r] \in ReaderType
           /\ \A r \in Readers : reader[r].pc # "idle" => reader[r].item \in Items
<1>1. /\ price \in Seq(Nat) /\ quote \in Seq(Nat \ {0}) /\ seen \in Seq(Nat)
      /\ DOMAIN quote = Items /\ DOMAIN seen = Items
  BY DEF OracleInv, OracleTypeOK
<1>2. Items = 1..Len(price) /\ Len(price) \in Nat
  BY <1>1 DEF Items
<1>3. \A i \in Items : i \in Nat /\ price[i] \in Nat
  BY <1>1 DEF Items
<1>4. \A i \in Items : quote[i] \in Nat \ {0} /\ seen[i] \in Nat
  <2>1. \A i \in DOMAIN quote : quote[i] \in Nat \ {0}
    BY <1>1
  <2>2. \A i \in DOMAIN seen : seen[i] \in Nat
    BY <1>1, SMTT(40)
  <2> QED
    BY <1>1, <2>1, <2>2
<1>5. \A i \in DOMAIN cache : i \in Items /\ cache[i] \in Nat \ {0}
  BY DEF OracleInv, OracleTypeOK
<1>6. /\ updater \in UpdaterType /\ (updater.pc # "rest" => updater.left # <<>>)
      /\ \A r \in Readers : reader[r] \in ReaderType
      /\ \A r \in Readers : reader[r].pc # "idle" => reader[r].item \in Items
  BY DEF OracleInv, OracleTypeOK, UpdaterType, ReaderType
<1> QED
  BY <1>2, <1>3, <1>4, <1>5, <1>6

(***************************************************************************)
(* While the updater is at work, the item at hand exists and the rest of   *)
(* its list is a list.                                                     *)
(***************************************************************************)
LEMMA AtHand ==
    ASSUME OracleInv, updater.pc # "rest"
    PROVE  Current \in Items /\ Tail(updater.left) \in Seq(Items)
<1>1. updater.left \in Seq(Items) /\ updater.left # <<>>
  BY OracleTypes DEF UpdaterType
<1> QED
  BY <1>1 DEF Current

(***************************************************************************)
(* The updater goes on, or rests, with a list of items.                    *)
(***************************************************************************)
LEMMA GoesOn ==
    ASSUME NEW rest \in Seq(Items), GoOn(rest)
    PROVE  /\ updater' \in UpdaterType
           /\ updater'.pc \in {"rest", "fetch"}
           /\ updater'.pc # "rest" => updater'.left # <<>>
  BY DEF GoOn, Resting, UpdaterType

(***************************************************************************)
(* What would be shown of an item is a price between what was shown and    *)
(* what is in the table.                                                   *)
(***************************************************************************)
LEMMA ShowingBounds ==
    ASSUME OracleInv, NEW i \in Items
    PROVE  Showing(i) \in Nat /\ seen[i] <= Showing(i) /\ Showing(i) <= price[i]
<1>1. seen[i] <= Showing(i)
  BY DEF OracleInv, NothingForgotten
<1>2. i \in DOMAIN cache => cache[i] <= price[i]
  BY DEF OracleInv, NothingToLose
<1> QED
  BY <1>1, <1>2, OracleTypes DEF Showing, Shown

(***************************************************************************)
(* A step in which only the updater moves on concerns only its own record. *)
(***************************************************************************)
LEMMA UpdaterFrame ==
    ASSUME OracleInv, UNCHANGED <<price, cache, quote, reader, seen>>,
           failures' \in Nat,
           updater' \in UpdaterType,
           updater'.pc # "rest" => updater'.left # <<>>,
           InHand'
    PROVE  OracleInv'
<1>1. OracleTypeOK'
  BY DEF OracleInv, OracleTypeOK, Items, UpdaterType
<1>2. (NothingToLose /\ NothingForgotten /\ FreshRow /\ MonotoneReads)'
  BY DEF OracleInv, NothingToLose, NothingForgotten, FreshRow, MonotoneReads, Items, Showing, Shown
<1> QED
  BY <1>1, <1>2 DEF OracleInv

-----------------------------------------------------------------------------
(* The steps of the updater.                                               *)

(***************************************************************************)
(* A tick begins with the list of all items.                               *)
(***************************************************************************)
LEMMA StartTickPreserves ==
    ASSUME OracleInv, StartTick
    PROVE  OracleInv'
<1>1. [i \in Items |-> i] \in Seq(Items)
  BY OracleTypes
<1>2. GoOn([i \in Items |-> i])
  BY DEF StartTick
<1>3. /\ updater' \in UpdaterType
      /\ updater'.pc \in {"rest", "fetch"}
      /\ updater'.pc # "rest" => updater'.left # <<>>
  BY <1>1, <1>2, GoesOn
<1>4. failures' \in Nat
  BY DEF StartTick, OracleInv, OracleTypeOK
<1> QED
  BY <1>3, <1>4, UpdaterFrame DEF StartTick, InHand

(***************************************************************************)
(* What GetPrice returns is kept for the table only if it can be used; it  *)
(* is as new as the oracle, and so not older than the table.               *)
(***************************************************************************)
LEMMA AnsweredPreserves ==
    ASSUME OracleInv, updater.pc = "fetch", NEW answer \in {0, quote[Current]},
           Answered(answer), failures' \in Nat
    PROVE  OracleInv'
<1>1. Current \in Items /\ Tail(updater.left) \in Seq(Items)
  BY AtHand
<1>2. price[Current] <= quote[Current] /\ quote[Current] \in Nat /\ price[Current] \in Nat
  BY <1>1, OracleTypes DEF OracleInv, NothingToLose
<1>3. CASE Usable(answer)
  <2>1. updater' = [updater EXCEPT !.pc = "persist", !.answer = answer]
    BY <1>3 DEF Answered
  <2>2. answer = quote[Current] /\ answer > 0
    BY <1>3 DEF Usable
  <2>3. updater \in UpdaterType /\ updater.left # <<>>
    BY OracleTypes
  <2>4. /\ updater' \in UpdaterType /\ updater'.left = updater.left
        /\ updater'.pc = "persist" /\ updater'.answer = answer
    BY <2>1, <2>2, <2>3, <1>2 DEF UpdaterType
  <2>5. InHand'
    BY <2>2, <2>4, <1>2 DEF InHand, Current, Answered
  <2> QED
    BY <2>3, <2>4, <2>5, UpdaterFrame DEF Answered
<1>4. CASE ~Usable(answer)
  <2>1. GoOn(Tail(updater.left))
    BY <1>4 DEF Answered, Skip
  <2>2. /\ updater' \in UpdaterType
        /\ updater'.pc \in {"rest", "fetch"}
        /\ updater'.pc # "rest" => updater'.left # <<>>
    BY <1>1, <2>1, GoesOn
  <2> QED
    BY <2>2, UpdaterFrame DEF Answered, InHand
<1> QED
  BY <1>3, <1>4

(***************************************************************************)
(* An UPDATE of the item at hand writes something newer.                   *)
(***************************************************************************)
LEMMA NewPrice ==
    ASSUME OracleInv, updater.pc = "persist",
           price' \in {price, [price EXCEPT ![Current] = updater.answer]},
           UNCHANGED <<cache, quote, reader, seen>>,
           failures' \in Nat,
           updater' \in UpdaterType,
           updater'.pc # "rest" => updater'.left # <<>>,
           InHand'
    PROVE  OracleInv'
<1>1. Current \in Items /\ updater.answer \in Nat
  BY AtHand, OracleTypes DEF UpdaterType
<1>2. price[Current] <= updater.answer /\ updater.answer <= quote[Current]
  BY DEF OracleInv, InHand
<1>3. price' \in Seq(Nat) /\ Items' = Items
  <2>1. price \in Seq(Nat)
    BY DEF OracleInv, OracleTypeOK
  <2>2. [price EXCEPT ![Current] = updater.answer] \in Seq(Nat)
    BY <1>1, <2>1, ExceptSeq DEF Items
  <2> QED
    BY <2>1, <2>2 DEF Items
<1>4. \A i \in Items : price'[i] \in Nat /\ price[i] <= price'[i] /\ price'[i] <= quote[i]
  <2>1. \A i \in Items : price[i] \in Nat /\ price[i] <= quote[i]
    BY OracleTypes DEF OracleInv, NothingToLose
  <2>2. \A i \in Items : price'[i] \in {price[i], IF i = Current THEN updater.answer ELSE price[i]}
    BY DEF Items
  <2> QED
    BY <1>1, <1>2, <2>1, <2>2
<1>5. OracleTypeOK'
  BY <1>3 DEF OracleInv, OracleTypeOK, UpdaterType
<1>6. NothingToLose'
  BY <1>3, <1>4, OracleTypes DEF OracleInv, NothingToLose
<1>7. NothingForgotten'
  <2>1. \A i \in Items : Showing(i) <= Showing(i)'
    BY <1>4, OracleTypes DEF Showing, Shown
  <2>2. \A i \in Items : Showing(i) \in Nat /\ Showing(i)' \in Nat /\ seen[i] <= Showing(i)
    BY <1>4, OracleTypes, ShowingBounds DEF Showing, Shown
  <2>3. \A i \in Items : seen[i] <= Showing(i)'
    BY <2>1, <2>2, OracleTypes
  <2> QED
    BY <1>3, <2>3 DEF NothingForgotten
<1>8. FreshRow'
  <2> SUFFICES ASSUME NEW r \in Readers, reader[r].pc \in {"row", "cache"}
               PROVE  /\ reader[r].floor <= seen[reader[r].item]
                      /\ reader[r].pc = "cache" =>
                            /\ reader[r].floor <= reader[r].row
                            /\ reader[r].row <= price'[reader[r].item]
    BY DEF FreshRow
  <2>1. reader[r].item \in Items /\ reader[r].row \in Nat
    BY OracleTypes DEF ReaderType
  <2>2. /\ reader[r].floor <= seen[reader[r].item]
        /\ reader[r].pc = "cache" =>
              /\ reader[r].floor <= reader[r].row
              /\ reader[r].row <= price[reader[r].item]
    BY DEF OracleInv, FreshRow
  <2> QED
    BY <2>1, <2>2, <1>4, OracleTypes
<1>9. MonotoneReads'
  BY DEF OracleInv, MonotoneReads
<1> QED
  BY <1>5, <1>6, <1>7, <1>8, <1>9 DEF OracleInv

(***************************************************************************)
(* The table is written before the cache.                                  *)
(***************************************************************************)
LEMMA PersistPreserves ==
    ASSUME OracleInv, Persist
    PROVE  OracleInv'
<1>1. Current \in Items /\ updater \in UpdaterType /\ updater.left # <<>> /\ updater.pc = "persist"
  BY AtHand, OracleTypes DEF Persist
<1>2. /\ updater' \in UpdaterType /\ updater'.pc = "cache"
      /\ updater'.left = updater.left /\ updater'.answer = updater.answer
  BY <1>1 DEF Persist, UpdaterType
<1>3. price'[Current] = updater.answer /\ updater.answer > 0
  BY <1>1 DEF Persist, Items, OracleInv, InHand
<1>4. InHand'
  BY <1>2, <1>3 DEF InHand, Current
<1>5. failures' \in Nat
  BY DEF Persist, OracleInv, OracleTypeOK
<1>6. price' \in {price, [price EXCEPT ![Current] = updater.answer]}
  BY DEF Persist
<1>7. UNCHANGED <<cache, quote, reader, seen>>
  BY DEF Persist
<1> QED
  BY <1>1, <1>2, <1>4, <1>5, <1>6, <1>7, NewPrice

(***************************************************************************)
(* An UPDATE that fails, or seems to, is not cached.                       *)
(***************************************************************************)
LEMMA PersistFailsPreserves ==
    ASSUME OracleInv, OracleAssumption, PersistFails
    PROVE  OracleInv'
<1>1. updater.pc = "persist" /\ GoOn(Tail(updater.left)) /\ Tail(updater.left) \in Seq(Items)
  BY AtHand DEF PersistFails, Skip
<1>2. /\ updater' \in UpdaterType
      /\ updater'.pc \in {"rest", "fetch"}
      /\ updater'.pc # "rest" => updater'.left # <<>>
  BY <1>1, GoesOn
<1>3. InHand'
  BY <1>2 DEF InHand
<1>4. failures' \in Nat
  BY DEF PersistFails, Fails, OracleInv, OracleTypeOK
<1>5. price' \in {price, [price EXCEPT ![Current] = updater.answer]}
  BY DEF PersistFails
<1>6. UNCHANGED <<cache, quote, reader, seen>>
  BY DEF PersistFails
<1> QED
  BY <1>1, <1>2, <1>3, <1>4, <1>5, <1>6, NewPrice

(***************************************************************************)
(* The cache gets what the table has, which is not older than what is      *)
(* shown at that time.                                                     *)
(***************************************************************************)
LEMMA SetCachePreserves ==
    ASSUME OracleInv, SetCache
    PROVE  OracleInv'
<1>1. updater.pc = "cache" /\ GoOn(Tail(updater.left)) /\ Tail(updater.left) \in Seq(Items)
  BY AtHand DEF SetCache, Skip
<1>2. /\ updater' \in UpdaterType
      /\ updater'.pc \in {"rest", "fetch"}
      /\ updater'.pc # "rest" => updater'.left # <<>>
  BY <1>1, GoesOn
<1>3. Current \in Items /\ updater.answer = price[Current] /\ updater.answer > 0
  BY <1>1, AtHand DEF OracleInv, InHand
<1>4. /\ DOMAIN cache' = DOMAIN cache \cup {Current}
      /\ \A i \in DOMAIN cache' : cache'[i] = IF i = Current THEN price[Current] ELSE cache[i]
  BY <1>3 DEF SetCache
<1>5. UNCHANGED <<price, quote, reader, seen, failures>>
  BY DEF SetCache
<1>6. \A i \in DOMAIN cache' : i \in Items /\ cache'[i] \in Nat \ {0} /\ cache'[i] <= price[i]
  <2> SUFFICES ASSUME NEW i \in DOMAIN cache'
               PROVE  i \in Items /\ cache'[i] \in Nat \ {0} /\ cache'[i] <= price[i]
    OBVIOUS
  <2>1. CASE i = Current
    BY <2>1, <1>3, <1>4, OracleTypes
  <2>2. CASE i # Current
    BY <2>2, <1>4, OracleTypes DEF OracleInv, NothingToLose
  <2> QED
    BY <2>1, <2>2
<1>7. OracleTypeOK'
  BY <1>2, <1>5, <1>6 DEF OracleInv, OracleTypeOK, Items, UpdaterType
<1>8. NothingToLose'
  BY <1>5, <1>6 DEF OracleInv, NothingToLose, Items
<1>9. NothingForgotten'
  <2> SUFFICES ASSUME NEW i \in Items
               PROVE  seen[i] <= Showing(i)'
    BY <1>5 DEF NothingForgotten, Items
  <2>1. seen[i] <= Showing(i) /\ Showing(i) <= price[i] /\ Showing(i) \in Nat
    BY ShowingBounds
  <2>2. CASE i = Current
    BY <2>1, <2>2, <1>4, <1>5, OracleTypes DEF Showing, Shown
  <2>3. CASE i # Current
    BY <2>1, <2>3, <1>4, <1>5 DEF Showing, Shown
  <2> QED
    BY <2>2, <2>3
<1>10. InHand'
  BY <1>2 DEF InHand
<1>11. FreshRow' /\ MonotoneReads'
  BY <1>5 DEF OracleInv, FreshRow, MonotoneReads
<1> QED
  BY <1>7, <1>8, <1>9, <1>10, <1>11 DEF OracleInv

-----------------------------------------------------------------------------
(* The steps of requests, of the oracle and of the process.                *)

(***************************************************************************)
(* A request begins and knows what has been shown.                         *)
(***************************************************************************)
LEMMA BeginReadPreserves ==
    ASSUME OracleInv, NEW r \in Readers, NEW i \in Items, BeginRead(r, i)
    PROVE  OracleInv'
<1>1. UNCHANGED <<price, cache, quote, updater, seen, failures>>
  BY DEF BeginRead
<1>2. reader' = [reader EXCEPT ![r] = [NoRead EXCEPT !.pc = "row", !.item = i,
                                                     !.floor = seen[i]]]
  BY DEF BeginRead
<1>3. i \in Nat /\ seen[i] \in Nat /\ reader \in [Readers -> ReaderType]
  BY OracleTypes DEF OracleInv, OracleTypeOK, ReaderType
<1>4. /\ reader' \in [Readers -> ReaderType]
      /\ reader'[r].pc = "row" /\ reader'[r].item = i /\ reader'[r].floor = seen[i]
      /\ \A u \in Readers \ {r} : reader'[u] = reader[u]
  BY <1>2, <1>3 DEF NoRead, ReaderType
<1>5. OracleTypeOK'
  BY <1>1, <1>4 DEF OracleInv, OracleTypeOK, Items, ReaderType
<1>6. NothingToLose' /\ NothingForgotten' /\ InHand'
  BY <1>1 DEF OracleInv, NothingToLose, NothingForgotten, InHand, Items, Current, Showing, Shown
<1>7. FreshRow'
  BY <1>1, <1>3, <1>4 DEF OracleInv, FreshRow
<1>8. MonotoneReads'
  BY <1>4 DEF OracleInv, MonotoneReads
<1> QED
  BY <1>5, <1>6, <1>7, <1>8 DEF OracleInv

(***************************************************************************)
(* The row a request reads is at least as new as anything shown before.    *)
(***************************************************************************)
LEMMA ReadRowPreserves ==
    ASSUME OracleInv, NEW r \in Readers, ReadRow(r)
    PROVE  OracleInv'
<1> DEFINE i == reader[r].item
<1>1. UNCHANGED <<price, cache, quote, updater, seen, failures>>
  BY DEF ReadRow
<1>2. /\ reader[r].pc = "row" /\ i \in Items /\ price[i] \in Nat /\ seen[i] \in Nat
      /\ reader \in [Readers -> ReaderType]
  BY OracleTypes DEF ReadRow, OracleInv, OracleTypeOK, ReaderType
<1>3. /\ reader' \in [Readers -> ReaderType]
      /\ reader'[r].pc = "cache" /\ reader'[r].item = i /\ reader'[r].row = price[i]
      /\ reader'[r].floor = reader[r].floor
      /\ \A u \in Readers \ {r} : reader'[u] = reader[u]
  BY <1>2, ZenonT(40) DEF ReadRow, ReaderType
<1>4. reader[r].floor <= price[i]
  <2>1. reader[r].floor <= seen[i] /\ reader[r].floor \in Nat
    BY <1>2 DEF OracleInv, FreshRow, ReaderType
  <2>2. seen[i] <= Showing(i) /\ Showing(i) <= price[i] /\ Showing(i) \in Nat
    BY <1>2, ShowingBounds
  <2> QED
    BY <1>2, <2>1, <2>2
<1>5. OracleTypeOK'
  BY <1>1, <1>2, <1>3 DEF OracleInv, OracleTypeOK, Items, ReaderType
<1>6. NothingToLose' /\ NothingForgotten' /\ InHand'
  BY <1>1 DEF OracleInv, NothingToLose, NothingForgotten, InHand, Items, Current, Showing, Shown
<1>7. FreshRow'
  BY <1>1, <1>2, <1>3, <1>4 DEF OracleInv, FreshRow
<1>8. MonotoneReads'
  BY <1>3 DEF OracleInv, MonotoneReads
<1> QED
  BY <1>5, <1>6, <1>7, <1>8 DEF OracleInv

(***************************************************************************)
(* The cache, if it has the item, shows what could be shown all along; the *)
(* row, if it has not, is fresh.                                           *)
(***************************************************************************)
LEMMA ReadCachePreserves ==
    ASSUME OracleInv, NEW r \in Readers, ReadCache(r)
    PROVE  OracleInv'
<1> DEFINE i == reader[r].item
           p == Shown(i, reader[r].row)
<1>1. UNCHANGED <<price, cache, quote, updater, failures>>
  BY DEF ReadCache
<1>2. /\ reader[r].pc = "cache" /\ i \in Items /\ price[i] \in Nat /\ seen[i] \in Nat
      /\ reader \in [Readers -> ReaderType] /\ reader[r] \in ReaderType
  BY OracleTypes DEF ReadCache, OracleInv, OracleTypeOK, ReaderType
<1>3. /\ reader[r].floor <= seen[i] /\ reader[r].floor <= reader[r].row
      /\ reader[r].row <= price[i]
  BY <1>2 DEF OracleInv, FreshRow
<1>4. seen[i] <= Showing(i) /\ Showing(i) <= price[i] /\ Showing(i) \in Nat
  BY <1>2, ShowingBounds
<1>5. p \in Nat /\ reader[r].floor <= p /\ p <= Showing(i)
  <2>1. CASE i \in DOMAIN cache
    <3>1. p = Showing(i)
      BY <2>1 DEF Showing, Shown
    <3> QED
      BY <3>1, <1>2, <1>3, <1>4 DEF ReaderType
  <2>2. CASE i \notin DOMAIN cache
    <3>1. p = reader[r].row /\ Showing(i) = price[i]
      BY <2>2 DEF Showing, Shown
    <3> QED
      BY <3>1, <1>2, <1>3 DEF ReaderType
  <2> QED
    BY <2>1, <2>2
<1> HIDE DEF p
<1>6. /\ reader' \in [Readers -> ReaderType]
      /\ reader'[r].pc = "done" /\ reader'[r].item = i /\ reader'[r].shown = p
      /\ reader'[r].floor = reader[r].floor
      /\ \A u \in Readers \ {r} : reader'[u] = reader[u]
  <2>1. reader' = [reader EXCEPT ![r].pc = "done", ![r].shown = p]
    BY DEF ReadCache, p
  <2> QED
    BY <1>2, <1>5, <2>1 DEF ReaderType
<1>7. /\ seen' \in Seq(Nat) /\ DOMAIN seen' = Items
      /\ \A k \in Items : seen[k] <= seen'[k] /\ seen'[k] <= Showing(k)
  <2>1. seen' = [seen EXCEPT ![i] = IF p > seen[i] THEN p ELSE seen[i]]
    BY DEF ReadCache, p
  <2>2. seen \in Seq(Nat) /\ DOMAIN seen = Items
    BY DEF OracleInv, OracleTypeOK
  <2>3. seen' \in Seq(Nat)
    BY <1>2, <1>5, <2>1, <2>2, ExceptSeq
  <2>4. DOMAIN seen' = Items /\ \A k \in Items :
           seen'[k] = IF k = i /\ p > seen[i] THEN p ELSE seen[k]
    BY <1>2, <2>1, <2>2
  <2>5. \A k \in Items : seen[k] <= Showing(k) /\ seen[k] \in Nat
    BY ShowingBounds, OracleTypes
  <2> QED
    BY <1>2, <1>5, <2>3, <2>4, <2>5, SMTT(40)
<1>8. OracleTypeOK'
  BY <1>1, <1>2, <1>6, <1>7 DEF OracleInv, OracleTypeOK, Items, ReaderType
<1>9. NothingToLose' /\ InHand'
  BY <1>1 DEF OracleInv, NothingToLose, InHand, Items, Current
<1>10. NothingForgotten'
  BY <1>1, <1>7 DEF NothingForgotten, Items, Showing, Shown
<1>11. FreshRow'
  <2> SUFFICES ASSUME NEW u \in Readers, u # r, reader[u].pc \in {"row", "cache"}
               PROVE  /\ reader[u].floor <= seen'[reader[u].item]
                      /\ reader[u].pc = "cache" =>
                            /\ reader[u].floor <= reader[u].row
                            /\ reader[u].row <= price[reader[u].item]
    BY <1>1, <1>6 DEF FreshRow
  <2>1. reader[u].item \in Items /\ reader[u] \in ReaderType
    BY OracleTypes
  <2>2. reader[u].floor <= seen[reader[u].item] /\ seen[reader[u].item] \in Nat
    BY <2>1, OracleTypes DEF OracleInv, FreshRow
  <2>3. seen[reader[u].item] <= seen'[reader[u].item] /\ seen'[reader[u].item] \in Nat
    BY <2>1, <1>7
  <2> QED
    BY <2>1, <2>2, <2>3 DEF OracleInv, FreshRow, ReaderType
<1>12. MonotoneReads'
  BY <1>5, <1>6 DEF OracleInv, MonotoneReads
<1> QED
  BY <1>8, <1>9, <1>10, <1>11, <1>12 DEF OracleInv

(***************************************************************************)
(* A new item has been shown to nobody.                                    *)
(***************************************************************************)
LEMMA CreateLegendaryPreserves ==
    ASSUME OracleInv, CreateLegendary
    PROVE  OracleInv'
<1> DEFINE k == Len(price) + 1
<1>1. UNCHANGED <<cache, updater, reader, failures>>
  BY DEF CreateLegendary
<1>2. /\ price \in Seq(Nat) /\ quote \in Seq(Nat \ {0}) /\ seen \in Seq(Nat)
      /\ DOMAIN quote = DOMAIN price /\ DOMAIN seen = DOMAIN price
  BY DEF OracleInv, OracleTypeOK, Items
<1>3. Len(quote) = Len(price) /\ Len(seen) = Len(price) /\ k \notin Items
  BY <1>2 DEF Items
<1>4. /\ price' \in Seq(Nat) /\ Items' = Items \cup {k} /\ price'[k] = 0
      /\ \A i \in Items : price'[i] = price[i]
  BY <1>2, SMTT(30) DEF CreateLegendary, Items
<1>5. /\ quote' \in Seq(Nat \ {0}) /\ DOMAIN quote' = Items' /\ quote'[k] = 1
      /\ \A i \in Items : quote'[i] = quote[i]
  BY <1>2, <1>3, <1>4 DEF CreateLegendary, Items
<1>6. /\ seen' \in Seq(Nat) /\ DOMAIN seen' = Items' /\ seen'[k] = 0
      /\ \A i \in Items : seen'[i] = seen[i]
  BY <1>2, <1>3, <1>4 DEF CreateLegendary, Items
<1>7. DOMAIN cache \subseteq Items /\ k \notin DOMAIN cache
  BY <1>3, OracleTypes
<1>8. OracleTypeOK'
  <2>1. updater.left \in Seq(Items')
    <3>1. updater.left \in Seq(Items) /\ Items \subseteq Items'
      BY <1>4, OracleTypes DEF UpdaterType
    <3>2. Len(updater.left) \in Nat /\ updater.left \in [1..Len(updater.left) -> Items']
      BY <3>1
    <3> QED
      BY <3>2
  <2> QED
    BY <1>1, <1>4, <1>5, <1>6, <1>7, <2>1 DEF OracleInv, OracleTypeOK, UpdaterType
<1>9. NothingToLose'
  BY <1>1, <1>4, <1>5, <1>7, SMTT(30) DEF OracleInv, NothingToLose
<1>10. NothingForgotten'
  BY <1>1, <1>4, <1>6, <1>7, SMTT(30) DEF OracleInv, NothingForgotten, Showing, Shown
<1>11. InHand'
  <2>1. updater.pc # "rest" => Current \in Items
    BY AtHand
  <2> QED
    BY <1>1, <1>4, <1>5, <2>1 DEF OracleInv, InHand, Current
<1>12. FreshRow'
  <2>1. \A r \in Readers : reader[r].pc # "idle" => reader[r].item \in Items
    BY OracleTypes
  <2> QED
    BY <1>1, <1>4, <1>6, <2>1 DEF OracleInv, FreshRow
<1>13. MonotoneReads'
  BY <1>1 DEF OracleInv, MonotoneReads
<1> QED
  BY <1>8, <1>9, <1>10, <1>11, <1>12, <1>13 DEF OracleInv

(***************************************************************************)
(* A new quotation does not touch what the market knows.                   *)
(***************************************************************************)
LEMMA RequotePreserves ==
    ASSUME OracleInv, NEW i \in Items, Requote(i)
    PROVE  OracleInv'
<1>1. UNCHANGED <<price, cache, updater, reader, seen, failures>>
  BY DEF Requote
<1>2. quote \in Seq(Nat \ {0}) /\ DOMAIN quote = Items /\ i \in 1..Len(quote)
  BY SMTT(30) DEF OracleInv, OracleTypeOK
<1>3. quote[i] + 1 \in Nat \ {0} /\ quote[i] \in Nat
  BY OracleTypes
<1>4. quote' = [quote EXCEPT ![i] = quote[i] + 1]
  BY DEF Requote
<1>5. quote' \in Seq(Nat \ {0}) /\ DOMAIN quote' = Items
  BY <1>2, <1>3, <1>4, ExceptSeq
<1>6. \A k \in Items : quote'[k] \in Nat /\ quote[k] \in Nat /\ quote[k] <= quote'[k]
  BY <1>2, <1>3, <1>4, OracleTypes
<1>7. OracleTypeOK'
  BY <1>1, <1>5 DEF OracleInv, OracleTypeOK, Items
<1>8. NothingToLose'
  <2>1. \A k \in Items : price[k] \in Nat /\ price[k] <= quote[k]
    BY OracleTypes DEF OracleInv, NothingToLose
  <2> QED
    BY <1>1, <1>6, <2>1 DEF OracleInv, NothingToLose, Items
<1>9. InHand'
  <2>1. CASE updater.pc = "persist"
    <3>1. Current \in Items /\ updater.answer \in Nat
      BY <2>1, AtHand, OracleTypes DEF UpdaterType
    <3>2. updater.answer <= quote[Current]
      BY <2>1 DEF OracleInv, InHand
    <3>3. updater.answer <= quote'[Current]
      BY <3>1, <3>2, <1>6
    <3> QED
      BY <1>1, <2>1, <3>3 DEF OracleInv, InHand, Current
  <2>2. CASE updater.pc # "persist"
    BY <1>1, <2>2 DEF OracleInv, InHand, Current
  <2> QED
    BY <2>1, <2>2
<1>10. (NothingForgotten /\ FreshRow /\ MonotoneReads)'
  BY <1>1 DEF OracleInv, NothingForgotten, FreshRow, MonotoneReads, Items, Showing, Shown
<1> QED
  BY <1>7, <1>8, <1>9, <1>10 DEF OracleInv

(***************************************************************************)
(* The cache is lost; the table shows nothing older.                       *)
(***************************************************************************)
LEMMA RestartServerPreserves ==
    ASSUME OracleInv, RestartServer
    PROVE  OracleInv'
<1>1. UNCHANGED <<price, quote, seen>> /\ DOMAIN cache' = {}
  BY DEF RestartServer
<1>2. reader' = [r \in Readers |-> NoRead] /\ updater' = Resting
  BY DEF RestartServer
<1>3. failures' \in Nat
  BY DEF RestartServer, Fails, OracleInv, OracleTypeOK
<1>4. OracleTypeOK'
  BY <1>1, <1>2, <1>3 DEF OracleInv, OracleTypeOK, Items, NoRead, Resting
<1>5. NothingToLose'
  BY <1>1 DEF OracleInv, NothingToLose, Items
<1>6. NothingForgotten'
  <2>1. \A i \in Items : seen[i] <= Showing(i) /\ Showing(i) <= price[i] /\ Showing(i) \in Nat
    BY ShowingBounds
  <2>2. \A i \in Items : seen[i] <= price[i]
    BY <2>1, OracleTypes
  <2> QED
    BY <1>1, <2>2 DEF NothingForgotten, Items, Showing, Shown
<1>7. InHand' /\ FreshRow' /\ MonotoneReads'
  BY <1>2 DEF InHand, FreshRow, MonotoneReads, NoRead, Resting
<1> QED
  BY <1>4, <1>5, <1>6, <1>7 DEF OracleInv

-----------------------------------------------------------------------------
(* The theorems.                                                           *)

(***************************************************************************)
(* At first nothing has been shown.                                        *)
(***************************************************************************)
LEMMA OracleInvInit == OracleAssumption /\ OracleInit => OracleInv
<1> SUFFICES ASSUME OracleAssumption, OracleInit
             PROVE  OracleInv
  OBVIOUS
<1>1. SeedItems \in Nat /\ Items = 1..SeedItems /\ DOMAIN cache = {}
  BY DEF OracleAssumption, OracleInit, Items
<1>2. price \in Seq(Nat) /\ quote \in Seq(Nat \ {0}) /\ seen \in Seq(Nat)
  BY <1>1 DEF OracleInit
<1>3. \A i \in Items : price[i] = 0 /\ quote[i] = 1 /\ seen[i] = 0
  BY <1>1 DEF OracleInit
<1>4. OracleTypeOK
  BY <1>1, <1>2 DEF OracleInit, OracleTypeOK, NoRead, Resting
<1>5. NothingToLose /\ NothingForgotten
  BY <1>1, <1>3 DEF NothingToLose, NothingForgotten, Showing, Shown
<1>6. InHand /\ FreshRow /\ MonotoneReads
  BY DEF OracleInit, InHand, FreshRow, MonotoneReads, NoRead, Resting
<1> QED
  BY <1>4, <1>5, <1>6 DEF OracleInv

(***************************************************************************)
(* The inductive invariant of the price oracle.                            *)
(***************************************************************************)
THEOREM OracleInvariant == OracleSpec => []OracleInv
<1>1. OracleInit => OracleInv
  BY OracleInvInit, OracleAssumption
<1>2. OracleInv /\ [OracleNext]_oracleVars => OracleInv'
  <2> SUFFICES ASSUME OracleInv, [OracleNext]_oracleVars
               PROVE  OracleInv'
    OBVIOUS
  <2> USE OracleAssumption
  <2>1. CASE StartTick
    BY <2>1, StartTickPreserves
  <2>2. CASE Quoted
    <3>1. updater.pc = "fetch" /\ Answered(quote[Current]) /\ failures' \in Nat
      BY <2>2 DEF Quoted, OracleInv, OracleTypeOK
    <3> QED
      BY <3>1, AnsweredPreserves
  <2>3. CASE NotQuoted
    <3>1. updater.pc = "fetch" /\ Answered(0) /\ failures' \in Nat
      BY <2>3, SMTT(30) DEF NotQuoted, Fails, OracleInv, OracleTypeOK
    <3> QED
      BY <3>1, AnsweredPreserves
  <2>4. CASE Persist
    BY <2>4, PersistPreserves
  <2>5. CASE PersistFails
    BY <2>5, PersistFailsPreserves
  <2>6. CASE SetCache
    BY <2>6, SetCachePreserves
  <2>7. ASSUME NEW r \in Readers, ReadRow(r)
        PROVE  OracleInv'
    BY <2>7, ReadRowPreserves
  <2>8. ASSUME NEW r \in Readers, ReadCache(r)
        PROVE  OracleInv'
    BY <2>8, ReadCachePreserves
  <2>9. ASSUME NEW r \in Readers, NEW i \in Items, BeginRead(r, i)
        PROVE  OracleInv'
    BY <2>9, BeginReadPreserves
  <2>10. CASE CreateLegendary
    BY <2>10, CreateLegendaryPreserves
  <2>11. ASSUME NEW i \in Items, Requote(i)
         PROVE  OracleInv'
    BY <2>11, RequotePreserves
  <2>12. CASE RestartServer
    BY <2>12, RestartServerPreserves
  <2>13. CASE UNCHANGED oracleVars
    BY <2>13 DEF oracleVars, OracleInv, OracleTypeOK, NothingToLose, NothingForgotten, InHand,
       FreshRow, MonotoneReads, Items, Current, Showing, Shown
  <2> QED
    BY <2>1, <2>2, <2>3, <2>4, <2>5, <2>6, <2>7, <2>8, <2>9, <2>10, <2>11, <2>12, <2>13
    DEF OracleNext, UpdaterStep
<1> QED
  BY <1>1, <1>2, PTL DEF OracleSpec

(***************************************************************************)
(* Rows, cache and updater hold what their types say, for any constants.   *)
(***************************************************************************)
THEOREM OracleTypesCorrect == OracleSpec => []OracleTypeOK
<1>1. OracleInv => OracleTypeOK
  BY DEF OracleInv
<1> QED
  BY <1>1, OracleInvariant, PTL

(***************************************************************************)
(* The cache is never ahead of the table (refreshItem's order of writes).  *)
(***************************************************************************)
THEOREM NothingIsLost == OracleSpec => []NothingToLose
<1>1. OracleInv => NothingToLose
  BY DEF OracleInv
<1> QED
  BY <1>1, OracleInvariant, PTL

(***************************************************************************)
(* No request shows an older price than one that ended before it began.    *)
(***************************************************************************)
THEOREM ReadsAreMonotone == OracleSpec => []MonotoneReads
<1>1. OracleInv => MonotoneReads
  BY DEF OracleInv
<1> QED
  BY <1>1, OracleInvariant, PTL
=============================================================================
