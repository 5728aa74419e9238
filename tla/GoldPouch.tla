----------------------------- MODULE GoldPouch -----------------------------
(***************************************************************************)
(* The four operations of GoldPouchService on one gold_pouches row, as     *)
(* pure operators: XxxOK is the conjunction of the checks the method makes *)
(* before it writes, Xxx is the row it writes.  The methods run inside the *)
(* caller's transaction and after SELECT ... FOR UPDATE, so they see and   *)
(* replace the whole row; who may run them when is the business of module  *)
(* PouchTable.                                                             *)
(*                                                                         *)
(* Every method ends with one entry in transaction_logs; the entries of a  *)
(* guild are represented by the sum of the amounts under each type.        *)
(***************************************************************************)
EXTENDS Integers

TransactionType == {"PURCHASE", "RESERVE", "RELEASE", "CREDIT", "AUCTION_WIN"}

Pouch == [total: Int, reserved: Int, limit: Nat, spent: Int, day: Nat]

Log == [TransactionType -> Int]

EmptyLog == [type \in TransactionType |-> 0]

\* usable_balance, the generated column.
UsableBalance(gp) == gp.total - gp.reserved

\* Mutant: the day's spending is forgotten on every access.
ResetIfNewDay_Always(gp, today) == [gp EXCEPT !.spent = 0, !.day = today]

\* The lazy daily reset: spent_today restarts when the stored date is not today.
ResetIfNewDay(gp, today) ==
    IF gp.day = today THEN gp ELSE [gp EXCEPT !.spent = 0, !.day = today]

\* Mutant: each amount is compared with the limit by itself.
WithinDailyLimit_Untracked(gp, amount, today) == amount <= gp.limit

WithinDailyLimit(gp, amount, today) ==
    ResetIfNewDay(gp, today).spent + amount <= gp.limit

writeLog(log, type, amount) == [log EXCEPT ![type] = @ + amount]

-----------------------------------------------------------------------------

\* Mutant: checks the balance against total_balance instead of usable_balance.
ReserveOK_TotalBalance(gp, amount, today) ==
    /\ amount > 0
    /\ gp.total >= amount
    /\ WithinDailyLimit(gp, amount, today)

ReserveOK(gp, amount, today) ==
    /\ amount > 0
    /\ UsableBalance(gp) >= amount
    /\ WithinDailyLimit(gp, amount, today)

Reserve(gp, amount, today) == [ResetIfNewDay(gp, today) EXCEPT !.reserved = @ + amount]

ReleaseOK(gp, amount) == amount > 0 /\ gp.reserved >= amount

Release(gp, amount) == [gp EXCEPT !.reserved = @ - amount]

\* Mutant: the daily limit was checked at the reservation, so not again.
SettleOK_NoLimit(gp, amount, type, today) ==
    /\ amount > 0
    /\ type \in {"PURCHASE", "AUCTION_WIN"}
    /\ gp.reserved >= amount

\* Mutant: asks for usable gold, though the amount is reserved.
SettleOK_Usable(gp, amount, type, today) ==
    /\ amount > 0
    /\ type \in {"PURCHASE", "AUCTION_WIN"}
    /\ UsableBalance(gp) >= amount
    /\ WithinDailyLimit(gp, amount, today)

SettleOK(gp, amount, type, today) ==
    /\ amount > 0
    /\ type \in {"PURCHASE", "AUCTION_WIN"}
    /\ gp.reserved >= amount
    /\ WithinDailyLimit(gp, amount, today)

\* Mutant: gives the reservation back instead of spending it.
Settle_KeepTotal(gp, amount, today) ==
    [ResetIfNewDay(gp, today) EXCEPT !.reserved = @ - amount, !.spent = @ + amount]

\* Mutant: the reservation is not taken back.
Settle_KeepReserved(gp, amount, today) ==
    [ResetIfNewDay(gp, today) EXCEPT !.total = @ - amount, !.spent = @ + amount]

Settle(gp, amount, today) ==
    [ResetIfNewDay(gp, today) EXCEPT !.total = @ - amount, !.reserved = @ - amount,
                                     !.spent = @ + amount]

CreditOK(amount) == amount > 0

Credit(gp, amount) == [gp EXCEPT !.total = @ + amount]

\* Mutant: the wallet shows spent_today as it is stored.
GetWallet_StoredSpent(gp, today) ==
    [usable |-> UsableBalance(gp), limit |-> gp.limit, spentToday |-> gp.spent]

\* What WalletService shows of a row (its own copy of the daily reset).
GetWallet(gp, today) ==
    [usable |-> UsableBalance(gp), limit |-> gp.limit,
     spentToday |-> IF gp.day # today THEN 0 ELSE gp.spent]

-----------------------------------------------------------------------------

(***************************************************************************)
(* What a row must satisfy: the CHECK constraints of the gold_pouches      *)
(* table, and spending within the limit.                                   *)
(***************************************************************************)
SolventPouch(gp) ==
    /\ 0 <= gp.reserved /\ gp.reserved <= gp.total
    /\ 0 <= gp.spent /\ gp.spent <= gp.limit

\* All the gold a log shows as paid.
Spent(log) == log["PURCHASE"] + log["AUCTION_WIN"]

\* The balances can be recomputed from the seed balance and the log alone.
ReconciledPouch(gp, log, seed) ==
    /\ gp.total = seed + log["CREDIT"] - Spent(log)
    /\ gp.reserved = log["RESERVE"] - log["RELEASE"] - Spent(log)
=============================================================================
