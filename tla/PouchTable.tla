----------------------------- MODULE PouchTable -----------------------------
(***************************************************************************)
(* The gold_pouches table as the transactions of the service see it, and   *)
(* the clock they read.  Postgres (READ COMMITTED) keeps for every row the *)
(* committed version and, while a transaction holds the row lock taken by  *)
(* SELECT ... FOR UPDATE, the version that transaction has written:        *)
(*                                                                         *)
(*     pouch[g]    the committed row of guild g                            *)
(*     draft[g]    the row as rewritten by the lock holder                 *)
(*     holder[g]   the transaction holding the row lock, or None           *)
(*                                                                         *)
(* A lock is only given back by COMMIT or ROLLBACK.  The rows of           *)
(* transaction_logs need no lock: log[g] is what was committed for g, and  *)
(* newLog[t][g] what t has inserted so far.                                *)
(***************************************************************************)
EXTENDS GoldPouch, FiniteSets

CONSTANTS Guilds,          \* guilds, each with one pouch (seed migration)
          Txs,             \* goroutines that run transactions
          None,            \* the null of every optional field
          InitialGold,     \* seeded total_balance, the same for all guilds
          SpendingLimits,  \* the limits the seed migration may draw
          MaxTime,         \* bound: clock ticks explored
          MaxDay           \* bound: UTC midnights explored

ASSUME PouchTableAssumption ==
    /\ None \notin Txs /\ None \notin Guilds
    /\ IsFiniteSet(Guilds)
    /\ InitialGold \in Nat
    /\ SpendingLimits \subseteq Nat
    /\ MaxTime \in Nat /\ MaxDay \in Nat

VARIABLES pouch, draft, holder, log, newLog,
          now,             \* the clock, in units small against an auction
          today            \* the UTC date of now

pouchVars == <<pouch, draft, holder, log, newLog>>
clockVars == <<now, today>>

SeedPouch(limit) ==
    [total |-> InitialGold, reserved |-> 0, limit |-> limit, spent |-> 0, day |-> 0]

NoEntries == [g \in Guilds |-> EmptyLog]

PouchInit ==
    /\ \E limit \in [Guilds -> SpendingLimits] :
          pouch = [g \in Guilds |-> SeedPouch(limit[g])]
    /\ draft = pouch
    /\ holder = [g \in Guilds |-> None]
    /\ log = NoEntries
    /\ newLog = [t \in Txs |-> NoEntries]
    /\ now = 0 /\ today = 0

\* Mutant: the row is read without FOR UPDATE, so nobody waits for it.
RowFree_NoForUpdate(t, g) == TRUE

\* SELECT ... FOR UPDATE returns only when no other transaction has the row.
RowFree(t, g) == holder[g] \in {None, t}

\* The version it returns: the transaction's own write, else the committed row.
SeenRow(t, g) == IF holder[g] = t THEN draft[g] ELSE pouch[g]

\* Mutant: the entry is not written.
Entry_Lost(t, g, type, amount) == newLog

\* Insert an entry into transaction_logs.
Entry(t, g, type, amount) == [newLog EXCEPT ![t][g] = writeLog(@, type, amount)]

\* Lock the row of g, UPDATE it to gp and log the operation.
WriteRow(t, g, gp, type, amount) ==
    /\ holder' = [holder EXCEPT ![g] = t]
    /\ draft' = [draft EXCEPT ![g] = gp]
    /\ newLog' = Entry(t, g, type, amount)
    /\ UNCHANGED <<pouch, log>>

CommitRows(t) ==
    /\ pouch' = [g \in Guilds |-> IF holder[g] = t THEN draft[g] ELSE pouch[g]]
    /\ holder' = [g \in Guilds |-> IF holder[g] = t THEN None ELSE holder[g]]
    /\ log' = [g \in Guilds |->
                 [type \in TransactionType |-> log[g][type] + newLog[t][g][type]]]
    /\ newLog' = [newLog EXCEPT ![t] = NoEntries]
    /\ UNCHANGED draft

RollbackRows(t) ==
    /\ draft' = [g \in Guilds |-> IF holder[g] = t THEN pouch[g] ELSE draft[g]]
    /\ holder' = [g \in Guilds |-> IF holder[g] = t THEN None ELSE holder[g]]
    /\ newLog' = [newLog EXCEPT ![t] = NoEntries]
    /\ UNCHANGED <<pouch, log>>

\* The server process dies: Postgres rolls every open transaction back.
RollbackAllRows ==
    /\ draft' = pouch
    /\ holder' = [g \in Guilds |-> None]
    /\ newLog' = [t \in Txs |-> NoEntries]
    /\ UNCHANGED <<pouch, log>>

\* Time passes; midnight may fall anywhere.
AdvanceClock ==
    /\ now < MaxTime
    /\ now' = now + 1
    /\ today' \in {d \in {today, today + 1} : d <= MaxDay}

-----------------------------------------------------------------------------

PouchTypeOK ==
    /\ pouch \in [Guilds -> Pouch]
    /\ draft \in [Guilds -> Pouch]
    /\ holder \in [Guilds -> Txs \cup {None}]
    /\ log \in [Guilds -> Log]
    /\ newLog \in [Txs -> [Guilds -> Log]]
    /\ now \in Nat /\ today \in Nat

(***************************************************************************)
(* No guild ever commits itself to more gold than it owns, and no guild    *)
(* spends more in a day than its limit: the CHECK constraints of           *)
(* gold_pouches never have to fire, whatever the interleaving of bids,     *)
(* cancellations, settlements and purchases on the same pouch.             *)
(***************************************************************************)
Solvency == \A g \in Guilds : SolventPouch(pouch[g])

(***************************************************************************)
(* The transaction log explains every balance: at any time each committed  *)
(* pouch equals the seed balance replayed through the logged amounts.      *)
(***************************************************************************)
Reconciled == \A g \in Guilds : ReconciledPouch(pouch[g], log[g], InitialGold)
=============================================================================
