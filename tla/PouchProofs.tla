---------------------------- MODULE PouchProofs ----------------------------
(***************************************************************************)
(* Lemmas about the gold_pouches table: each GoldPouchService operation,   *)
(* COMMIT and ROLLBACK preserve PouchInv, from which Solvency and          *)
(* Reconciled follow.  They are stated for any transaction over the table, *)
(* so that every service built on it can use them.                         *)
(***************************************************************************)
EXTENDS PouchTable, TLAPS

AddLog(l, m) == [type \in TransactionType |-> l[type] + m[type]]

\* Every row a transaction may read or commit is within the CHECK constraints.
RowsSolvent == \A g \in Guilds : SolventPouch(pouch[g]) /\ SolventPouch(draft[g])

(***************************************************************************)
(* The books behind Reconciled: the committed row agrees with the          *)
(* committed log; the row a lock holder has rewritten agrees with the log  *)
(* as it will be after its COMMIT; and only the lock holder has entries    *)
(* waiting.  The last two make COMMIT preserve the first.                  *)
(***************************************************************************)
BooksBalance ==
    /\ \A g \in Guilds : ReconciledPouch(pouch[g], log[g], InitialGold)
    /\ \A t \in Txs, g \in Guilds :
          IF holder[g] = t
          THEN ReconciledPouch(draft[g], AddLog(log[g], newLog[t][g]), InitialGold)
          ELSE newLog[t][g] = EmptyLog

PouchInv == PouchTypeOK /\ RowsSolvent /\ BooksBalance

-----------------------------------------------------------------------------
(* The operations on one row.                                              *)

(***************************************************************************)
(* Replacing fields of a row gives a row.                                  *)
(***************************************************************************)
LEMMA RowUpdate ==
    ASSUME NEW gp \in Pouch,
           NEW total \in Int, NEW reserved \in Int, NEW spent \in Int, NEW day \in Nat
    PROVE  /\ [gp EXCEPT !.spent = spent, !.day = day] \in Pouch
           /\ [gp EXCEPT !.total = total, !.reserved = reserved, !.spent = spent] \in Pouch
           /\ [gp EXCEPT !.total = total] \in Pouch
           /\ [gp EXCEPT !.reserved = reserved] \in Pouch
  BY DEF Pouch

(***************************************************************************)
(* The fields of a row are numbers.                                        *)
(***************************************************************************)
LEMMA RowFields ==
    ASSUME NEW gp \in Pouch
    PROVE  /\ gp.total \in Int /\ gp.reserved \in Int /\ gp.limit \in Nat
           /\ gp.spent \in Int /\ gp.day \in Nat
  BY DEF Pouch

(***************************************************************************)
(* The daily reset touches spent_today and last_reset_date only.           *)
(***************************************************************************)
LEMMA ResetFields ==
    ASSUME NEW gp \in Pouch, NEW date \in Nat
    PROVE  LET r == ResetIfNewDay(gp, date)
           IN  /\ r \in Pouch
               /\ r.total = gp.total /\ r.reserved = gp.reserved /\ r.limit = gp.limit
               /\ r.spent = (IF gp.day = date THEN gp.spent ELSE 0)
<1>1. CASE gp.day = date
  BY <1>1, RowFields DEF ResetIfNewDay
<1>2. CASE gp.day # date
  <2> DEFINE r == [gp EXCEPT !.spent = 0, !.day = date]
  <2>1. 0 \in Int /\ gp.total \in Int /\ gp.reserved \in Int
    BY RowFields
  <2>2. r \in Pouch
    BY <2>1, RowUpdate, Zenon
  <2>3. r.total = gp.total /\ r.reserved = gp.reserved /\ r.limit = gp.limit /\ r.spent = 0
    BY DEF Pouch
  <2>4. ResetIfNewDay(gp, date) = r
    BY <1>2 DEF ResetIfNewDay
  <2> QED
    BY <1>2, <2>2, <2>3, <2>4
<1> QED
  BY <1>1, <1>2

(***************************************************************************)
(* What Reserve writes; a solvent row stays solvent if its checks passed.  *)
(***************************************************************************)
LEMMA ReserveRow ==
    ASSUME NEW gp \in Pouch, NEW amount \in Nat, NEW date \in Nat
    PROVE  LET r == Reserve(gp, amount, date)
           IN  /\ r \in Pouch
               /\ r.total = gp.total /\ r.reserved = gp.reserved + amount
               /\ SolventPouch(gp) /\ ReserveOK(gp, amount, date) => SolventPouch(r)
<1> DEFINE q == ResetIfNewDay(gp, date)
           r == Reserve(gp, amount, date)
<1>1. /\ q \in Pouch
      /\ q.total = gp.total /\ q.reserved = gp.reserved /\ q.limit = gp.limit
      /\ q.spent = (IF gp.day = date THEN gp.spent ELSE 0)
  BY ResetFields
<1>2. q.total \in Int /\ q.reserved + amount \in Int /\ q.spent \in Int /\ q.limit \in Nat
  BY <1>1, RowFields
<1>3. r = [q EXCEPT !.reserved = q.reserved + amount]
  BY DEF Reserve
<1> HIDE DEF q, r
<1>4. r \in Pouch
  BY <1>1, <1>2, <1>3, RowUpdate
<1>5. /\ r.total = q.total /\ r.reserved = q.reserved + amount
      /\ r.limit = q.limit /\ r.spent = q.spent
  BY <1>1, <1>3 DEF Pouch
<1>6. ASSUME SolventPouch(gp), ReserveOK(gp, amount, date)
      PROVE  SolventPouch(r)
  BY <1>1, <1>2, <1>5, <1>6, RowFields DEF SolventPouch, ReserveOK, UsableBalance
<1> QED
  BY <1>1, <1>4, <1>5, <1>6 DEF r

(***************************************************************************)
(* What Release writes.                                                    *)
(***************************************************************************)
LEMMA ReleaseRow ==
    ASSUME NEW gp \in Pouch, NEW amount \in Nat
    PROVE  LET r == Release(gp, amount)
           IN  /\ r \in Pouch
               /\ r.total = gp.total /\ r.reserved = gp.reserved - amount
               /\ SolventPouch(gp) /\ ReleaseOK(gp, amount) => SolventPouch(r)
<1> DEFINE r == Release(gp, amount)
<1>1. gp.total \in Int /\ gp.reserved - amount \in Int /\ gp.spent \in Int /\ gp.limit \in Nat
  BY RowFields
<1>2. r = [gp EXCEPT !.reserved = gp.reserved - amount]
  BY SMTT(30) DEF Release
<1> HIDE DEF r
<1>3. r \in Pouch
  BY <1>1, <1>2, RowUpdate
<1>4. /\ r.total = gp.total /\ r.reserved = gp.reserved - amount
      /\ r.limit = gp.limit /\ r.spent = gp.spent
  BY <1>2 DEF Pouch
<1>5. ASSUME SolventPouch(gp), ReleaseOK(gp, amount)
      PROVE  SolventPouch(r)
  BY <1>1, <1>4, <1>5, RowFields DEF SolventPouch, ReleaseOK
<1> QED
  BY <1>3, <1>4, <1>5 DEF r

(***************************************************************************)
(* What Settle writes.                                                     *)
(***************************************************************************)
LEMMA SettleRow ==
    ASSUME NEW gp \in Pouch, NEW amount \in Nat, NEW date \in Nat, NEW type
    PROVE  LET r == Settle(gp, amount, date)
           IN  /\ r \in Pouch
               /\ r.total = gp.total - amount /\ r.reserved = gp.reserved - amount
               /\ SolventPouch(gp) /\ SettleOK(gp, amount, type, date) => SolventPouch(r)
<1> DEFINE q == ResetIfNewDay(gp, date)
           r == Settle(gp, amount, date)
<1>1. /\ q \in Pouch
      /\ q.total = gp.total /\ q.reserved = gp.reserved /\ q.limit = gp.limit
      /\ q.spent = (IF gp.day = date THEN gp.spent ELSE 0)
  BY ResetFields
<1>2. /\ q.total - amount \in Int /\ q.reserved - amount \in Int
      /\ q.spent + amount \in Int /\ q.limit \in Nat
  BY <1>1, RowFields
<1>3. r = [q EXCEPT !.total = q.total - amount, !.reserved = q.reserved - amount,
                    !.spent = q.spent + amount]
  BY DEF Settle
<1>4. SettleOK(gp, amount, type, date) => gp.reserved >= amount /\ q.spent + amount <= gp.limit
  BY SMTT(30) DEF SettleOK, WithinDailyLimit
<1> HIDE DEF q, r
<1>5. r \in Pouch
  BY <1>1, <1>2, <1>3, RowUpdate
<1>6. /\ r.total = q.total - amount /\ r.reserved = q.reserved - amount
      /\ r.limit = q.limit /\ r.spent = q.spent + amount
  BY <1>1, <1>3 DEF Pouch
<1>7. ASSUME SolventPouch(gp), SettleOK(gp, amount, type, date)
      PROVE  SolventPouch(r)
  BY <1>1, <1>2, <1>4, <1>6, <1>7, RowFields DEF SolventPouch
<1> QED
  BY <1>1, <1>5, <1>6, <1>7 DEF r

(***************************************************************************)
(* What Credit writes.                                                     *)
(***************************************************************************)
LEMMA CreditRow ==
    ASSUME NEW gp \in Pouch, NEW amount \in Nat
    PROVE  LET r == Credit(gp, amount)
           IN  /\ r \in Pouch
               /\ r.total = gp.total + amount /\ r.reserved = gp.reserved
               /\ SolventPouch(gp) => SolventPouch(r)
<1> DEFINE r == Credit(gp, amount)
<1>1. gp.total + amount \in Int /\ gp.reserved \in Int /\ gp.spent \in Int /\ gp.limit \in Nat
  BY RowFields
<1>2. r = [gp EXCEPT !.total = gp.total + amount]
  BY SMTT(30) DEF Credit
<1> HIDE DEF r
<1>3. r \in Pouch
  BY <1>1, <1>2, RowUpdate
<1>4. /\ r.total = gp.total + amount /\ r.reserved = gp.reserved
      /\ r.limit = gp.limit /\ r.spent = gp.spent
  BY <1>2 DEF Pouch
<1>5. ASSUME SolventPouch(gp)
      PROVE  SolventPouch(r)
  BY <1>1, <1>4, <1>5, RowFields DEF SolventPouch
<1> QED
  BY <1>3, <1>4, <1>5 DEF r

-----------------------------------------------------------------------------
(* The operations on the table.                                            *)

(***************************************************************************)
(* The sum of two logs, and an entry added to one of them.                 *)
(***************************************************************************)
LEMMA LogSums ==
    ASSUME NEW l \in Log, NEW m \in Log, NEW type \in TransactionType, NEW amount \in Nat
    PROVE  /\ AddLog(l, m) \in Log
           /\ writeLog(m, type, amount) \in Log
           /\ AddLog(l, writeLog(m, type, amount)) = writeLog(AddLog(l, m), type, amount)
           /\ AddLog(l, EmptyLog) = l
           /\ EmptyLog \in Log
<1>1. /\ AddLog(l, m) \in Log /\ EmptyLog \in Log
      /\ \A k \in Log : writeLog(k, type, amount) \in Log
  BY DEF Log, AddLog, writeLog, EmptyLog
<1>2. AddLog(l, writeLog(m, type, amount)) = writeLog(AddLog(l, m), type, amount)
  <2>1. /\ AddLog(l, writeLog(m, type, amount)) \in Log
        /\ writeLog(AddLog(l, m), type, amount) \in Log
    <3>1. \A k \in Log : AddLog(l, k) \in Log
      BY DEF Log, AddLog
    <3> QED
      BY <1>1, <3>1
  <2>2. \A x \in TransactionType :
          AddLog(l, writeLog(m, type, amount))[x] = writeLog(AddLog(l, m), type, amount)[x]
    BY DEF Log, AddLog, writeLog
  <2> QED
    BY <2>1, <2>2 DEF Log
<1>3. AddLog(l, EmptyLog) = l
  <2>1. \A x \in TransactionType : l[x] + 0 = l[x]
    BY DEF Log
  <2>2. \A x \in TransactionType : AddLog(l, EmptyLog)[x] = l[x]
    BY <2>1 DEF AddLog, EmptyLog
  <2>3. AddLog(l, EmptyLog) \in Log
    BY <2>1 DEF AddLog, EmptyLog, Log
  <2> QED
    BY <2>2, <2>3 DEF Log
<1> QED
  BY <1>1, <1>2, <1>3

(***************************************************************************)
(* Rewriting a row under its lock, with the matching log entry, preserves  *)
(* PouchInv.  The row the holder saw is reconciled with its view of the    *)
(* log because nobody else can have entries waiting.                       *)
(***************************************************************************)
LEMMA WriteRowPreserves ==
    ASSUME PouchInv, PouchTableAssumption,
           NEW t \in Txs, NEW g \in Guilds, NEW gp \in Pouch,
           NEW type \in TransactionType, NEW amount \in Nat,
           RowFree(t, g), WriteRow(t, g, gp, type, amount), UNCHANGED clockVars,
           SolventPouch(gp),
           \A l \in Log : ReconciledPouch(SeenRow(t, g), l, InitialGold) =>
                             ReconciledPouch(gp, writeLog(l, type, amount), InitialGold)
    PROVE  PouchInv'
<1> DEFINE l == AddLog(log[g], newLog[t][g])
<1>1. /\ log[g] \in Log /\ newLog[t][g] \in Log /\ l \in Log
      /\ newLog[t] \in [Guilds -> Log]
  BY LogSums DEF PouchInv, PouchTypeOK
<1>2. newLog' = [newLog EXCEPT ![t] = [newLog[t] EXCEPT ![g] = writeLog(newLog[t][g], type, amount)]]
  BY DEF WriteRow, Entry
<1>3. writeLog(newLog[t][g], type, amount) \in Log
  BY <1>1, LogSums
<1>4. PouchTypeOK'
  BY <1>1, <1>2, <1>3 DEF PouchInv, PouchTypeOK, WriteRow, clockVars
<1>5. RowsSolvent'
  BY DEF PouchInv, PouchTypeOK, RowsSolvent, WriteRow
<1>6. ReconciledPouch(SeenRow(t, g), l, InitialGold)
  <2>1. CASE holder[g] = t
    BY <2>1 DEF PouchInv, BooksBalance, SeenRow
  <2>2. CASE holder[g] # t
    BY <1>1, <2>2, LogSums DEF PouchInv, BooksBalance, SeenRow
  <2> QED
    BY <2>1, <2>2
<1>7. ReconciledPouch(gp, AddLog(log[g], writeLog(newLog[t][g], type, amount)), InitialGold)
  BY <1>1, <1>6, LogSums
<1>8. BooksBalance'
  <2>1. \A h \in Guilds : ReconciledPouch(pouch'[h], log'[h], InitialGold)
    BY DEF WriteRow, PouchInv, BooksBalance
  <2>2. ASSUME NEW u \in Txs, NEW h \in Guilds
        PROVE  IF holder'[h] = u
               THEN ReconciledPouch(draft'[h], AddLog(log'[h], newLog'[u][h]), InitialGold)
               ELSE newLog'[u][h] = EmptyLog
    <3>1. CASE h # g
      <4>1. holder'[h] = holder[h] /\ draft'[h] = draft[h] /\ log'[h] = log[h]
        BY <3>1 DEF WriteRow, PouchInv, PouchTypeOK
      <4>2. newLog'[u][h] = newLog[u][h]
        BY <1>2, <3>1 DEF PouchInv, PouchTypeOK
      <4> QED
        BY <4>1, <4>2 DEF PouchInv, BooksBalance
    <3>2. CASE h = g /\ u = t
      <4>1. holder'[h] = t /\ draft'[h] = gp /\ log'[h] = log[g]
        BY <3>2 DEF WriteRow, PouchInv, PouchTypeOK
      <4>2. newLog'[u][h] = writeLog(newLog[t][g], type, amount)
        BY <1>1, <1>2, <3>2 DEF PouchInv, PouchTypeOK
      <4> QED
        BY <1>7, <3>2, <4>1, <4>2
    <3>3. CASE h = g /\ u # t
      <4>1. holder'[h] = t /\ holder[h] # u
        BY <3>3 DEF WriteRow, PouchInv, PouchTypeOK, RowFree, PouchTableAssumption
      <4>2. newLog'[u][h] = newLog[u][h]
        BY <1>2, <3>3 DEF PouchInv, PouchTypeOK
      <4> QED
        BY <3>3, <4>1, <4>2 DEF PouchInv, BooksBalance
    <3> QED
      BY <3>1, <3>2, <3>3
  <2> QED
    BY <2>1, <2>2 DEF BooksBalance
<1> QED
  BY <1>4, <1>5, <1>8 DEF PouchInv

(***************************************************************************)
(* The row a transaction sees is one of the two versions.                  *)
(***************************************************************************)
LEMMA SeenRowIsSolvent ==
    ASSUME PouchInv, NEW t, NEW g \in Guilds
    PROVE  SeenRow(t, g) \in Pouch /\ SolventPouch(SeenRow(t, g))
  BY DEF PouchInv, PouchTypeOK, RowsSolvent, SeenRow

(***************************************************************************)
(* What an entry of each type adds to the sums.                            *)
(***************************************************************************)
LEMMA LogEntry ==
    ASSUME NEW l \in Log, NEW type \in TransactionType, NEW amount \in Nat
    PROVE  /\ \A x \in TransactionType : l[x] \in Int
           /\ writeLog(l, type, amount)[type] = l[type] + amount
           /\ \A x \in TransactionType \ {type} : writeLog(l, type, amount)[x] = l[x]
  BY DEF Log, writeLog

(***************************************************************************)
(* Reserve on the row under its lock.                                      *)
(***************************************************************************)
LEMMA ReservePreserves ==
    ASSUME PouchInv, PouchTableAssumption,
           NEW t \in Txs, NEW g \in Guilds, NEW amount \in Nat, RowFree(t, g),
           ReserveOK(SeenRow(t, g), amount, today),
           WriteRow(t, g, Reserve(SeenRow(t, g), amount, today), "RESERVE", amount),
           UNCHANGED clockVars
    PROVE  PouchInv'
<1> DEFINE row == SeenRow(t, g)
           r == Reserve(row, amount, today)
<1>1. row \in Pouch /\ SolventPouch(row) /\ today \in Nat
  BY SeenRowIsSolvent DEF PouchInv, PouchTypeOK
<1>2. r \in Pouch /\ r.total = row.total /\ r.reserved = row.reserved + amount /\ SolventPouch(r)
  BY <1>1, ReserveRow
<1> HIDE DEF row, r
<1>3. ASSUME NEW l \in Log, ReconciledPouch(row, l, InitialGold)
      PROVE  ReconciledPouch(r, writeLog(l, "RESERVE", amount), InitialGold)
  BY <1>1, <1>2, <1>3, LogEntry, RowFields DEF ReconciledPouch, Spent, TransactionType
<1> QED
  BY <1>2, <1>3, WriteRowPreserves DEF row, r, TransactionType

(***************************************************************************)
(* Release on the row under its lock.                                      *)
(***************************************************************************)
LEMMA ReleasePreserves ==
    ASSUME PouchInv, PouchTableAssumption,
           NEW t \in Txs, NEW g \in Guilds, NEW amount \in Nat, RowFree(t, g),
           ReleaseOK(SeenRow(t, g), amount),
           WriteRow(t, g, Release(SeenRow(t, g), amount), "RELEASE", amount),
           UNCHANGED clockVars
    PROVE  PouchInv'
<1> DEFINE row == SeenRow(t, g)
           r == Release(row, amount)
<1>1. row \in Pouch /\ SolventPouch(row)
  BY SeenRowIsSolvent
<1>2. r \in Pouch /\ r.total = row.total /\ r.reserved = row.reserved - amount /\ SolventPouch(r)
  BY <1>1, ReleaseRow
<1> HIDE DEF row, r
<1>3. ASSUME NEW l \in Log, ReconciledPouch(row, l, InitialGold)
      PROVE  ReconciledPouch(r, writeLog(l, "RELEASE", amount), InitialGold)
  BY <1>1, <1>2, <1>3, LogEntry, RowFields DEF ReconciledPouch, Spent, TransactionType
<1> QED
  BY <1>2, <1>3, WriteRowPreserves DEF row, r, TransactionType

(***************************************************************************)
(* Settle on the row under its lock, for a purchase or a won auction.      *)
(***************************************************************************)
LEMMA SettlePreserves ==
    ASSUME PouchInv, PouchTableAssumption,
           NEW t \in Txs, NEW g \in Guilds, NEW amount \in Nat, RowFree(t, g),
           NEW type \in {"PURCHASE", "AUCTION_WIN"},
           SettleOK(SeenRow(t, g), amount, type, today),
           WriteRow(t, g, Settle(SeenRow(t, g), amount, today), type, amount),
           UNCHANGED clockVars
    PROVE  PouchInv'
<1> DEFINE row == SeenRow(t, g)
           r == Settle(row, amount, today)
<1>1. row \in Pouch /\ SolventPouch(row) /\ today \in Nat
  BY SeenRowIsSolvent DEF PouchInv, PouchTypeOK
<1>2. /\ r \in Pouch /\ r.total = row.total - amount /\ r.reserved = row.reserved - amount
      /\ SolventPouch(r)
  BY <1>1, SettleRow
<1> HIDE DEF row, r
<1>3. ASSUME NEW l \in Log, ReconciledPouch(row, l, InitialGold)
      PROVE  ReconciledPouch(r, writeLog(l, type, amount), InitialGold)
  <2>1. CASE type = "PURCHASE"
    BY <1>1, <1>2, <1>3, <2>1, LogEntry, RowFields DEF ReconciledPouch, Spent, TransactionType
  <2>2. CASE type = "AUCTION_WIN"
    BY <1>1, <1>2, <1>3, <2>2, LogEntry, RowFields DEF ReconciledPouch, Spent, TransactionType
  <2> QED
    BY <2>1, <2>2
<1> QED
  BY <1>2, <1>3, WriteRowPreserves DEF row, r, TransactionType

(***************************************************************************)
(* Credit on the row under its lock.                                       *)
(***************************************************************************)
LEMMA CreditPreserves ==
    ASSUME PouchInv, PouchTableAssumption,
           NEW t \in Txs, NEW g \in Guilds, NEW amount \in Nat, RowFree(t, g),
           WriteRow(t, g, Credit(SeenRow(t, g), amount), "CREDIT", amount),
           UNCHANGED clockVars
    PROVE  PouchInv'
<1> DEFINE row == SeenRow(t, g)
           r == Credit(row, amount)
<1>1. row \in Pouch /\ SolventPouch(row)
  BY SeenRowIsSolvent
<1>2. r \in Pouch /\ r.total = row.total + amount /\ r.reserved = row.reserved /\ SolventPouch(r)
  BY <1>1, CreditRow
<1> HIDE DEF row, r
<1>3. ASSUME NEW l \in Log, ReconciledPouch(row, l, InitialGold)
      PROVE  ReconciledPouch(r, writeLog(l, "CREDIT", amount), InitialGold)
  BY <1>1, <1>2, <1>3, LogEntry, RowFields DEF ReconciledPouch, Spent, TransactionType
<1> QED
  BY <1>2, <1>3, WriteRowPreserves DEF row, r, TransactionType

(***************************************************************************)
(* COMMIT makes the drafts of the lock holder the committed rows, and its  *)
(* entries part of the log; a transaction without locks has no entries.    *)
(***************************************************************************)
LEMMA CommitPreserves ==
    ASSUME PouchInv, PouchTableAssumption, NEW t \in Txs, CommitRows(t), UNCHANGED clockVars
    PROVE  PouchInv'
<1>1. \A g \in Guilds : log[g] \in Log /\ newLog[t][g] \in Log
  BY DEF PouchInv, PouchTypeOK
<1>2. /\ newLog' \in [Txs -> [Guilds -> Log]]
      /\ \A g \in Guilds : newLog'[t][g] = EmptyLog
      /\ \A u \in Txs \ {t}, g \in Guilds : newLog'[u][g] = newLog[u][g]
  <2>1. EmptyLog \in Log
    BY DEF EmptyLog, Log
  <2>2. NoEntries \in [Guilds -> Log] /\ \A g \in Guilds : NoEntries[g] = EmptyLog
    BY <2>1 DEF NoEntries
  <2> QED
    BY <2>2 DEF CommitRows, PouchInv, PouchTypeOK
<1>3. /\ log' \in [Guilds -> Log]
      /\ \A g \in Guilds : log'[g] = AddLog(log[g], newLog[t][g])
  <2>1. log' = [g \in Guilds |-> AddLog(log[g], newLog[t][g])]
    BY DEF CommitRows, AddLog
  <2>2. \A g \in Guilds : AddLog(log[g], newLog[t][g]) \in Log
    BY <1>1 DEF AddLog, Log
  <2> QED
    BY <2>1, <2>2
<1>4. \A g \in Guilds :
         IF holder[g] = t THEN pouch'[g] = draft[g] /\ holder'[g] = None
                          ELSE pouch'[g] = pouch[g] /\ holder'[g] = holder[g]
  BY DEF CommitRows
<1>5. PouchTypeOK'
  BY <1>2, <1>3 DEF PouchInv, PouchTypeOK, CommitRows, clockVars
<1>6. RowsSolvent'
  BY <1>4 DEF PouchInv, RowsSolvent, CommitRows
<1>7. ASSUME NEW g \in Guilds
      PROVE  ReconciledPouch(pouch'[g], log'[g], InitialGold)
  <2>1. CASE holder[g] = t
    BY <1>3, <1>4, <2>1 DEF PouchInv, BooksBalance
  <2>2. CASE holder[g] # t
    <3>1. log'[g] = AddLog(log[g], EmptyLog)
      BY <1>3, <2>2 DEF PouchInv, BooksBalance
    <3>2. AddLog(log[g], EmptyLog) = log[g]
      BY <1>1, LogSums DEF TransactionType
    <3> QED
      BY <1>4, <2>2, <3>1, <3>2 DEF PouchInv, BooksBalance
  <2> QED
    BY <2>1, <2>2
<1>8. ASSUME NEW u \in Txs, NEW g \in Guilds
      PROVE  IF holder'[g] = u
             THEN ReconciledPouch(draft'[g], AddLog(log'[g], newLog'[u][g]), InitialGold)
             ELSE newLog'[u][g] = EmptyLog
  <2>1. CASE u = t
    BY <1>2, <1>4, <2>1 DEF PouchTableAssumption
  <2>2. CASE u # t /\ holder[g] = t
    BY <1>2, <1>4, <2>2 DEF PouchTableAssumption, PouchInv, BooksBalance
  <2>3. CASE u # t /\ holder[g] # t
    <3>1. log'[g] = log[g]
      <4>1. log'[g] = AddLog(log[g], EmptyLog)
        BY <1>3, <2>3 DEF PouchInv, BooksBalance
      <4>2. AddLog(log[g], EmptyLog) = log[g]
        BY <1>1, LogSums DEF TransactionType
      <4> QED
        BY <4>1, <4>2
    <3>2. holder'[g] = holder[g] /\ draft'[g] = draft[g] /\ newLog'[u][g] = newLog[u][g]
      BY <1>2, <1>4, <2>3 DEF CommitRows
    <3> QED
      BY <3>1, <3>2 DEF PouchInv, BooksBalance
  <2> QED
    BY <2>1, <2>2, <2>3
<1> QED
  BY <1>5, <1>6, <1>7, <1>8 DEF PouchInv, BooksBalance

(***************************************************************************)
(* ROLLBACK leaves the committed rows and the log alone.                   *)
(***************************************************************************)
LEMMA RollbackPreserves ==
    ASSUME PouchInv, PouchTableAssumption, NEW t \in Txs, RollbackRows(t), UNCHANGED clockVars
    PROVE  PouchInv'
<1>1. /\ newLog' \in [Txs -> [Guilds -> Log]]
      /\ \A g \in Guilds : newLog'[t][g] = EmptyLog
      /\ \A u \in Txs \ {t}, g \in Guilds : newLog'[u][g] = newLog[u][g]
  <2>1. EmptyLog \in Log
    BY DEF EmptyLog, Log
  <2>2. NoEntries \in [Guilds -> Log] /\ \A g \in Guilds : NoEntries[g] = EmptyLog
    BY <2>1 DEF NoEntries
  <2> QED
    BY <2>2 DEF RollbackRows, PouchInv, PouchTypeOK
<1>2. \A g \in Guilds :
         IF holder[g] = t THEN draft'[g] = pouch[g] /\ holder'[g] = None
                          ELSE draft'[g] = draft[g] /\ holder'[g] = holder[g]
  BY DEF RollbackRows
<1>3. pouch' = pouch /\ log' = log
  BY DEF RollbackRows
<1>4. PouchTypeOK'
  BY <1>1 DEF PouchInv, PouchTypeOK, RollbackRows, clockVars
<1>5. RowsSolvent'
  BY <1>2, <1>3 DEF PouchInv, RowsSolvent
<1>6. BooksBalance'
  BY <1>1, <1>2, <1>3 DEF PouchInv, BooksBalance, PouchTableAssumption
<1> QED
  BY <1>4, <1>5, <1>6 DEF PouchInv

(***************************************************************************)
(* So does the end of the server, which rolls back everything at once.     *)
(***************************************************************************)
LEMMA RollbackAllPreserves ==
    ASSUME PouchInv, PouchTableAssumption, RollbackAllRows, UNCHANGED clockVars
    PROVE  PouchInv'
<1>1. EmptyLog \in Log
  BY DEF EmptyLog, Log
<1>2. NoEntries \in [Guilds -> Log] /\ \A g \in Guilds : NoEntries[g] = EmptyLog
  BY <1>1 DEF NoEntries
<1>3. PouchTypeOK'
  BY <1>2 DEF PouchInv, PouchTypeOK, RollbackAllRows, clockVars
<1>4. RowsSolvent'
  BY DEF PouchInv, RowsSolvent, RollbackAllRows
<1>5. BooksBalance'
  BY <1>2 DEF PouchInv, BooksBalance, RollbackAllRows, PouchTableAssumption
<1> QED
  BY <1>3, <1>4, <1>5 DEF PouchInv

(***************************************************************************)
(* The seed migration establishes PouchInv, and time does not disturb it.  *)
(***************************************************************************)
LEMMA SeedEstablishes ==
    ASSUME PouchTableAssumption, PouchInit
    PROVE  PouchInv
<1>1. EmptyLog \in Log /\ \A type \in TransactionType : EmptyLog[type] = 0
  BY DEF EmptyLog, Log
<1>2. NoEntries \in [Guilds -> Log] /\ \A g \in Guilds : NoEntries[g] = EmptyLog
  BY <1>1 DEF NoEntries
<1>3. ASSUME NEW limit \in SpendingLimits
      PROVE  /\ SeedPouch(limit) \in Pouch /\ SolventPouch(SeedPouch(limit))
             /\ ReconciledPouch(SeedPouch(limit), EmptyLog, InitialGold)
  BY <1>1 DEF SeedPouch, Pouch, SolventPouch, ReconciledPouch, Spent, TransactionType,
              PouchTableAssumption
<1>4. PICK limit \in [Guilds -> SpendingLimits] : pouch = [g \in Guilds |-> SeedPouch(limit[g])]
  BY DEF PouchInit
<1>5. PouchTypeOK
  BY <1>2, <1>3, <1>4 DEF PouchInit, PouchTypeOK
<1>6. RowsSolvent
  BY <1>3, <1>4 DEF PouchInit, RowsSolvent
<1>7. BooksBalance
  BY <1>2, <1>3, <1>4 DEF PouchInit, BooksBalance, PouchTableAssumption
<1> QED
  BY <1>5, <1>6, <1>7 DEF PouchInv

(***************************************************************************)
(* Time does not touch the pouches.                                        *)
(***************************************************************************)
LEMMA ClockPreserves ==
    ASSUME PouchInv, AdvanceClock, UNCHANGED pouchVars, PouchTableAssumption
    PROVE  PouchInv'
  BY DEF PouchInv, PouchTypeOK, RowsSolvent, BooksBalance, AdvanceClock, pouchVars,
         PouchTableAssumption

(***************************************************************************)
(* What PouchInv is for.                                                   *)
(***************************************************************************)
LEMMA PouchInvImplies == PouchInv => Solvency /\ Reconciled
  BY DEF PouchInv, RowsSolvent, BooksBalance, Solvency, Reconciled

-----------------------------------------------------------------------------
(* The daily limit.                                                        *)

(***************************************************************************)
(* The row dp that a transaction is about to commit over gp, with the      *)
(* entries l: its date does not go back, and its counter has moved by what *)
(* the entries show as spent.                                              *)
(***************************************************************************)
MeteredRow(gp, dp, l, date) ==
    /\ gp.day <= dp.day /\ dp.day <= date
    /\ dp.spent = (IF dp.day = gp.day THEN gp.spent ELSE 0) + Spent(l)

Metered ==
    /\ \A g \in Guilds : pouch[g].day <= today
    /\ \A t \in Txs, g \in Guilds :
          holder[g] = t => MeteredRow(pouch[g], draft[g], newLog[t][g], today)

(***************************************************************************)
(* What an entry adds to the gold spent.                                   *)
(***************************************************************************)
LEMMA SpentEntry ==
    ASSUME NEW l \in Log, NEW type \in TransactionType, NEW amount \in Nat
    PROVE  /\ Spent(l) \in Int /\ Spent(EmptyLog) = 0
           /\ Spent(writeLog(l, type, amount)) =
                 Spent(l) + (IF type \in {"PURCHASE", "AUCTION_WIN"} THEN amount ELSE 0)
<1>1. Spent(l) \in Int /\ Spent(EmptyLog) = 0
  BY DEF Spent, Log, EmptyLog, TransactionType
<1>2. /\ l["PURCHASE"] \in Int /\ l["AUCTION_WIN"] \in Int
      /\ writeLog(l, type, amount)["PURCHASE"] =
            l["PURCHASE"] + (IF type = "PURCHASE" THEN amount ELSE 0)
      /\ writeLog(l, type, amount)["AUCTION_WIN"] =
            l["AUCTION_WIN"] + (IF type = "AUCTION_WIN" THEN amount ELSE 0)
  BY DEF Log, writeLog, TransactionType
<1> QED
  BY <1>1, <1>2 DEF Spent

(***************************************************************************)
(* What Reserve and Settle do to the date and to the counter, ...          *)
(***************************************************************************)
LEMMA ResettingRows ==
    ASSUME NEW gp \in Pouch, NEW amount \in Nat, NEW date \in Nat
    PROVE  /\ Reserve(gp, amount, date).day = date
           /\ Reserve(gp, amount, date).spent = (IF gp.day = date THEN gp.spent ELSE 0)
           /\ Settle(gp, amount, date).day = date
           /\ Settle(gp, amount, date).spent =
                 (IF gp.day = date THEN gp.spent ELSE 0) + amount
<1> DEFINE q == ResetIfNewDay(gp, date)
<1>1. q \in Pouch /\ q.spent = (IF gp.day = date THEN gp.spent ELSE 0)
  BY ResetFields
<1>2. q.day = date
  BY DEF ResetIfNewDay, Pouch
<1>3. Reserve(gp, amount, date) = [q EXCEPT !.reserved = q.reserved + amount]
  BY DEF Reserve
<1>4. Settle(gp, amount, date) = [q EXCEPT !.total = q.total - amount,
                                           !.reserved = q.reserved - amount,
                                           !.spent = q.spent + amount]
  BY DEF Settle
<1> HIDE DEF q
<1>5. /\ Reserve(gp, amount, date).day = q.day /\ Reserve(gp, amount, date).spent = q.spent
  BY <1>1, <1>3 DEF Pouch
<1>6. /\ Settle(gp, amount, date).day = q.day
      /\ Settle(gp, amount, date).spent = q.spent + amount
  BY <1>1, <1>4 DEF Pouch
<1> QED
  BY <1>1, <1>2, <1>5, <1>6

(***************************************************************************)
(* ... and what Release and Credit leave alone.                            *)
(***************************************************************************)
LEMMA OtherRows ==
    ASSUME NEW gp \in Pouch, NEW amount \in Nat
    PROVE  /\ Release(gp, amount).day = gp.day /\ Release(gp, amount).spent = gp.spent
           /\ Credit(gp, amount).day = gp.day /\ Credit(gp, amount).spent = gp.spent
<1>1. /\ Release(gp, amount) = [gp EXCEPT !.reserved = gp.reserved - amount]
      /\ Credit(gp, amount) = [gp EXCEPT !.total = gp.total + amount]
  BY DEF Release, Credit
<1> QED
  BY <1>1 DEF Pouch

(***************************************************************************)
(* What a transaction sees of a row is metered, too.                       *)
(***************************************************************************)
LEMMA SeenIsMetered ==
    ASSUME PouchInv, Metered, NEW t \in Txs, NEW g \in Guilds
    PROVE  /\ SeenRow(t, g) \in Pouch /\ pouch[g] \in Pouch /\ newLog[t][g] \in Log
           /\ today \in Nat
           /\ MeteredRow(pouch[g], SeenRow(t, g), newLog[t][g], today)
           /\ holder[g] # t => SeenRow(t, g) = pouch[g] /\ newLog[t][g] = EmptyLog
<1>1. /\ SeenRow(t, g) \in Pouch /\ pouch[g] \in Pouch /\ newLog[t][g] \in Log /\ today \in Nat
  BY SeenRowIsSolvent DEF PouchInv, PouchTypeOK
<1>2. holder[g] # t => SeenRow(t, g) = pouch[g] /\ newLog[t][g] = EmptyLog
  BY DEF SeenRow, PouchInv, BooksBalance
<1>3. MeteredRow(pouch[g], SeenRow(t, g), newLog[t][g], today)
  <2>1. CASE holder[g] = t
    BY <2>1 DEF SeenRow, Metered
  <2>2. CASE holder[g] # t
    <3>1. Spent(EmptyLog) = 0
      BY <1>1, SpentEntry DEF TransactionType
    <3>2. pouch[g].day \in Nat /\ pouch[g].spent \in Int /\ pouch[g].day <= today
      BY <1>1, RowFields DEF Metered
    <3> QED
      BY <1>2, <2>2, <3>1, <3>2 DEF MeteredRow
  <2> QED
    BY <2>1, <2>2
<1> QED
  BY <1>1, <1>2, <1>3

(***************************************************************************)
(* Rewriting a row under its lock.                                         *)
(***************************************************************************)
LEMMA WriteKeepsMetered ==
    ASSUME PouchInv, PouchTableAssumption, Metered, NEW t \in Txs, NEW g \in Guilds, NEW gp,
           NEW type \in TransactionType, NEW amount \in Nat,
           WriteRow(t, g, gp, type, amount), UNCHANGED clockVars,
           MeteredRow(pouch[g], gp, writeLog(newLog[t][g], type, amount), today)
    PROVE  Metered'
<1>1. newLog' = [newLog EXCEPT ![t] = [newLog[t] EXCEPT ![g] =
                                         writeLog(newLog[t][g], type, amount)]]
  BY DEF WriteRow, Entry
<1>2. UNCHANGED <<pouch, today>> /\ holder' = [holder EXCEPT ![g] = t]
      /\ draft' = [draft EXCEPT ![g] = gp]
  BY DEF WriteRow, clockVars
<1>3. ASSUME NEW u \in Txs, NEW h \in Guilds, holder'[h] = u
      PROVE  MeteredRow(pouch'[h], draft'[h], newLog'[u][h], today')
  <2>1. CASE h # g
    <3>1. holder[h] = u /\ draft'[h] = draft[h] /\ newLog'[u][h] = newLog[u][h]
      BY <1>1, <1>2, <1>3, <2>1 DEF PouchInv, PouchTypeOK
    <3> QED
      BY <1>2, <3>1 DEF Metered
  <2>2. CASE h = g
    <3>1. u = t /\ draft'[h] = gp /\ newLog'[u][h] = writeLog(newLog[t][g], type, amount)
      BY <1>1, <1>2, <1>3, <2>2 DEF PouchInv, PouchTypeOK
    <3> QED
      BY <1>2, <2>2, <3>1
  <2> QED
    BY <2>1, <2>2
<1> QED
  BY <1>2, <1>3 DEF Metered

(***************************************************************************)
(* Releasing and crediting, at any point of a transaction.                 *)
(***************************************************************************)
LEMMA OtherWriteIsMetered ==
    ASSUME PouchInv, PouchTableAssumption, Metered, NEW t \in Txs, NEW g \in Guilds,
           NEW amount \in Nat, UNCHANGED clockVars,
           \/ WriteRow(t, g, Release(SeenRow(t, g), amount), "RELEASE", amount)
           \/ WriteRow(t, g, Credit(SeenRow(t, g), amount), "CREDIT", amount)
    PROVE  Metered'
<1> DEFINE row == SeenRow(t, g)
           l == newLog[t][g]
<1>1. /\ row \in Pouch /\ l \in Log /\ MeteredRow(pouch[g], row, l, today)
  BY SeenIsMetered
<1>2. {"RELEASE", "CREDIT"} \subseteq TransactionType
  BY DEF TransactionType
<1> HIDE DEF row, l
<1>3. /\ Release(row, amount).day = row.day /\ Release(row, amount).spent = row.spent
      /\ Credit(row, amount).day = row.day /\ Credit(row, amount).spent = row.spent
      /\ Spent(writeLog(l, "RELEASE", amount)) = Spent(l)
      /\ Spent(writeLog(l, "CREDIT", amount)) = Spent(l)
  BY <1>1, <1>2, OtherRows, SpentEntry
<1>4. /\ MeteredRow(pouch[g], Release(row, amount), writeLog(l, "RELEASE", amount), today)
      /\ MeteredRow(pouch[g], Credit(row, amount), writeLog(l, "CREDIT", amount), today)
  BY <1>1, <1>3 DEF MeteredRow
<1> QED
  BY <1>2, <1>4, WriteKeepsMetered DEF row, l

(***************************************************************************)
(* Reserving and paying, by a transaction that has not paid from the row   *)
(* yet: had it, a midnight since then would reset the counter and leave    *)
(* the first payment in the log only.                                      *)
(***************************************************************************)
LEMMA FirstPaymentIsMetered ==
    ASSUME PouchInv, PouchTableAssumption, Metered, NEW t \in Txs, NEW g \in Guilds,
           NEW amount \in Nat, UNCHANGED clockVars, Spent(newLog[t][g]) = 0,
           \/ WriteRow(t, g, Reserve(SeenRow(t, g), amount, today), "RESERVE", amount)
           \/ \E type \in {"PURCHASE", "AUCTION_WIN"} :
                 WriteRow(t, g, Settle(SeenRow(t, g), amount, today), type, amount)
    PROVE  Metered'
<1> DEFINE row == SeenRow(t, g)
           l == newLog[t][g]
<1>1. /\ row \in Pouch /\ pouch[g] \in Pouch /\ l \in Log /\ today \in Nat
      /\ MeteredRow(pouch[g], row, l, today)
  BY SeenIsMetered
<1>2. {"RESERVE", "PURCHASE", "AUCTION_WIN"} \subseteq TransactionType
  BY DEF TransactionType
<1>3. Spent(l) = 0
  OBVIOUS
<1> HIDE DEF row, l
<1>4. /\ Spent(writeLog(l, "RESERVE", amount)) = 0
      /\ \A type \in {"PURCHASE", "AUCTION_WIN"} : Spent(writeLog(l, type, amount)) = amount
  BY <1>1, <1>2, <1>3, SpentEntry
<1>5. /\ row.day \in Nat /\ row.spent \in Int /\ pouch[g].day \in Nat /\ pouch[g].spent \in Int
  BY <1>1, RowFields
<1>6. /\ pouch[g].day <= row.day /\ row.day <= today
      /\ row.spent = IF row.day = pouch[g].day THEN pouch[g].spent ELSE 0
  BY <1>1, <1>3, <1>5 DEF MeteredRow
<1>7. /\ Reserve(row, amount, today).day = today /\ Settle(row, amount, today).day = today
      /\ Reserve(row, amount, today).spent = (IF today = pouch[g].day THEN pouch[g].spent ELSE 0)
      /\ Settle(row, amount, today).spent =
            (IF today = pouch[g].day THEN pouch[g].spent ELSE 0) + amount
  BY <1>1, <1>5, <1>6, ResettingRows, SMTT(30)
<1>8. /\ MeteredRow(pouch[g], Reserve(row, amount, today), writeLog(l, "RESERVE", amount), today)
      /\ \A type \in {"PURCHASE", "AUCTION_WIN"} :
            MeteredRow(pouch[g], Settle(row, amount, today), writeLog(l, type, amount), today)
  BY <1>1, <1>4, <1>5, <1>6, <1>7 DEF MeteredRow
<1> QED
  BY <1>2, <1>8, WriteKeepsMetered DEF row, l

\* What COMMIT does to the meter of g.
MeterStep(gp, gp2, l, l2) ==
    /\ gp.day <= gp2.day
    /\ gp2.spent = (IF gp2.day = gp.day THEN gp.spent ELSE 0) + Spent(l2) - Spent(l)

(***************************************************************************)
(* COMMIT publishes the metered rows together with their entries.          *)
(***************************************************************************)
LEMMA CommitIsMetered ==
    ASSUME PouchInv, PouchTableAssumption, Metered, NEW t \in Txs, CommitRows(t),
           UNCHANGED clockVars
    PROVE  /\ Metered'
           /\ \A g \in Guilds : MeterStep(pouch[g], pouch'[g], log[g], log'[g])
           /\ \A g \in Guilds : holder'[g] # t /\ holder'[g] \in {holder[g], None}
<1>1. \A g \in Guilds :
         /\ log[g] \in Log /\ newLog[t][g] \in Log /\ pouch[g] \in Pouch /\ draft[g] \in Pouch
         /\ log'[g] = AddLog(log[g], newLog[t][g])
         /\ IF holder[g] = t THEN pouch'[g] = draft[g] /\ holder'[g] = None
                             ELSE pouch'[g] = pouch[g] /\ holder'[g] = holder[g]
  BY DEF PouchInv, PouchTypeOK, CommitRows, AddLog
<1>2. today \in Nat /\ UNCHANGED <<today, draft>>
  BY DEF PouchInv, PouchTypeOK, CommitRows, clockVars
<1>3. ASSUME NEW g \in Guilds
      PROVE  MeterStep(pouch[g], pouch'[g], log[g], log'[g]) /\ pouch'[g].day <= today
  <2>1. /\ pouch[g].day \in Nat /\ pouch[g].spent \in Int /\ draft[g].day \in Nat
        /\ pouch[g].day <= today
    BY <1>1, RowFields DEF Metered
  <2>2. Spent(log[g]) \in Int /\ Spent(newLog[t][g]) \in Int /\ Spent(EmptyLog) = 0
    BY <1>1, SpentEntry DEF TransactionType
  <2>3. Spent(log'[g]) = Spent(log[g]) + Spent(newLog[t][g])
    <3>1. /\ log[g]["PURCHASE"] \in Int /\ log[g]["AUCTION_WIN"] \in Int
          /\ newLog[t][g]["PURCHASE"] \in Int /\ newLog[t][g]["AUCTION_WIN"] \in Int
      BY <1>1 DEF Log, TransactionType
    <3>2. /\ log'[g]["PURCHASE"] = log[g]["PURCHASE"] + newLog[t][g]["PURCHASE"]
          /\ log'[g]["AUCTION_WIN"] = log[g]["AUCTION_WIN"] + newLog[t][g]["AUCTION_WIN"]
      BY <1>1 DEF AddLog, TransactionType
    <3> QED
      BY <3>1, <3>2 DEF Spent
  <2>4. CASE holder[g] = t
    <3>1. MeteredRow(pouch[g], draft[g], newLog[t][g], today) /\ pouch'[g] = draft[g]
      BY <1>1, <2>4 DEF Metered
    <3> QED
      BY <2>1, <2>2, <2>3, <3>1 DEF MeteredRow, MeterStep
  <2>5. CASE holder[g] # t
    <3>1. newLog[t][g] = EmptyLog /\ pouch'[g] = pouch[g]
      BY <1>1, <2>5 DEF PouchInv, BooksBalance
    <3> QED
      BY <2>1, <2>2, <2>3, <3>1 DEF MeterStep
  <2> QED
    BY <2>4, <2>5
<1>4. ASSUME NEW u \in Txs, NEW g \in Guilds, holder'[g] = u
      PROVE  MeteredRow(pouch'[g], draft'[g], newLog'[u][g], today')
  <2>1. u # None
    BY DEF PouchTableAssumption
  <2>2. holder[g] = u /\ holder[g] # t /\ pouch'[g] = pouch[g]
    BY <1>1, <1>4, <2>1
  <2>3. newLog'[u] = newLog[u]
    BY <2>2 DEF CommitRows, PouchInv, PouchTypeOK
  <2> QED
    BY <1>2, <2>2, <2>3 DEF Metered
<1>5. \A g \in Guilds : holder'[g] # t /\ holder'[g] \in {holder[g], None}
  BY <1>1 DEF PouchTableAssumption
<1> QED
  BY <1>2, <1>3, <1>4, <1>5 DEF Metered

(***************************************************************************)
(* ROLLBACK leaves nothing behind.                                         *)
(***************************************************************************)
LEMMA RollbackIsMetered ==
    ASSUME PouchInv, PouchTableAssumption, Metered, NEW t \in Txs, RollbackRows(t),
           UNCHANGED clockVars
    PROVE  /\ Metered'
           /\ \A g \in Guilds : holder'[g] # t /\ holder'[g] \in {holder[g], None}
<1>1. \A g \in Guilds : IF holder[g] = t THEN holder'[g] = None
                        ELSE holder'[g] = holder[g] /\ draft'[g] = draft[g]
  BY DEF RollbackRows
<1>2. UNCHANGED <<today, pouch>>
  BY DEF RollbackRows, clockVars
<1>3. ASSUME NEW u \in Txs, NEW g \in Guilds, holder'[g] = u
      PROVE  MeteredRow(pouch'[g], draft'[g], newLog'[u][g], today')
  <2>1. u # None
    BY DEF PouchTableAssumption
  <2>2. holder[g] = u /\ u # t /\ draft'[g] = draft[g]
    BY <1>1, <1>3, <2>1
  <2>3. newLog'[u] = newLog[u]
    BY <2>2 DEF RollbackRows, PouchInv, PouchTypeOK
  <2> QED
    BY <1>2, <2>2, <2>3 DEF Metered
<1>4. \A g \in Guilds : holder'[g] # t /\ holder'[g] \in {holder[g], None}
  BY <1>1 DEF PouchTableAssumption
<1> QED
  BY <1>2, <1>3, <1>4 DEF Metered

\* What a step does to the meters.
Metering == \A g \in Guilds : MeterStep(pouch[g], pouch'[g], log[g], log'[g])

(***************************************************************************)
(* A step that leaves pouches and log alone does nothing to the meters.    *)
(***************************************************************************)
LEMMA NothingMetered ==
    ASSUME PouchInv, UNCHANGED <<pouch, log>>
    PROVE  Metering
<1>1. ASSUME NEW g \in Guilds
      PROVE  /\ pouch[g].day \in Nat /\ pouch[g].spent \in Int /\ Spent(log[g]) \in Int
  <2>1. pouch[g] \in Pouch /\ log[g] \in Log
    BY DEF PouchInv, PouchTypeOK
  <2> QED
    BY <2>1, RowFields, SpentEntry DEF TransactionType
<1> QED
  BY <1>1 DEF Metering, MeterStep

(***************************************************************************)
(* The clock and a restart do nothing to the meters, either.               *)
(***************************************************************************)
LEMMA OthersAreMetered ==
    ASSUME PouchInv, PouchTableAssumption, Metered,
           \/ AdvanceClock /\ UNCHANGED pouchVars
           \/ RollbackAllRows /\ UNCHANGED clockVars
           \/ UNCHANGED <<pouchVars, clockVars>>
    PROVE  Metered' /\ Metering
<1>1. CASE RollbackAllRows /\ UNCHANGED clockVars
  <2>1. UNCHANGED <<pouch, log, today>> /\ \A g \in Guilds : holder'[g] = None
    BY <1>1 DEF RollbackAllRows, clockVars
  <2> QED
    BY <2>1, NothingMetered DEF Metered, PouchTableAssumption
<1>2. CASE UNCHANGED pouchVars /\ (AdvanceClock \/ UNCHANGED clockVars)
  <2>1. /\ UNCHANGED <<pouch, draft, holder, log, newLog>>
        /\ today \in Nat /\ today' \in {today, today + 1}
    BY <1>2 DEF AdvanceClock, pouchVars, clockVars, PouchInv, PouchTypeOK
  <2>2. \A g \in Guilds : pouch[g].day \in Nat /\ draft[g].day \in Nat
    BY RowFields DEF PouchInv, PouchTypeOK
  <2>3. Metered'
    BY <2>1, <2>2 DEF Metered, MeteredRow
  <2> QED
    BY <2>1, <2>3, NothingMetered
<1> QED
  BY <1>1, <1>2
=============================================================================
