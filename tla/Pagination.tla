----------------------------- MODULE Pagination -----------------------------
(***************************************************************************)
(* limit and offset in GET /auctions, which slices the ACTIVE auctions in  *)
(* Go, and in GET /items, where Postgres cuts the page.  Both parameters   *)
(* are whatever int the client sent; int is MinInt..MaxInt and wraps.      *)
(***************************************************************************)
EXTENDS Integers, Sequences, SequencesExt

CONSTANTS MaxInt,              \* 2^63 - 1
          defaultListLimit,
          MaxRows              \* bound: rows ever made

ASSUME PaginationAssumption ==
    /\ MaxInt \in Nat /\ defaultListLimit \in 1..MaxInt
    /\ MaxRows \in 0..MaxInt

MinInt == -MaxInt - 1
GoInt == MinInt..MaxInt

VARIABLES rows,                \* the ids of the rows, in order
          nextId,
          query,               \* the latest request
          slice,               \* the page cut in Go
          page                 \* the page cut by Postgres

pageVars == <<rows, nextId, query, slice, page>>

\* a + b for two ints.
Plus(a, b) ==
    LET sum == a + b
    IN  IF sum > MaxInt THEN sum - 2 * (MaxInt + 1)
        ELSE IF sum < MinInt THEN sum + 2 * (MaxInt + 1) ELSE sum

Limit(limit) == IF limit <= 0 THEN defaultListLimit ELSE limit

Offset(offset) == IF offset < 0 THEN 0 ELSE offset

\* Mutant: a sum that wraps is not noticed.
PageEnd_Wraps(n, limit, offset) ==
    IF Plus(offset, limit) > n THEN n ELSE Plus(offset, limit)

\* The index after the last row of the page.
PageEnd(n, limit, offset) ==
    LET end == Plus(offset, limit)
    IN  IF end > n \/ end < offset THEN n ELSE end

\* all[offset:end]
ListActiveAuctions(all, limit, offset) ==
    IF Offset(offset) >= Len(all) THEN <<>>
    ELSE SubSeq(all, Offset(offset) + 1, PageEnd(Len(all), Limit(limit), Offset(offset)))

\* ORDER BY id LIMIT limit OFFSET offset: Postgres' sum does not wrap.
ListItems(all, limit, offset) ==
    SubSeq(all, Offset(offset) + 1,
           IF Offset(offset) + Limit(limit) > Len(all) THEN Len(all)
           ELSE Offset(offset) + Limit(limit))

Init ==
    /\ rows = <<>> /\ nextId = 1
    /\ query = [limit |-> 0, offset |-> 0] /\ slice = <<>> /\ page = <<>>

AddRow ==
    /\ nextId <= MaxRows
    /\ rows' = Append(rows, nextId)
    /\ nextId' = nextId + 1
    /\ UNCHANGED <<query, slice, page>>

\* An auction is settled.
DropRow(k) ==
    /\ rows' = RemoveAt(rows, k)
    /\ UNCHANGED <<nextId, query, slice, page>>

Request(limit, offset) ==
    /\ query' = [limit |-> limit, offset |-> offset]
    /\ slice' = ListActiveAuctions(rows, limit, offset)
    /\ page' = ListItems(rows, limit, offset)
    /\ UNCHANGED <<rows, nextId>>

Next ==
    \/ AddRow
    \/ \E k \in DOMAIN rows : DropRow(k)
    \/ \E limit, offset \in GoInt : Request(limit, offset)

Spec == Init /\ [][Next]_pageVars

-----------------------------------------------------------------------------

\* The rows number offset + 1 to offset + limit, as far as there are any.
IsWindow(w, all, limit, offset) ==
    /\ Len(w) = IF offset >= Len(all) THEN 0
                ELSE IF limit <= Len(all) - offset THEN limit ELSE Len(all) - offset
    /\ \A j \in DOMAIN w : w[j] = all[offset + j]

(***************************************************************************)
(* Whatever ints a client sends, both endpoints answer with the same       *)
(* window of the rows, and slicing in Go never runs out of the slice, also *)
(* where offset + limit wraps.                                             *)
(***************************************************************************)
PageIsWindow ==
    [][rows' = rows =>
         LET limit == Limit(query'.limit)
             offset == Offset(query'.offset)
         IN  IsWindow(slice', rows, limit, offset) /\ IsWindow(page', rows, limit, offset)
      ]_pageVars
=============================================================================
