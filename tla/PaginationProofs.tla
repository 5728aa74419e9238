-------------------------- MODULE PaginationProofs --------------------------
(***************************************************************************)
(* Both endpoints cut the same window, for any size of int and any default *)
(* limit: the sum wraps at most once, and then it is negative.             *)
(***************************************************************************)
EXTENDS Pagination, SequenceTheorems, TLAPS

\* There are never more rows than an int can count.
RowsInv ==
    /\ rows \in Seq(Nat)
    /\ nextId \in 1 .. MaxRows + 1
    /\ Len(rows) < nextId

(***************************************************************************)
(* The end of a page is where the page should end, as long as the list is  *)
(* shorter than the greatest int.                                          *)
(***************************************************************************)
LEMMA PageEndIsRight ==
    ASSUME PaginationAssumption,
           NEW n \in 0..MaxInt, NEW limit \in 1..MaxInt, NEW offset \in 0..MaxInt, offset < n
    PROVE  PageEnd(n, limit, offset) = IF limit <= n - offset THEN offset + limit ELSE n
  BY DEF PaginationAssumption, PageEnd, Plus, MinInt

(***************************************************************************)
(* Limit and Offset turn any two ints into a page that makes sense.        *)
(***************************************************************************)
LEMMA Defaults ==
    ASSUME PaginationAssumption, NEW l \in GoInt, NEW o \in GoInt
    PROVE  Limit(l) \in 1..MaxInt /\ Offset(o) \in 0..MaxInt
  BY DEF PaginationAssumption, Limit, Offset, GoInt, MinInt

(***************************************************************************)
(* The subsequence from one row to another.                                *)
(***************************************************************************)
LEMMA Cut ==
    ASSUME NEW s \in Seq(Nat), NEW limit \in Nat \ {0}, NEW offset \in Nat,
           NEW last \in Nat,
           offset < Len(s) => last = IF limit <= Len(s) - offset THEN offset + limit ELSE Len(s),
           offset >= Len(s) => last <= offset
    PROVE  IsWindow(SubSeq(s, offset + 1, last), s, limit, offset)
<1> DEFINE w == SubSeq(s, offset + 1, last)
<1>1. CASE offset >= Len(s)
  <2>1. w = <<>>
    BY <1>1, SubSeqEmpty
  <2> QED
    BY <1>1, <2>1 DEF IsWindow
<1>2. CASE offset < Len(s)
  <2>1. last \in offset + 1 .. Len(s) /\ Len(s) \in Nat
    BY <1>2
  <2> DEFINE first == offset + 1
  <2>2. first \in Int /\ last \in Int /\ \A i \in first .. last : s[i] \in Nat
    BY <2>1
  <2>3. w = SubSeq(s, first, last) /\ first = offset + 1
    OBVIOUS
  <2> HIDE DEF w, first
  <2>4. /\ SubSeq(s, first, last) \in Seq(Nat)
        /\ Len(SubSeq(s, first, last)) = IF first <= last THEN last - first + 1 ELSE 0
        /\ \A j \in 1 .. last - first + 1 : SubSeq(s, first, last)[j] = s[first + j - 1]
    <3>1. \A T : (\A i \in first .. last : s[i] \in T) =>
             /\ SubSeq(s, first, last) \in Seq(T)
             /\ Len(SubSeq(s, first, last)) = IF first <= last THEN last - first + 1 ELSE 0
             /\ \A j \in 1 .. last - first + 1 : SubSeq(s, first, last)[j] = s[first + j - 1]
      <4> TAKE T
      <4> HAVE \A i \in first .. last : s[i] \in T
      <4> QED
        BY <2>2, SubSeqProperties
    <3> QED
      BY <2>2, <3>1, Zenon
  <2>5. w \in Seq(Nat) /\ Len(w) = last - offset /\ DOMAIN w = 1 .. last - offset
    BY <2>1, <2>3, <2>4
  <2>6. \A j \in 1 .. last - offset : w[j] = s[offset + j]
    <3>1. \A j \in 1 .. last - offset :
             j \in 1 .. last - first + 1 /\ first + j - 1 = offset + j
      BY <2>1, <2>3
    <3> QED
      BY <2>3, <2>4, <3>1, Zenon
  <2> QED
    BY <1>2, <2>1, <2>5, <2>6, SMTT(40) DEF IsWindow, w
<1> QED
  BY <1>1, <1>2

(***************************************************************************)
(* A request gets the window it asks for from both endpoints.              *)
(***************************************************************************)
LEMMA RequestGetsWindow ==
    ASSUME PaginationAssumption, RowsInv, NEW l \in GoInt, NEW o \in GoInt, Request(l, o)
    PROVE  LET limit == Limit(query'.limit)
               offset == Offset(query'.offset)
           IN  IsWindow(slice', rows, limit, offset) /\ IsWindow(page', rows, limit, offset)
<1> DEFINE limit == Limit(l)
           offset == Offset(o)
           n == Len(rows)
<1>1. limit \in 1..MaxInt /\ offset \in 0..MaxInt
  BY Defaults
<1>2. n \in 0..MaxInt /\ rows \in Seq(Nat)
  BY DEF RowsInv, PaginationAssumption
<1>3. query'.limit = l /\ query'.offset = o
  BY DEF Request
<1>4. MaxInt \in Nat
  BY DEF PaginationAssumption
<1> HIDE DEF limit, offset
<1>5. IsWindow(ListItems(rows, l, o), rows, limit, offset)
  <2> DEFINE last == IF offset + limit > n THEN n ELSE offset + limit
  <2>1. ListItems(rows, l, o) = SubSeq(rows, offset + 1, last)
    BY DEF ListItems, limit, offset
  <2>2. /\ last \in Nat
        /\ offset < n => last = IF limit <= n - offset THEN offset + limit ELSE n
        /\ offset >= n => last <= offset
    BY <1>1, <1>2, <1>4
  <2> HIDE DEF last
  <2> QED
    BY <1>1, <1>2, <1>4, <2>1, <2>2, Cut
<1>6. IsWindow(ListActiveAuctions(rows, l, o), rows, limit, offset)
  <2>1. CASE offset >= n
    BY <2>1, <1>1, <1>2, <1>4 DEF ListActiveAuctions, IsWindow, offset
  <2>2. CASE offset < n
    <3> DEFINE last == PageEnd(n, limit, offset)
    <3>1. ListActiveAuctions(rows, l, o) = SubSeq(rows, offset + 1, last)
      <4>1. ~(Offset(o) >= Len(rows))
        BY <2>2, <1>1, <1>2, <1>4 DEF offset
      <4> QED
        BY <4>1, Zenon DEF ListActiveAuctions, limit, offset
    <3>2. last = IF limit <= n - offset THEN offset + limit ELSE n
      BY <2>2, <1>1, <1>2, PageEndIsRight
    <3>3. last \in Nat
      BY <3>2, <1>1, <1>2, <1>4
    <3> HIDE DEF last
    <3> QED
      BY <1>1, <1>2, <1>4, <2>2, <3>1, <3>2, <3>3, Cut
  <2> QED
    BY <2>1, <2>2, <1>1, <1>2, <1>4
<1> QED
  BY <1>3, <1>5, <1>6 DEF Request, limit, offset

(***************************************************************************)
(* A row more or less is another list, of numbered rows.                   *)
(***************************************************************************)
LEMMA RowsChange ==
    ASSUME PaginationAssumption, RowsInv, AddRow \/ \E k \in DOMAIN rows : DropRow(k)
    PROVE  RowsInv' /\ rows' # rows
<1>1. /\ rows \in Seq(Nat) /\ nextId \in 1 .. MaxRows + 1 /\ Len(rows) < nextId
      /\ MaxRows \in Nat /\ Len(rows) \in Nat
  BY DEF RowsInv, PaginationAssumption
<1>2. CASE AddRow
  <2>1. rows' \in Seq(Nat) /\ Len(rows') = Len(rows) + 1
    BY <1>1, <1>2 DEF AddRow
  <2> QED
    BY <1>1, <1>2, <2>1 DEF AddRow, RowsInv
<1>3. ASSUME NEW k \in DOMAIN rows, DropRow(k)
      PROVE  RowsInv' /\ rows' # rows
  <2>1. k \in 1..Len(rows)
    BY <1>1
  <2>2. /\ SubSeq(rows, 1, k - 1) \in Seq(Nat) /\ Len(SubSeq(rows, 1, k - 1)) = k - 1
        /\ SubSeq(rows, k + 1, Len(rows)) \in Seq(Nat)
        /\ Len(SubSeq(rows, k + 1, Len(rows))) = Len(rows) - k
    <3>1. \A i \in 1 .. Len(rows) : rows[i] \in Nat
      BY <1>1
    <3>2. (\A i \in 1 .. k - 1 : rows[i] \in Nat)
          /\ (\A i \in k + 1 .. Len(rows) : rows[i] \in Nat)
      BY <1>1, <2>1, <3>1, SMTT(30)
    <3>3. /\ SubSeq(rows, 1, k - 1) \in Seq(Nat)
          /\ Len(SubSeq(rows, 1, k - 1)) = IF 1 <= k - 1 THEN k - 1 - 1 + 1 ELSE 0
      BY <2>1, <3>2, SubSeqProperties
    <3>4. /\ SubSeq(rows, k + 1, Len(rows)) \in Seq(Nat)
          /\ Len(SubSeq(rows, k + 1, Len(rows)))
               = IF k + 1 <= Len(rows) THEN Len(rows) - (k + 1) + 1 ELSE 0
      BY <1>1, <2>1, <3>2, SubSeqProperties
    <3> QED
      BY <1>1, <2>1, <3>3, <3>4, SMTT(40)
  <2>3. rows' \in Seq(Nat) /\ Len(rows') = Len(rows) - 1
    <3> DEFINE front == SubSeq(rows, 1, k - 1)
               back == SubSeq(rows, k + 1, Len(rows))
    <3>1. rows' = front \o back
      BY <1>3 DEF DropRow, RemoveAt
    <3> HIDE DEF front, back
    <3>2. front \in Seq(Nat) /\ back \in Seq(Nat) /\ Len(front) = k - 1 /\ Len(back) = Len(rows) - k
      BY <2>2 DEF front, back
    <3>3. front \o back \in Seq(Nat) /\ Len(front \o back) = Len(front) + Len(back)
      BY <3>2, ConcatProperties
    <3> QED
      BY <1>1, <2>1, <3>1, <3>2, <3>3, SMTT(30)
  <2> QED
    BY <1>1, <1>3, <2>3 DEF DropRow, RowsInv
<1> QED
  BY <1>2, <1>3

(***************************************************************************)
(* Every request is answered with the window it asks for, by both          *)
(* endpoints and for every size of int.                                    *)
(***************************************************************************)
THEOREM PagesAreWindows == Spec => PageIsWindow
<1> USE PaginationAssumption
<1> DEFINE Right == rows' = rows =>
                      LET limit == Limit(query'.limit)
                          offset == Offset(query'.offset)
                      IN  /\ IsWindow(slice', rows, limit, offset)
                          /\ IsWindow(page', rows, limit, offset)
<1>1. Init => RowsInv
  BY DEF Init, RowsInv, PaginationAssumption
<1>2. RowsInv /\ [Next]_pageVars => RowsInv'
  BY RowsChange DEF Next, Request, pageVars, RowsInv
<1>3. RowsInv /\ Next => Right
  BY RowsChange, RequestGetsWindow DEF Next
<1>4. RowsInv /\ [Next]_pageVars => [Right]_pageVars
  BY <1>3
<1> QED
  BY <1>1, <1>2, <1>4, PTL DEF Spec, PageIsWindow
=============================================================================
