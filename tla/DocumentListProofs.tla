-------------------------- MODULE DocumentListProofs --------------------------
(* The pages a list serves abut, whatever numbers a client sends and for    *)
(* any width of the integers; and an answer has as many rows as its total   *)
(* leaves after the offset, unless a write falls between its statements.    *)
EXTENDS DocumentList, FiniteSetTheorems, TLAPS

\* What Pagination::new can return.
PageValues == [page: 1..MaxInt, per_page: 1..MaxPerPage]

LEMMA NormalisedIsAPage ==
    ASSUME NEW p \in Parameters, NEW q \in Parameters, Readable(p), Readable(q)
    PROVE  Normalised(p, q) \in PageValues
<1>1. GivenOr(p, 1) \in Int64 /\ GivenOr(q, DefaultPerPage) \in Int64
  BY PaginationAssumption
  DEF Parameters, Readable, GivenOr, Blank, Garbled, Number, Parameter, Int64
<1> QED
  BY <1>1, PaginationAssumption DEF Normalised, PageValues, AtLeast, AtMost, Int64

\* A page's own numbers, and those of the page after it.
LEMMA PageOfNumbers ==
    ASSUME NEW n \in 1..MaxInt, NEW size \in 1..MaxPerPage
    PROVE  Page(n, size) = [page |-> n, per_page |-> size]
BY PaginationAssumption
DEF Page, Normalised, Number, Blank, Parameter, GivenOr, AtLeast, AtMost

LEMMA PagesAbut ==
    ASSUME NEW p \in PageValues
    PROVE  Tiles(p)
<1> DEFINE n == p.page
           size == p.per_page
<1>1. /\ n \in 1..MaxInt /\ size \in 1..MaxPerPage /\ size \in Nat /\ n \in Nat
      /\ p = [page |-> n, per_page |-> size] /\ MaxInt \in Nat
  BY PaginationAssumption DEF PageValues
<1>2. Page(n, size) = p
  BY <1>1, PageOfNumbers
<1> DEFINE skipped == (n - 1) * size
<1>3. skipped \in Nat
  <2>1. n - 1 \in Nat
    BY <1>1
  <2> QED
    BY <1>1, <2>1
<1>4. Offset(p) = AtMost(skipped, MaxInt)
  BY DEF Offset
<1>5. Offset(p) \in 0..MaxInt
  <2> HIDE DEF skipped
  <2> QED
    BY <1>1, <1>3, <1>4 DEF AtMost
<1>6. ASSUME n < MaxInt
      PROVE  LET next == Page(n + 1, size) IN
             \/ Offset(next) = Offset(p) + size
             \/ Offset(next) = MaxInt /\ Offset(p) + size >= MaxInt
  <2>1. Page(n + 1, size) = [page |-> n + 1, per_page |-> size]
    BY <1>1, <1>6, PageOfNumbers
  <2>2. ((n + 1) - 1) * size = skipped + size
    BY <1>1
  <2>3. Offset(Page(n + 1, size)) = AtMost(skipped + size, MaxInt)
    BY <2>1, <2>2 DEF Offset
  <2> HIDE DEF skipped, size
  <2> QED
    BY <1>1, <1>3, <1>4, <2>3 DEF AtMost
<1> QED
  BY <1>1, <1>2, <1>5, <1>6 DEF Tiles

\* What is served is always a page.
ServesAPage == page \in PageValues

LEMMA AlwaysServesAPage == Spec => []ServesAPage
<1>1. Init => ServesAPage
  BY ListAssumption, NormalisedIsAPage
  DEF Init, ServesAPage, Parameters, Readable, Blank, Garbled, Parameter
<1>2. ServesAPage /\ [Next]_vars => ServesAPage'
  <2> SUFFICES ASSUME ServesAPage, [Next]_vars
               PROVE  page' \in PageValues
    BY DEF ServesAPage
  <2>1. CASE page' = page
    BY <2>1 DEF ServesAPage
  <2>2. CASE Ask
    <3>1. PICK r \in Menu :
            \/ page' = page
            \/ /\ Readable(r.page) /\ Readable(r.per_page)
               /\ page' = Normalised(r.page, r.per_page)
      BY <2>2 DEF Ask
    <3> QED
      BY <3>1, NormalisedIsAPage, ListAssumption DEF ServesAPage
  <2>3. CASE TurnPage
    <3>1. page.page + 1 \in 1..MaxInt /\ page.per_page \in 1..MaxPerPage
      BY <2>3, PaginationAssumption DEF TurnPage, ServesAPage, PageValues
    <3> QED
      BY <2>3, <3>1, PageOfNumbers DEF TurnPage, PageValues
  <2> QED
    BY <2>1, <2>2, <2>3 DEF Next, Begin, Commit, Count, FetchRows, vars
<1> QED
  BY <1>1, <1>2, PTL DEF Spec

\* Whatever page and page size a client sends, up to the last number the
\* integers hold, the page served is the one its reported numbers ask for, it
\* starts at a row that is not negative and ends where the next one starts.
THEOREM PagesAlwaysTile == Spec => []PagesTile
<1>1. ServesAPage => PagesTile
  BY PagesAbut DEF ServesAPage, PagesTile
<1> QED
  BY <1>1, AlwaysServesAPage, PTL

-----------------------------------------------------------------------------
(* Types.                                                                   *)

Statuses == {"draft", "published", "archived"}
Rows == [live: BOOLEAN, status: Statuses, updated: Nat]

LEMMA FiltersAreStatuses == Filters \ {"none", "unknown"} = Statuses
BY DEF Filters, Statuses

LEMMA SubsetsCount ==
    ASSUME NEW S \in SUBSET Docs
    PROVE  IsFiniteSet(S) /\ Cardinality(S) \in Nat
BY ListAssumption, FS_Subset, FS_CardinalityType

LEMMA EffectsAreRows ==
    ASSUME NEW r \in Rows, NEW now \in Nat
    PROVE  Effects(r, now) \subseteq Rows
<1>1. Later(r.status) \subseteq Statuses
  BY DEF Later, Statuses
<1>2. r.live \in BOOLEAN /\ r.status \in Statuses /\ r.updated \in Nat
  BY DEF Rows
<1>3. \A s \in Statuses, u \in Nat, b \in BOOLEAN : Row(b, s, u) \in Rows
  BY DEF Rows, Row
<1>4. "draft" \in Statuses /\ "archived" \in Statuses
  BY DEF Statuses
<1> QED
  BY <1>1, <1>2, <1>3, <1>4 DEF Effects

LEMMA PlaceIsANumber ==
    ASSUME NEW d \in Docs, Exists(d)
    PROVE  Place(d) \in 1..Len(Existing) /\ Existing[Place(d)] = d
BY ListAssumption DEF Exists, Place

LEMMA TypesAtFirst == Init => TypeOK
<1> SUFFICES ASSUME Init
             PROVE  TypeOK
  OBVIOUS
<1>1. docs \in [Docs -> Rows]
  <2>1. ASSUME NEW d \in Docs, Exists(d)
        PROVE  Row(TRUE, "draft", Place(d)) \in Rows
    BY <2>1, PlaceIsANumber, ListAssumption DEF Rows, Row, Statuses
  <2>2. Row(FALSE, "draft", 0) \in Rows
    BY DEF Rows, Row, Statuses
  <2> QED
    BY <2>1, <2>2 DEF Init
<1>2. page \in PageValues
  BY NormalisedIsAPage DEF Init, Parameters, Readable, Blank, Garbled, Parameter
<1>3. clock \in Nat
  BY ListAssumption DEF Init
<1>4. request \in [page: Parameters, per_page: Parameters, status: Filters]
  BY DEF Init, Parameters, Filters
<1>5. walk \in [seen: SUBSET Docs, touched: SUBSET Docs, gone: Nat, torn: BOOLEAN]
  BY DEF Init, NewWalk
<1> QED
  BY <1>1, <1>2, <1>3, <1>4, <1>5, FiltersAreStatuses
  DEF Init, TypeOK, PageValues, Rows

LEMMA WritersKeepTypes ==
    ASSUME TypeOK, NEW w \in Writers, Begin(w) \/ Commit(w)
    PROVE  TypeOK'
<1>1. CASE Begin(w)
  BY <1>1 DEF Begin, TypeOK
<1>2. CASE Commit(w)
  <2>1. PICK d \in Docs : \E r \in Effects(docs[d], writer[w].began) :
          /\ docs' = [docs EXCEPT ![d] = r]
          /\ walk' = [walk EXCEPT !.touched = @ \cup {d},
                                  !.gone = IF Recedes(docs[d], r) THEN @ + 1 ELSE @,
                                  !.torn = @ \/ pc = "rows"]
    BY <1>2 DEF Commit
  <2>2. PICK r \in Effects(docs[d], writer[w].began) :
          /\ docs' = [docs EXCEPT ![d] = r]
          /\ walk' = [walk EXCEPT !.touched = @ \cup {d},
                                  !.gone = IF Recedes(docs[d], r) THEN @ + 1 ELSE @,
                                  !.torn = @ \/ pc = "rows"]
    BY <2>1
  <2>3. docs \in [Docs -> Rows] /\ writer[w].began \in Nat
    BY FiltersAreStatuses DEF TypeOK, Rows
  <2>4. docs' \in [Docs -> Rows]
    BY <2>2, <2>3, EffectsAreRows
  <2>5. walk' \in [seen: SUBSET Docs, touched: SUBSET Docs, gone: Nat, torn: BOOLEAN]
    <3>1. walk'.seen = walk.seen /\ walk'.touched = walk.touched \cup {d}
      BY <2>2 DEF TypeOK
    <3>2. walk'.gone \in Nat
      BY <2>2 DEF TypeOK
    <3>3. walk'.torn \in BOOLEAN
      BY <2>2 DEF TypeOK
    <3> QED
      BY <2>2, <3>1, <3>2, <3>3 DEF TypeOK
  <2>6. writer' \in [Writers -> [step: {"idle", "open", "done"}, began: Nat]]
    BY <1>2 DEF Commit, TypeOK
  <2> QED
    BY <1>2, <2>4, <2>5, <2>6, FiltersAreStatuses DEF Commit, TypeOK, Rows
<1> QED
  BY <1>1, <1>2

LEMMA ReadersKeepTypes ==
    ASSUME TypeOK, page' \in PageValues, Ask \/ Count \/ FetchRows \/ TurnPage
    PROVE  TypeOK'
<1> USE DEF store, TypeOK, PageValues
<1>1. CASE Ask
  <2>1. request' \in [page: Parameters, per_page: Parameters, status: Filters]
    BY <1>1, ListAssumption DEF Ask
  <2>2. pc' \in {"refused", "count"}
    BY <1>1 DEF Ask
  <2> QED
    BY <1>1, <2>1, <2>2 DEF Ask, NewWalk
<1>2. CASE Count
  <2>1. total' \in Nat
    BY <1>2, SubsetsCount DEF Count, Matching
  <2> QED
    BY <1>2, <2>1 DEF Count
<1>3. CASE FetchRows
  BY <1>3 DEF FetchRows, Served, Matching
<1>4. CASE TurnPage
  BY <1>4 DEF TurnPage
<1> QED
  BY <1>1, <1>2, <1>3, <1>4

LEMMA NextKeepsTypes == TypeOK /\ ServesAPage' /\ [Next]_vars => TypeOK'
<1>1. ASSUME TypeOK, UNCHANGED vars
      PROVE  TypeOK'
  BY <1>1 DEF vars, TypeOK
<1> QED
  BY <1>1, WritersKeepTypes, ReadersKeepTypes DEF Next, ServesAPage

\* Every variable of the list keeps its type.
THEOREM ListTypeCorrect == Spec => []TypeOK
BY TypesAtFirst, NextKeepsTypes, AlwaysServesAPage, PTL DEF Spec

-----------------------------------------------------------------------------
(* The rows of an answer.                                                   *)

\* No two documents were written by transactions that started together, and
\* every open transaction started when none of them did.
Dated ==
    /\ \A d, e \in Docs :
         d # e /\ docs[d].updated = docs[e].updated => docs[d].updated = 0
    /\ \A d \in Docs : docs[d].live => docs[d].updated > 0
    /\ \A d \in Docs : docs[d].updated <= clock
    /\ \A w \in Writers : writer[w].step = "open" =>
         /\ writer[w].began \in 1..clock
         /\ \A d \in Docs : docs[d].updated # writer[w].began
    /\ \A v, w \in Writers :
         v # w /\ writer[v].step = "open" /\ writer[w].step = "open" =>
             writer[v].began # writer[w].began

LEMMA DatedAtFirst == Init => Dated
<1> SUFFICES ASSUME Init
             PROVE  Dated
  OBVIOUS
<1>1. \A d \in Docs :
        /\ Exists(d) => docs[d].updated = Place(d)
        /\ ~Exists(d) => docs[d].updated = 0 /\ ~docs[d].live
  BY DEF Init, Row
<1>2. clock = Len(Existing) /\ clock \in Nat
  BY ListAssumption DEF Init
<1>3. \A w \in Writers : writer[w].step = "idle"
  BY DEF Init
<1>4. \A d \in Docs : Exists(d) => Place(d) \in 1..clock /\ Existing[Place(d)] = d
  BY <1>2, PlaceIsANumber
<1>5. \A d \in Docs : docs[d].updated \in 0..clock
  BY <1>1, <1>2, <1>4
<1>6. \A d, e \in Docs :
        d # e /\ docs[d].updated = docs[e].updated => docs[d].updated = 0
  BY <1>1, <1>2, <1>4
<1>7. \A d \in Docs : docs[d].live => docs[d].updated > 0
  BY <1>1, <1>2, <1>4
<1> QED
  BY <1>2, <1>3, <1>5, <1>6, <1>7 DEF Dated

LEMMA EffectsDate ==
    ASSUME NEW r \in Rows, NEW now \in Nat \ {0}, NEW new \in Effects(r, now),
           r.live => r.updated > 0
    PROVE  /\ new.updated \in {now, r.updated}
           /\ new.live => new.updated > 0
<1>1. r.live \in BOOLEAN /\ r.updated \in Nat
  BY DEF Rows
<1> QED
  BY <1>1 DEF Effects, Row

LEMMA NextKeepsDated == TypeOK /\ Dated /\ [Next]_vars => Dated'
<1> SUFFICES ASSUME TypeOK, Dated, [Next]_vars
             PROVE  Dated'
  OBVIOUS
<1>1. CASE UNCHANGED store
  BY <1>1 DEF store, Dated
<1>2. ASSUME NEW w \in Writers, Begin(w)
      PROVE  Dated'
  <2>1. /\ clock' = clock + 1 /\ clock \in Nat /\ docs' = docs
        /\ writer' = [writer EXCEPT ![w] = [step |-> "open", began |-> clock + 1]]
    BY <1>2 DEF Begin, TypeOK
  <2>2. \A v \in Writers : v # w => writer'[v] = writer[v]
    BY <2>1
  <2>3. writer'[w].step = "open" /\ writer'[w].began = clock + 1
    BY <2>1 DEF TypeOK
  <2>4. \A d \in Docs : docs[d].updated \in Nat
    BY DEF TypeOK
  <2> QED
    BY <2>1, <2>2, <2>3, <2>4 DEF Dated
<1>3. ASSUME NEW w \in Writers, Commit(w)
      PROVE  Dated'
  <2>1. PICK d \in Docs : \E r \in Effects(docs[d], writer[w].began) :
          docs' = [docs EXCEPT ![d] = r]
    BY <1>3 DEF Commit
  <2>2. PICK r \in Effects(docs[d], writer[w].began) :
          docs' = [docs EXCEPT ![d] = r]
    BY <2>1
  <2> DEFINE now == writer[w].began
  <2>3. /\ writer[w].step = "open" /\ clock' = clock /\ clock \in Nat
        /\ writer' = [writer EXCEPT ![w].step = "done"]
    BY <1>3 DEF Commit, TypeOK
  <2>4. now \in 1..clock /\ \A e \in Docs : docs[e].updated # now
    BY <2>3 DEF Dated
  <2>5. docs[d] \in Rows /\ \A e \in Docs : docs[e].updated \in Nat
    BY FiltersAreStatuses DEF TypeOK, Rows
  <2>6. r.updated \in {now, docs[d].updated} /\ (r.live => r.updated > 0)
    BY <2>2, <2>3, <2>4, <2>5, EffectsDate DEF Dated
  <2>7. docs'[d] = r /\ \A e \in Docs : e # d => docs'[e] = docs[e]
    BY <2>2 DEF TypeOK
  <2>8. \A v \in Writers : writer'[v].step = "open" =>
          v # w /\ writer'[v] = writer[v]
    BY <2>3 DEF TypeOK
  <2>9. \A e \in Docs : docs'[e].updated = docs[e].updated \/ e = d
    BY <2>7
  <2> HIDE DEF now
  <2>10. \A e, f \in Docs :
           e # f /\ docs'[e].updated = docs'[f].updated => docs'[e].updated = 0
    BY <2>4, <2>6, <2>7 DEF Dated
  <2>11. \A e \in Docs : docs'[e].live => docs'[e].updated > 0
    BY <2>6, <2>7 DEF Dated
  <2>12. \A e \in Docs : docs'[e].updated <= clock'
    BY <2>3, <2>4, <2>5, <2>6, <2>7 DEF Dated
  <2>13. \A v \in Writers : writer'[v].step = "open" =>
           /\ writer'[v].began \in 1..clock'
           /\ \A e \in Docs : docs'[e].updated # writer'[v].began
    BY <2>3, <2>6, <2>7, <2>8 DEF Dated, now
  <2>14. \A u, v \in Writers :
           u # v /\ writer'[u].step = "open" /\ writer'[v].step = "open" =>
               writer'[u].began # writer'[v].began
    BY <2>8 DEF Dated
  <2> QED
    BY <2>10, <2>11, <2>12, <2>13, <2>14 DEF Dated
<1> QED
  BY <1>1, <1>2, <1>3 DEF Next, Ask, Count, FetchRows, TurnPage, store, vars

\* The rank counts the rows of the list from 0, each once.
LEMMA RanksCount ==
    ASSUME TypeOK, Dated
    PROVE  [d \in Matching |-> Rank(d)]
               \in Bijection(Matching, 0..(Cardinality(Matching) - 1))
<1> DEFINE n == Cardinality(Matching)
           R == [d \in Matching |-> Rank(d)]
           Before(d) == {e \in Matching : docs[e].updated > docs[d].updated}
<1>1. Matching \in SUBSET Docs /\ IsFiniteSet(Matching) /\ n \in Nat
  BY SubsetsCount DEF Matching
<1>2. \A d \in Matching : docs[d].updated \in Nat /\ docs[d].live
  BY DEF Matching, Selects, TypeOK
<1>3. \A d, e \in Matching : d # e => docs[d].updated # docs[e].updated
  BY <1>1, <1>2 DEF Dated
<1>4. ASSUME NEW d \in Matching
      PROVE  R[d] \in 0..(n - 1)
  <2>1. Before(d) \in SUBSET (Matching \ {d})
    BY <1>2
  <2>2. IsFiniteSet(Matching \ {d}) /\ Cardinality(Matching \ {d}) = n - 1
    BY <1>1, FS_RemoveElement
  <2>3. Cardinality(Before(d)) <= n - 1 /\ Cardinality(Before(d)) \in Nat
    BY <2>1, <2>2, FS_Subset, FS_CardinalityType
  <2> QED
    BY <1>1, <2>3 DEF Rank
<1>5. ASSUME NEW d \in Matching, NEW e \in Matching,
             docs[d].updated > docs[e].updated
      PROVE  R[d] < R[e]
  <2>1. Before(d) \cup {d} \in SUBSET Before(e) /\ d \notin Before(d)
    BY <1>2, <1>5
  <2>2. Before(d) \in SUBSET Docs /\ Before(e) \in SUBSET Docs
    BY <1>1
  <2>3. IsFiniteSet(Before(e)) /\ IsFiniteSet(Before(d))
        /\ Cardinality(Before(d)) \in Nat /\ Cardinality(Before(e)) \in Nat
    BY <2>2, SubsetsCount
  <2>4. Cardinality(Before(d) \cup {d}) = Cardinality(Before(d)) + 1
    BY <2>1, <2>3, FS_AddElement
  <2>5. Cardinality(Before(d) \cup {d}) <= Cardinality(Before(e))
    BY <2>1, <2>3, FS_Subset
  <2> QED
    BY <2>3, <2>4, <2>5 DEF Rank
<1>6. \A d, e \in Matching : R[d] = R[e] => d = e
  <2> SUFFICES ASSUME NEW d \in Matching, NEW e \in Matching, d # e
               PROVE  R[d] # R[e]
    OBVIOUS
  <2>1. docs[d].updated > docs[e].updated \/ docs[e].updated > docs[d].updated
    BY <1>2, <1>3
  <2>2. R[d] \in 0..(n - 1) /\ R[e] \in 0..(n - 1)
    BY <1>4
  <2> HIDE DEF R, n
  <2>3. R[d] < R[e] \/ R[e] < R[d]
    BY <1>5, <2>1
  <2> QED
    BY <2>2, <2>3
<1>7. R \in Injection(Matching, 0..(n - 1))
  BY <1>4, <1>6 DEF Injection, IsInjective
<1>8. IsFiniteSet(0..(n - 1)) /\ Cardinality(0..(n - 1)) = n
  BY <1>1, FS_Interval
<1>9. R \in Surjection(Matching, 0..(n - 1))
  BY <1>7, <1>8, FS_Injection
<1> QED
  BY <1>7, <1>9 DEF Bijection

LEMMA ServedAddUp ==
    ASSUME TypeOK, Dated
    PROVE  Cardinality(Served) =
               AtMost(AtLeast(Cardinality(Matching) - Offset(page), 0), page.per_page)
<1> DEFINE n == Cardinality(Matching)
           o == Offset(page)
           size == page.per_page
           last == AtMost(o + size - 1, n - 1)
           R == [d \in Matching |-> Rank(d)]
           G == [d \in Served |-> Rank(d)]
<1>1. n \in Nat /\ Served \in SUBSET Docs
  BY SubsetsCount DEF Served, Matching
<1>2. o \in Nat /\ size \in Nat /\ size > 0
  <2>1. page \in PageValues
    BY DEF TypeOK, PageValues
  <2>2. o \in 0..MaxInt
    BY <2>1, PagesAbut DEF Tiles
  <2>3. size \in 1..MaxPerPage
    BY <2>1 DEF PageValues
  <2> QED
    BY <2>2, <2>3, PaginationAssumption
<1>3. R \in Bijection(Matching, 0..(n - 1))
  BY RanksCount
<1>4. Served = {d \in Matching : R[d] \in o..(o + size - 1)}
  BY DEF Served
<1> HIDE DEF n, o, size
<1>5. \A k \in Int : k \in o..last <=> k \in 0..(n - 1) /\ k \in o..(o + size - 1)
  BY <1>1, <1>2 DEF AtMost
<1>6. /\ \A d \in Matching : R[d] \in 0..(n - 1)
      /\ \A d, e \in Matching : R[d] = R[e] => d = e
      /\ \A k \in 0..(n - 1) : \E d \in Matching : R[d] = k
  BY <1>3 DEF Bijection, Injection, IsInjective, Surjection
<1>7. \A d \in Served : G[d] = R[d] /\ d \in Matching
  BY <1>4
<1>8. \A d \in Matching : R[d] \in Int
  BY <1>1, <1>6
<1> HIDE DEF R
<1>9. G \in [Served -> o..last]
  <2>1. \A d \in Served : Rank(d) = R[d]
    BY <1>7
  <2> HIDE DEF last
  <2> QED
    BY <1>4, <1>5, <1>6, <1>7, <1>8, <2>1
<1> HIDE DEF G
<1>10. last \in Int /\ \A k \in o..last : k \in Int
  BY <1>1, <1>2 DEF AtMost
<1> HIDE DEF last
<1>11. G \in Injection(Served, o..last)
  BY <1>6, <1>7, <1>9 DEF Injection, IsInjective
<1>12. G \in Surjection(Served, o..last)
  <2> SUFFICES ASSUME NEW k \in o..last
               PROVE  \E d \in Served : G[d] = k
    BY <1>9 DEF Surjection
  <2>1. k \in 0..(n - 1) /\ k \in o..(o + size - 1)
    BY <1>5, <1>10
  <2>2. PICK d \in Matching : R[d] = k
    BY <1>6, <2>1
  <2>3. d \in Served
    BY <1>4, <2>1, <2>2
  <2> QED
    BY <1>7, <2>2, <2>3
<1>13. Cardinality(o..last) = Cardinality(Served)
  BY <1>1, <1>11, <1>12, SubsetsCount, FS_Bijection DEF Bijection, ExistsBijection
<1>14. Cardinality(o..last) = IF o > last THEN 0 ELSE last - o + 1
  BY <1>2, <1>10, FS_Interval
<1>15. (IF o > last THEN 0 ELSE last - o + 1) = AtMost(AtLeast(n - o, 0), size)
  BY <1>1, <1>2 DEF last, AtMost, AtLeast
<1> QED
  BY <1>13, <1>14, <1>15 DEF n, o, size

\* While nothing is written the list is what the count saw.
Counted ==
    /\ pc = "rows" /\ ~walk.torn => total = Cardinality(Matching)
    /\ AnswersAddUp

LEMMA NextKeepsCounted == TypeOK /\ Dated /\ Counted /\ [Next]_vars => Counted'
<1> SUFFICES ASSUME TypeOK, Dated, Counted, [Next]_vars
             PROVE  Counted'
  OBVIOUS
<1>1. CASE UNCHANGED vars
  BY <1>1 DEF vars, Counted, AnswersAddUp, Matching, Selects, Offset
<1>2. ASSUME NEW w \in Writers, Begin(w)
      PROVE  Counted'
  BY <1>2 DEF Begin, Counted, AnswersAddUp, Matching, Selects, Offset
<1>3. ASSUME NEW w \in Writers, Commit(w)
      PROVE  Counted'
  <2>1. UNCHANGED <<pc, page, total, found>>
    BY <1>3 DEF Commit
  <2>2. walk'.torn = (walk.torn \/ pc = "rows")
    BY <1>3 DEF Commit, TypeOK
  <2> QED
    BY <2>1, <2>2 DEF Counted, AnswersAddUp, Offset
<1>4. CASE Ask
  BY <1>4 DEF Ask, Counted, AnswersAddUp
<1>5. CASE Count
  <2>1. pc' = "rows" /\ total' = Cardinality(Matching) /\ Matching' = Matching
    BY <1>5 DEF Count, store, Matching, Selects
  <2> QED
    BY <2>1 DEF Counted, AnswersAddUp
<1>6. CASE FetchRows
  <2>1. /\ pc = "rows" /\ pc' \in {"over", "answered"} /\ found' = Served
        /\ UNCHANGED <<page, total>>
    BY <1>6 DEF FetchRows
  <2>2. walk'.torn = walk.torn
    BY <1>6 DEF FetchRows, TypeOK
  <2> QED
    BY <2>1, <2>2, ServedAddUp DEF Counted, AnswersAddUp, Offset
<1>7. CASE TurnPage
  BY <1>7 DEF TurnPage, Counted, AnswersAddUp
<1> QED
  BY <1>1, <1>2, <1>3, <1>4, <1>5, <1>6, <1>7 DEF Next

\* Unless a write falls between the two statements of a list, the number of its
\* rows is what the total leaves after the offset, up to the page size: the
\* order of the list is total, and both statements select the same rows.
THEOREM AnswersAlwaysAddUp == Spec => []AnswersAddUp
<1>1. Init => Counted
  BY DEF Init, Counted, AnswersAddUp
<1>2. Counted => AnswersAddUp
  BY DEF Counted
<1> QED
  BY <1>1, <1>2, ListTypeCorrect, DatedAtFirst, NextKeepsDated,
     NextKeepsCounted, PTL DEF Spec

-----------------------------------------------------------------------------
(* The walk.                                                                *)

\* The documents a walk still owes its client.
Unseen == {d \in Matching : d \notin walk.touched \cup walk.seen}

\* Those it has passed: they stand before row k, where it goes on.
Missed(k) == {d \in Unseen : Rank(d) < k}

WalkOwesOnlyWhatReceded ==
    Normalised(request.page, request.per_page).page = 1 =>
        /\ pc \in {"count", "rows"} =>
             Cardinality(Missed(Offset(page))) <= walk.gone
        /\ pc = "answered" =>
             Cardinality(Missed(Offset(page) + page.per_page)) <= walk.gone
        /\ pc = "over" => Cardinality(Unseen) <= walk.gone

LEMMA UnseenCounts ==
    ASSUME TypeOK
    PROVE  /\ Matching \in SUBSET Docs /\ Unseen \in SUBSET Matching
           /\ \A S \in SUBSET Unseen : /\ IsFiniteSet(S)
                                       /\ Cardinality(S) \in Nat
                                       /\ \A T \in SUBSET S :
                                            Cardinality(T) <= Cardinality(S)
           /\ \A d \in Matching : Rank(d) \in Nat
<1>1. Matching \in SUBSET Docs /\ Unseen \in SUBSET Matching
  BY DEF Matching, Unseen
<1>2. ASSUME NEW S \in SUBSET Unseen
      PROVE  /\ IsFiniteSet(S) /\ Cardinality(S) \in Nat
             /\ \A T \in SUBSET S : Cardinality(T) <= Cardinality(S)
  BY <1>1, <1>2, SubsetsCount, FS_Subset
<1>3. ASSUME NEW d \in Matching PROVE Rank(d) \in Nat
  <2>1. {e \in Matching : docs[e].updated > docs[d].updated} \in SUBSET Docs
    BY <1>1
  <2> QED
    BY <2>1, SubsetsCount DEF Rank
<1> QED
  BY <1>1, <1>2, <1>3

\* A page number's first row, and the row after its last.
LEMMA OffsetIsARow ==
    ASSUME TypeOK
    PROVE  /\ page \in PageValues
           /\ Offset(page) \in Nat /\ page.per_page \in Nat \ {0}
<1>1. page \in PageValues
  BY DEF TypeOK, PageValues
<1> QED
  BY <1>1, PagesAbut, PaginationAssumption DEF Tiles, PageValues

\* What a write does to the row it is about, and to no other.
LEMMA RowWritten ==
    ASSUME TypeOK, NEW w \in Writers, Commit(w)
    PROVE  \E x \in Docs :
             /\ \A d \in Docs \ {x} : docs'[d] = docs[d]
             /\ walk'.touched = walk.touched \cup {x} /\ walk'.seen = walk.seen
             /\ docs[x] \in Rows /\ docs'[x] \in Rows
             /\ walk'.gone = IF Recedes(docs[x], docs'[x]) THEN walk.gone + 1
                                                           ELSE walk.gone
<1>1. PICK x \in Docs : \E r \in Effects(docs[x], writer[w].began) :
        /\ docs' = [docs EXCEPT ![x] = r]
        /\ walk' = [walk EXCEPT !.touched = @ \cup {x},
                                !.gone = IF Recedes(docs[x], r) THEN @ + 1 ELSE @,
                                !.torn = @ \/ pc = "rows"]
  BY DEF Commit
<1>2. PICK r \in Effects(docs[x], writer[w].began) :
        /\ docs' = [docs EXCEPT ![x] = r]
        /\ walk' = [walk EXCEPT !.touched = @ \cup {x},
                                !.gone = IF Recedes(docs[x], r) THEN @ + 1 ELSE @,
                                !.torn = @ \/ pc = "rows"]
  BY <1>1
<1>3. docs \in [Docs -> Rows] /\ writer[w].began \in Nat
  BY FiltersAreStatuses DEF TypeOK, Rows
<1>4. docs'[x] = r /\ docs[x] \in Rows /\ r \in Rows
  BY <1>2, <1>3, EffectsAreRows
<1>5. \A d \in Docs \ {x} : docs'[d] = docs[d]
  BY <1>2, <1>3
<1>6. /\ walk'.touched = walk.touched \cup {x} /\ walk'.seen = walk.seen
      /\ walk'.gone = IF Recedes(docs[x], r) THEN walk.gone + 1 ELSE walk.gone
  BY <1>2 DEF TypeOK
<1> QED
  BY <1>4, <1>5, <1>6

\* A write brings at most one document before row k, and none unless a row
\* receded.
LEMMA CommitMissesOne ==
    ASSUME TypeOK, TypeOK', Dated, NEW w \in Writers, Commit(w), NEW k \in Nat
    PROVE  /\ Unseen' \subseteq Unseen
           /\ walk'.gone \in Nat /\ walk'.gone >= walk.gone
           /\ Cardinality(Missed(k)) <= walk.gone =>
                Cardinality(Missed(k)') <= walk'.gone
<1>1. PICK x \in Docs :
        /\ \A d \in Docs \ {x} : docs'[d] = docs[d]
        /\ walk'.touched = walk.touched \cup {x} /\ walk'.seen = walk.seen
        /\ docs[x] \in Rows /\ docs'[x] \in Rows
        /\ walk'.gone = IF Recedes(docs[x], docs'[x]) THEN walk.gone + 1
                                                      ELSE walk.gone
  BY RowWritten
<1>2. request' = request /\ walk.gone \in Nat
  BY DEF Commit, TypeOK
<1>3. \A d \in Docs \ {x} : d \in Matching' <=> d \in Matching
  BY <1>1, <1>2 DEF Matching, Selects
<1>4. Unseen' \subseteq Unseen /\ x \notin Unseen' /\ Unseen \subseteq Matching
  BY <1>1, <1>3 DEF Unseen, Matching
<1> DEFINE Before(d) == {e \in Matching : docs[e].updated > docs[d].updated}
           After(d) == {e \in Matching' : docs'[e].updated > docs'[d].updated}
<1>5. ASSUME NEW d \in Unseen'
      PROVE  /\ Rank(d)' = Cardinality(After(d)) /\ Rank(d) = Cardinality(Before(d))
             /\ Before(d) \in SUBSET Docs /\ After(d) \in SUBSET Docs
             /\ Before(d) \ {x} \subseteq After(d)
  <2>1. d \in Docs \ {x} /\ docs'[d] = docs[d]
    BY <1>1, <1>4 DEF Matching
  <2>2. \A e \in Before(d) : e # x => e \in After(d)
    BY <1>1, <1>3, <2>1 DEF Matching
  <2> QED
    BY <2>2 DEF Rank, Matching
<1> HIDE DEF Before, After
<1>6. CASE ~Recedes(docs[x], docs'[x])
  <2>1. ASSUME NEW d \in Unseen' PROVE Rank(d) <= Rank(d)'
    <3>1. x \in Before(d) => x \in After(d)
      <4>1. docs'[d] = docs[d] /\ docs[d].updated \in Nat
        BY <1>1, <1>4, <2>1 DEF Matching, TypeOK
      <4>2. docs[x].updated \in Nat /\ docs'[x].updated \in Nat
        BY <1>1 DEF Rows
      <4> QED
        BY <1>2, <1>6, <4>1, <4>2 DEF Recedes, Matching, Before, After
    <3>2. Before(d) \subseteq After(d)
      BY <1>5, <3>1
    <3>3. IsFiniteSet(After(d)) /\ After(d) \in SUBSET Docs
      BY <1>5, <2>1, SubsetsCount
    <3>4. Cardinality(Before(d)) <= Cardinality(After(d))
      BY <3>2, <3>3, FS_Subset
    <3> QED
      BY <1>5, <2>1, <3>4
  <2>2. Missed(k)' \subseteq Missed(k)
    <3>1. \A d \in Unseen' : Rank(d) \in Nat /\ Rank(d)' \in Nat
      BY <1>5, SubsetsCount
    <3> QED
      BY <1>4, <2>1, <3>1 DEF Missed
  <2>3. Cardinality(Missed(k)') <= Cardinality(Missed(k))
        /\ Cardinality(Missed(k)') \in Nat /\ Cardinality(Missed(k)) \in Nat
    BY <2>2, UnseenCounts DEF Missed
  <2> QED
    BY <1>1, <1>2, <1>4, <1>6, <2>3
<1>7. CASE Recedes(docs[x], docs'[x])
  <2>1. ASSUME NEW d \in Unseen' PROVE Rank(d) <= Rank(d)' + 1
    <3>1. IsFiniteSet(Before(d)) /\ IsFiniteSet(After(d))
          /\ Cardinality(Before(d)) \in Nat /\ Cardinality(After(d)) \in Nat
      BY <1>5, SubsetsCount
    <3>2. Cardinality(Before(d) \ {x}) >= Cardinality(Before(d)) - 1
      <4>1. PICK B : B = Before(d)
        OBVIOUS
      <4>2. Cardinality(B \ {x}) = IF x \in B THEN Cardinality(B) - 1
                                              ELSE Cardinality(B)
        BY <3>1, <4>1, FS_RemoveElement
      <4> QED
        BY <3>1, <4>1, <4>2
    <3>3. Cardinality(Before(d) \ {x}) <= Cardinality(After(d))
          /\ Cardinality(Before(d) \ {x}) \in Nat
      BY <1>5, <3>1, FS_Subset, FS_CardinalityType
    <3> QED
      BY <1>5, <3>1, <3>2, <3>3
  <2> DEFINE Next1 == {d \in Unseen : Rank(d) = k}
  <2>2. Missed(k)' \subseteq Missed(k) \cup Next1
    <3>1. \A d \in Unseen' : Rank(d) \in Nat /\ Rank(d)' \in Nat
      BY <1>5, SubsetsCount
    <3> QED
      BY <1>4, <2>1, <3>1 DEF Missed
  <2>3. \A d, e \in Next1 : d = e
    BY <1>4, RanksCount DEF Bijection, Injection, IsInjective
  <2>4. Cardinality(Missed(k) \cup Next1) <= Cardinality(Missed(k)) + 1
        /\ IsFiniteSet(Missed(k) \cup Next1)
        /\ Cardinality(Missed(k) \cup Next1) \in Nat
        /\ Cardinality(Missed(k)) \in Nat
    <3>1. IsFiniteSet(Missed(k)) /\ Cardinality(Missed(k)) \in Nat
      BY UnseenCounts DEF Missed
    <3>2. CASE Next1 = {}
      <4>1. Missed(k) \cup Next1 = Missed(k)
        BY <3>2
      <4> QED
        BY <3>1, <4>1
    <3>3. ASSUME NEW d \in Next1
          PROVE  /\ Cardinality(Missed(k) \cup Next1) <= Cardinality(Missed(k)) + 1
                 /\ IsFiniteSet(Missed(k) \cup Next1)
                 /\ Cardinality(Missed(k) \cup Next1) \in Nat
      <4>1. Missed(k) \cup Next1 = Missed(k) \cup {d}
        BY <2>3, <3>3
      <4>2. IsFiniteSet(Missed(k) \cup {d})
            /\ Cardinality(Missed(k) \cup {d}) <= Cardinality(Missed(k)) + 1
            /\ Cardinality(Missed(k) \cup {d}) \in Nat
        <5>1. PICK M : M = Missed(k)
          OBVIOUS
        <5>2. /\ IsFiniteSet(M \cup {d}) /\ Cardinality(M) \in Nat
              /\ Cardinality(M \cup {d}) = IF d \in M THEN Cardinality(M)
                                                      ELSE Cardinality(M) + 1
          BY <3>1, <5>1, FS_AddElement
        <5> QED
          BY <5>1, <5>2
      <4> QED
        BY <4>1, <4>2
    <3> QED
      BY <3>1, <3>2, <3>3
  <2>5. Cardinality(Missed(k)') <= Cardinality(Missed(k) \cup Next1)
        /\ Cardinality(Missed(k)') \in Nat
    BY <2>2, <2>4, FS_Subset, FS_CardinalityType
  <2> QED
    BY <1>1, <1>2, <1>4, <1>7, <2>4, <2>5
<1> QED
  BY <1>6, <1>7

LEMMA FetchOwesNoMore ==
    ASSUME TypeOK, TypeOK', Dated, FetchRows,
           Cardinality(Missed(Offset(page))) <= walk.gone
    PROVE  /\ pc' = "answered" =>
                Cardinality(Missed(Offset(page) + page.per_page)') <= walk'.gone
           /\ pc' = "over" => Cardinality(Unseen') <= walk'.gone
<1>0. PICK o, size, n : /\ o = Offset(page) /\ size = page.per_page
                        /\ n = Cardinality(Matching)
  OBVIOUS
<1>1. /\ docs' = docs /\ request' = request /\ page' = page
      /\ pc' = IF Served = {} THEN "over" ELSE "answered"
      /\ walk' = [walk EXCEPT !.seen = @ \cup Served]
  BY DEF FetchRows, store
<1>2. /\ walk'.touched = walk.touched /\ walk'.seen = walk.seen \cup Served
      /\ walk'.gone = walk.gone /\ walk.gone \in Nat
  BY <1>1 DEF TypeOK
<1>3. Matching' = Matching /\ \A d : Rank(d)' = Rank(d)
  BY <1>1 DEF Matching, Rank, Selects
<1>4. o \in Nat /\ size \in Nat \ {0}
  BY <1>0, OffsetIsARow
<1>5. \A d \in Unseen' : d \in Unseen /\ d \in Matching /\ d \notin Served
  BY <1>2, <1>3 DEF Unseen
<1>6. \A d \in Matching : Rank(d) \in Nat
  BY UnseenCounts
<1>7. \A d \in Matching : d \in Served <=> Rank(d) \in o..(o + size - 1)
  BY <1>0 DEF Served
<1>8. ASSUME NEW S \in SUBSET Unseen, \A d \in S : Rank(d) < o
      PROVE  Cardinality(S) <= walk.gone
  <2>1. S \in SUBSET Missed(o) /\ Missed(o) \in SUBSET Unseen
    BY <1>8 DEF Missed
  <2>2. Cardinality(S) <= Cardinality(Missed(o))
        /\ Cardinality(S) \in Nat /\ Cardinality(Missed(o)) \in Nat
    BY <1>8, <2>1, UnseenCounts
  <2>3. Cardinality(Missed(o)) <= walk.gone
    BY <1>0
  <2> QED
    BY <1>2, <2>2, <2>3
<1>9. Cardinality(Missed(o + size)') <= walk.gone
  <2>1. \A d \in Missed(o + size)' : d \in Unseen /\ Rank(d) < o
    <3>1. \A d \in Missed(o + size)' : d \in Unseen' /\ Rank(d) < o + size
      BY <1>3 DEF Missed
    <3> QED
      BY <1>4, <1>5, <1>6, <1>7, <3>1
  <2> QED
    BY <1>8, <2>1
<1>10. ASSUME Served = {}
       PROVE  Cardinality(Unseen') <= walk.gone
  <2>1. n \in Nat /\ n <= o
    <3>1. n \in Nat
      BY <1>0, SubsetsCount, UnseenCounts
    <3>2. 0 = AtMost(AtLeast(n - o, 0), size)
      BY <1>0, <1>10, ServedAddUp, FS_EmptySet
    <3> QED
      BY <1>4, <3>1, <3>2 DEF AtMost, AtLeast
  <2>2. \A d \in Matching : Rank(d) < n
    <3>1. \A d \in Matching : Rank(d) \in 0..(n - 1)
      BY <1>0, RanksCount DEF Bijection, Injection
    <3> QED
      BY <2>1, <3>1
  <2>3. \A d \in Unseen' : d \in Unseen /\ Rank(d) < o
    BY <1>4, <1>5, <1>6, <2>1, <2>2
  <2> QED
    BY <1>8, <2>3
<1>11. Missed(Offset(page) + page.per_page)' = Missed(o + size)'
  <2>1. (Offset(page) + page.per_page)' = o + size
    BY <1>0, <1>1 DEF Offset
  <2> QED
    BY <2>1 DEF Missed
<1> QED
  BY <1>1, <1>2, <1>9, <1>10, <1>11

\* The same rows stand before the same row as long as neither the list nor
\* what the client has seen of it changes.
LEMMA MissedStays ==
    ASSUME UNCHANGED <<docs, request>>, walk'.touched = walk.touched,
           walk'.seen = walk.seen, NEW k
    PROVE  Unseen' = Unseen /\ Missed(k)' = Missed(k)
BY DEF Unseen, Missed, Matching, Rank, Selects

LEMMA NextOwesNoMore ==
    ASSUME TypeOK, TypeOK', Dated, WalkOwesOnlyWhatReceded, [Next]_vars
    PROVE  WalkOwesOnlyWhatReceded'
<1>0. PICK o, e : o = Offset(page) /\ e = Offset(page) + page.per_page
  OBVIOUS
<1>1. o \in Nat /\ e \in Nat
  BY <1>0, OffsetIsARow
<1>2. ASSUME page' = page
      PROVE  (Offset(page) = o)' /\ (Offset(page) + page.per_page = e)'
  BY <1>0, <1>2 DEF Offset
<1>3. ASSUME UNCHANGED vars \/ \E w \in Writers : Begin(w)
      PROVE  WalkOwesOnlyWhatReceded'
  <2>1. UNCHANGED <<docs, request, page, pc, walk>>
    BY <1>3 DEF vars, Begin
  <2>2. /\ Unseen' = Unseen
        /\ Missed(o)' = Missed(o) /\ Missed(e)' = Missed(e)
    BY <2>1, MissedStays
  <2> QED
    BY <1>0, <1>2, <2>1, <2>2 DEF WalkOwesOnlyWhatReceded
<1>4. ASSUME NEW w \in Writers, Commit(w)
      PROVE  WalkOwesOnlyWhatReceded'
  <2>1. UNCHANGED <<request, page, pc>>
    BY <1>4 DEF Commit
  <2>2. /\ Cardinality(Missed(o)) <= walk.gone =>
             Cardinality(Missed(o)') <= walk'.gone
        /\ Cardinality(Missed(e)) <= walk.gone =>
             Cardinality(Missed(e)') <= walk'.gone
    BY <1>1, <1>4, CommitMissesOne
  <2>3. Cardinality(Unseen) <= walk.gone => Cardinality(Unseen') <= walk'.gone
    <3>1. /\ Unseen' \in SUBSET Unseen
          /\ walk'.gone \in Nat /\ walk'.gone >= walk.gone /\ walk.gone \in Nat
      BY <1>1, <1>4, CommitMissesOne DEF TypeOK
    <3>2. /\ Cardinality(Unseen') <= Cardinality(Unseen)
          /\ Cardinality(Unseen') \in Nat /\ Cardinality(Unseen) \in Nat
      BY <3>1, UnseenCounts
    <3> QED
      BY <3>1, <3>2
  <2> QED
    BY <1>0, <1>2, <2>1, <2>2, <2>3 DEF WalkOwesOnlyWhatReceded
<1>5. CASE Ask
  <2>1. /\ pc' \in {"refused", "count"} /\ walk' = NewWalk
        /\ pc' = "count" =>
             page' = Normalised(request'.page, request'.per_page)
    BY <1>5 DEF Ask
  <2>2. ASSUME pc' = "count", page'.page = 1
        PROVE  Cardinality(Missed(Offset(page))') <= walk'.gone
    <3>1. Offset(page)' = 0
      <4>1. page'.per_page \in Nat
        BY PaginationAssumption DEF TypeOK
      <4>2. (1 - 1) * page'.per_page = 0
        BY <4>1
      <4> QED
        BY <2>2, <4>2, PaginationAssumption DEF Offset, AtMost
    <3>2. \A d \in Unseen' : Rank(d)' \in Nat
      <4>1. ASSUME NEW d
            PROVE  {f \in Matching' : docs'[f].updated > docs'[d].updated}
                       \in SUBSET Docs
        BY DEF Matching
      <4> QED
        BY <4>1, SubsetsCount DEF Rank
    <3>3. Missed(Offset(page))' = {}
      BY <3>1, <3>2 DEF Missed
    <3>4. walk'.gone = 0
      BY <2>1 DEF NewWalk
    <3> QED
      BY <3>3, <3>4, FS_EmptySet
  <2> QED
    BY <2>1, <2>2 DEF WalkOwesOnlyWhatReceded
<1>6. CASE Count
  <2>1. /\ pc = "count" /\ pc' = "rows" /\ UNCHANGED <<docs, request, page>>
        /\ walk' = [walk EXCEPT !.torn = FALSE]
    BY <1>6 DEF Count, store
  <2>2. /\ walk'.touched = walk.touched /\ walk'.seen = walk.seen
        /\ walk'.gone = walk.gone
    BY <2>1 DEF TypeOK
  <2>3. Missed(o)' = Missed(o)
    BY <2>1, <2>2, MissedStays
  <2> QED
    BY <1>0, <1>2, <2>1, <2>2, <2>3 DEF WalkOwesOnlyWhatReceded
<1>7. CASE FetchRows
  <2>1. /\ pc = "rows" /\ pc' \in {"over", "answered"}
        /\ UNCHANGED <<request, page>>
    BY <1>7 DEF FetchRows
  <2> QED
    BY <1>7, <2>1, FetchOwesNoMore DEF WalkOwesOnlyWhatReceded
<1>8. CASE TurnPage
  <2>1. /\ pc = "answered" /\ pc' = "count" /\ UNCHANGED <<docs, request, walk>>
        /\ page.page < MaxInt /\ page' = Page(page.page + 1, page.per_page)
    BY <1>8 DEF TurnPage, store
  <2>2. PICK next : next = Offset(page)'
    OBVIOUS
  <2>3. next \in Nat /\ next <= e
    <3>1. /\ Offset(page') = e \/ (Offset(page') = MaxInt /\ e >= MaxInt)
          /\ MaxInt \in Nat
      BY <1>0, <2>1, PagesAbut, OffsetIsARow, PaginationAssumption DEF Tiles
    <3>2. Offset(page)' = Offset(page')
      BY DEF Offset
    <3> QED
      BY <1>1, <2>2, <3>1, <3>2
  <2>4. Missed(next)' = Missed(next)
    BY <2>1, MissedStays
  <2>5. Missed(next) \in SUBSET Missed(e) /\ Missed(e) \in SUBSET Unseen
    <3>1. \A d \in Unseen : Rank(d) \in Nat
      BY UnseenCounts
    <3> QED
      BY <1>1, <2>3, <3>1 DEF Missed
  <2>6. /\ Cardinality(Missed(next)) <= Cardinality(Missed(e))
        /\ Cardinality(Missed(next)) \in Nat /\ Cardinality(Missed(e)) \in Nat
    BY <2>5, UnseenCounts
  <2>7. Cardinality(Missed(e)) <= walk.gone =>
            Cardinality(Missed(next)') <= walk.gone
    BY <2>4, <2>6 DEF TypeOK
  <2> QED
    BY <1>0, <2>1, <2>2, <2>7 DEF WalkOwesOnlyWhatReceded
<1> QED
  BY <1>3, <1>4, <1>5, <1>6, <1>7, <1>8 DEF Next

\* A client that walks the list from its first page to an empty one misses,
\* of the documents nobody wrote meanwhile, no more than rows receded: for any
\* number of documents, writers and pages, wherever the offset saturates.
THEOREM WalksMissOnlyWhatReceded == Spec => []WalkMissesOnlyWhatReceded
<1>1. Init => WalkOwesOnlyWhatReceded
  BY DEF Init, WalkOwesOnlyWhatReceded
<1>2. WalkOwesOnlyWhatReceded => WalkMissesOnlyWhatReceded
  BY DEF WalkOwesOnlyWhatReceded, WalkMissesOnlyWhatReceded, Unseen
<1>3. TypeOK /\ TypeOK' /\ Dated /\ WalkOwesOnlyWhatReceded /\ [Next]_vars =>
          WalkOwesOnlyWhatReceded'
  BY NextOwesNoMore
<1> QED
  BY <1>1, <1>2, <1>3, ListTypeCorrect, DatedAtFirst, NextKeepsDated, PTL
  DEF Spec
=============================================================================
