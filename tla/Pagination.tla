------------------------------ MODULE Pagination ------------------------------
(***************************************************************************)
(* domain/pagination.rs: the page a list serves, computed from what the    *)
(* query string carries.  The same value is consumed by the query and      *)
(* reported in the answer.                                                 *)
(***************************************************************************)
EXTENDS Integers

CONSTANTS
    MaxInt,             \* i64::MAX
    MaxPerPage,         \* Pagination::MAX_PER_PAGE
    DefaultPerPage      \* Pagination::DEFAULT_PER_PAGE

ASSUME PaginationAssumption ==
    /\ MaxInt \in Nat
    /\ MaxPerPage \in 1..MaxInt
    /\ DefaultPerPage \in 1..MaxPerPage

Int64 == (-MaxInt - 1)..MaxInt

\* A query parameter: absent or blank, a number that fits, or anything else.
Parameter(kind, n) == [kind |-> kind, number |-> n]
Blank     == Parameter("blank", 0)
Garbled   == Parameter("garbled", 0)
Number(n) == Parameter("number", n)

Parameters == {Blank, Garbled} \cup {Number(n) : n \in Int64}

Readable(p) == p # Garbled

GivenOr(p, default) == IF p = Blank THEN default ELSE p.number

AtLeast(n, low) == IF n < low THEN low ELSE n
AtMost(n, high) == IF n > high THEN high ELSE n

\* Broken variant: the page size is reported as it was asked for.
NormalisedUnclamped(page, per_page) ==
    [page     |-> AtLeast(GivenOr(page, 1), 1),
     per_page |-> AtLeast(GivenOr(per_page, DefaultPerPage), 1)]

\* Pagination::new
Normalised(page, per_page) ==
    [page     |-> AtLeast(GivenOr(page, 1), 1),
     per_page |-> AtMost(AtLeast(GivenOr(per_page, DefaultPerPage), 1), MaxPerPage)]

\* Broken variant: the multiplication wraps, as it did on a release build.
OffsetWrapping(p) ==
    LET width == 2 * (MaxInt + 1)
        raw   == ((p.page - 1) * p.per_page) % width
    IN IF raw > MaxInt THEN raw - width ELSE raw

\* Rows to skip: saturating_mul.
Offset(p) == AtMost((p.page - 1) * p.per_page, MaxInt)

Page(n, size) == Normalised(Number(n), Number(size))

-----------------------------------------------------------------------------
\* The numbers of p, sent again, serve p; the page after it starts where it
\* ends; and no page starts at a negative row, however far it is.
Tiles(p) ==
    LET next == Page(p.page + 1, p.per_page) IN
    /\ Page(p.page, p.per_page) = p
    /\ p.per_page <= MaxPerPage
    /\ Offset(p) \in 0..MaxInt
    /\ p.page < MaxInt =>
         \/ Offset(next) = Offset(p) + p.per_page
         \/ Offset(next) = MaxInt /\ Offset(p) + p.per_page >= MaxInt
=============================================================================
