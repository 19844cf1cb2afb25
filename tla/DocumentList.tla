----------------------------- MODULE DocumentList -----------------------------
(***************************************************************************)
(* list_documents: one READ COMMITTED transaction of two statements, a     *)
(* count and a page of rows, which see two different snapshots while other *)
(* calls write.  A client reads a page, or walks from page to page on the  *)
(* numbers each answer reports.                                            *)
(*                                                                         *)
(* A write is its transaction's start, which is what now() and therefore   *)
(* updated_at say, and its COMMIT.  DocumentStore has the statements       *)
(* between them.  Two transactions never start in the same microsecond.    *)
(***************************************************************************)
EXTENDS Pagination, Sequences, FiniteSets

CONSTANTS
    Docs,
    Existing,   \* the documents there are at the start, oldest update first
    Writers,    \* calls that write, one transaction each
    Menu        \* the list requests a client may send

Filters == {"none", "draft", "published", "archived", "unknown"}

ASSUME ListAssumption ==
    /\ IsFiniteSet(Docs)
    /\ Existing \in Seq(Docs)
    /\ Menu \subseteq [page: Parameters, per_page: Parameters, status: Filters]

VARIABLES
    docs,       \* the tenant's rows; updated is 0 for one not yet inserted
    clock,      \* the last transaction start
    writer,     \* each writing call
    pc,         \* where the client's request stands
    request,    \* what the client asked first
    page,       \* the page being served
    total,      \* what the count returned
    found,      \* the documents of the last answer
    walk        \* what the client has seen, and what was written meanwhile

vars == <<docs, clock, writer, pc, request, page, total, found, walk>>
store == <<docs, clock, writer>>

Row(live, status, updated) ==
    [live |-> live, status |-> status, updated |-> updated]

Place(d) == CHOOSE i \in DOMAIN Existing : Existing[i] = d
Exists(d) == \E i \in DOMAIN Existing : Existing[i] = d

\* The documents served and those written since the walk began, how many rows
\* receded, and whether a write fell between the last count and its rows.
NewWalk == [seen |-> {}, touched |-> {}, gone |-> 0, torn |-> FALSE]

Init ==
    /\ docs = [d \in Docs |->
                IF Exists(d) THEN Row(TRUE, "draft", Place(d))
                             ELSE Row(FALSE, "draft", 0)]
    /\ clock = Len(Existing)
    /\ writer = [w \in Writers |-> [step |-> "idle", began |-> 0]]
    /\ pc = "idle"
    /\ request = [page |-> Blank, per_page |-> Blank, status |-> "none"]
    /\ page = Normalised(Blank, Blank)
    /\ total = 0
    /\ found = {}
    /\ walk = NewWalk

-----------------------------------------------------------------------------
(* Writers.                                                                *)

\* BEGIN fixes now() for the whole transaction.
Begin(w) ==
    /\ writer[w].step = "idle"
    /\ clock' = clock + 1
    /\ writer' = [writer EXCEPT ![w] = [step |-> "open", began |-> clock + 1]]
    /\ UNCHANGED <<docs, pc, request, page, total, found, walk>>

\* can_transition_to
Later(status) ==
    IF status = "draft" THEN {"published", "archived"}
    ELSE IF status = "published" THEN {"archived"} ELSE {}

\* What a call may leave of row r: an insert, a save, snapshot or rename, a
\* change of status, or a soft delete, which does not touch updated_at.
Effects(r, now) ==
    IF r.updated = 0 THEN {Row(TRUE, "draft", now)}
    ELSE IF ~r.live THEN {}
    ELSE {Row(TRUE, r.status, now), Row(FALSE, "archived", r.updated)}
         \cup {Row(TRUE, s, now) : s \in Later(r.status)}

\* AND status = $2, when a status was given.
Selects(r, status) == r.live /\ status \in {"none", r.status}

\* The row moved back in the list or out of it.
Recedes(old, new) ==
    /\ Selects(old, request.status)
    /\ ~Selects(new, request.status) \/ new.updated < old.updated

Commit(w) ==
    /\ writer[w].step = "open"
    /\ \E d \in Docs : \E r \in Effects(docs[d], writer[w].began) :
        /\ docs' = [docs EXCEPT ![d] = r]
        /\ walk' = [walk EXCEPT !.touched = @ \cup {d},
                                !.gone = IF Recedes(docs[d], r) THEN @ + 1 ELSE @,
                                !.torn = @ \/ pc = "rows"]
    /\ writer' = [writer EXCEPT ![w].step = "done"]
    /\ UNCHANGED <<clock, pc, request, page, total, found>>

-----------------------------------------------------------------------------
(* The list.                                                               *)

\* WHERE live and, when asked for, of one status.
Matching == {d \in Docs : Selects(docs[d], request.status)}

\* Broken variant: ORDER BY updated_at, oldest first.
RankAscending(d) ==
    Cardinality({e \in Matching : docs[e].updated < docs[d].updated})

\* ORDER BY updated_at DESC: how many rows come before d.
Rank(d) == Cardinality({e \in Matching : docs[e].updated > docs[d].updated})

Served == {d \in Matching : Rank(d) \in Offset(page)..(Offset(page) + page.per_page - 1)}

\* Pagination::parse, then the status, are checked before a connection is
\* taken.
Ask ==
    /\ pc = "idle"
    /\ \E r \in Menu :
        /\ request' = r
        /\ \/ /\ ~Readable(r.page) \/ ~Readable(r.per_page) \/ r.status = "unknown"
              /\ pc' = "refused"
              /\ UNCHANGED page
           \/ /\ Readable(r.page) /\ Readable(r.per_page) /\ r.status # "unknown"
              /\ pc' = "count"
              /\ page' = Normalised(r.page, r.per_page)
    /\ walk' = NewWalk
    /\ UNCHANGED <<store, total, found>>

\* Broken variant: the two statements do not share their predicate.
CountAnyStatus ==
    /\ pc = "count"
    /\ total' = Cardinality({d \in Docs : docs[d].live})
    /\ walk' = [walk EXCEPT !.torn = FALSE]
    /\ pc' = "rows"
    /\ UNCHANGED <<store, request, page, found>>

Count ==
    /\ pc = "count"
    /\ total' = Cardinality(Matching)
    /\ walk' = [walk EXCEPT !.torn = FALSE]
    /\ pc' = "rows"
    /\ UNCHANGED <<store, request, page, found>>

FetchRows ==
    /\ pc = "rows"
    /\ found' = Served
    /\ walk' = [walk EXCEPT !.seen = @ \cup Served]
    /\ pc' = IF Served = {} THEN "over" ELSE "answered"
    /\ UNCHANGED <<store, request, page, total>>

\* The client asks for the page after the one that was reported.
TurnPage ==
    /\ pc = "answered"
    /\ page.page < MaxInt
    /\ page' = Page(page.page + 1, page.per_page)
    /\ pc' = "count"
    /\ UNCHANGED <<store, request, total, found, walk>>

Next ==
    \/ \E w \in Writers : Begin(w) \/ Commit(w)
    \/ Ask \/ Count \/ FetchRows \/ TurnPage

Spec == Init /\ [][Next]_vars

-----------------------------------------------------------------------------
\* Every variable keeps its type.
TypeOK ==
    /\ docs \in [Docs -> [live: BOOLEAN, status: Filters \ {"none", "unknown"}, updated: Nat]]
    /\ clock \in Nat /\ total \in Nat
    /\ writer \in [Writers -> [step: {"idle", "open", "done"}, began: Nat]]
    /\ pc \in {"idle", "refused", "count", "rows", "answered", "over"}
    /\ request \in [page: Parameters, per_page: Parameters, status: Filters]
    /\ page \in [page: 1..MaxInt, per_page: 1..MaxPerPage]
    /\ found \subseteq Docs
    /\ walk \in [seen: SUBSET Docs, touched: SUBSET Docs, gone: Nat,
                torn: BOOLEAN]

\* openapi.yaml: "Paginate on what comes back": every page that is served is
\* the one its reported numbers ask for, and the pages of a walk abut, also at
\* the numbers where (page - 1) * per_page no longer fits.
PagesTile == Tiles(page)

\* A client that walks from the first page to an empty one misses, of the
\* documents nobody wrote meanwhile, no more than the number of rows that left
\* the list or moved back in it: a write that moves a document to the front,
\* or adds one, makes nobody skip a document.
WalkMissesOnlyWhatReceded ==
    pc = "over" /\ Normalised(request.page, request.per_page).page = 1 =>
        Cardinality({d \in Matching : d \notin walk.touched \cup walk.seen})
            <= walk.gone

\* openapi.yaml: total is the "Size of the whole collection, not of the page":
\* unless a write falls between the two statements, the rows of an answer are
\* just what the total says is left from the offset on.
AnswersAddUp ==
    pc \in {"answered", "over"} /\ ~walk.torn =>
        Cardinality(found) =
            AtMost(AtLeast(total - Offset(page), 0), page.per_page)
=============================================================================
