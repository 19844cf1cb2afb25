---------------------------- MODULE MCDocumentList ----------------------------
(* Instances of DocumentList small enough for TLC. *)
EXTENDS DocumentList, TLC

CONSTANTS d1, d2, d3, d4, w1, w2

FirstThree == <<d1, d2, d3>>

\* Every page that an i64 of four bits can ask for, with page sizes on each
\* side of both clamps; and each filter on the first page.
EveryRequest ==
    [page: Parameters,
     per_page: {Blank, Garbled} \cup {Number(n) : n \in {-MaxInt - 1, 0, 2, MaxInt}},
     status: {"none"}]
    \cup [page: {Blank}, per_page: {Blank, Number(2)}, status: {"draft", "unknown"}]

WriterSymmetry == Permutations(Writers)
=============================================================================
