--------------------------- MODULE DocumentHistory ---------------------------
(***************************************************************************)
(* What the service promises its products about documents: every accepted  *)
(* request takes effect at one instant, on the document as it is at that   *)
(* instant; every body ever saved stays in the history under the number it *)
(* was given; a deleted document never changes again.  Nothing here knows  *)
(* of transactions, locks or events.                                       *)
(***************************************************************************)
EXTENDS Documents, Sequences

CONSTANT Origin     \* the documents that exist at the start, with their tenant

VARIABLES docs, versions

vars == <<docs, versions>>

Init ==
    /\ docs = [d \in Docs |-> IF d \in DOMAIN Origin
                              THEN NewRow(Origin[d], "past", "past")
                              ELSE Absent]
    /\ versions = [d \in Docs |-> IF d \in DOMAIN Origin
                                  THEN <<Entry("past", "past", TRUE)>>
                                  ELSE <<>>]

Alive(d) == docs[d].version > 0 /\ ~docs[d].deleted

\* The history of d gains the next number.
Records(d, e) == versions' = [versions EXCEPT ![d] = Append(@, e)]

Create(d, p) ==
    /\ docs[d] = Absent
    /\ \E t \in Tenants, content \in Texts :
        /\ docs' = [docs EXCEPT ![d] = NewRow(t, p, content)]
        /\ Records(d, Entry(content, p, TRUE))

\* A document may be renamed and change status in one request.
LegalStatus(d, status) ==
    status = docs[d].status \/ CanTransition(docs[d].status, status)

Rewritten(d, title, status, version, content) ==
    docs' = [docs EXCEPT ![d] =
        Row(docs[d].tenant, title, status, FALSE, version, content)]

Amend(d, p) ==
    /\ Alive(d)
    /\ \E title \in {p, docs[d].title}, status \in Statuses :
        /\ LegalStatus(d, status)
        /\ Rewritten(d, title, status, docs[d].version, docs[d].content)
    /\ UNCHANGED versions

\* A new body, with or without an amendment: always a new version.
Save(d, p) ==
    /\ Alive(d)
    /\ \E title \in {p, docs[d].title}, status \in Statuses :
        /\ LegalStatus(d, status)
        /\ Rewritten(d, title, status, docs[d].version + 1, p)
    /\ Records(d, Entry(p, p, TRUE))

\* A snapshot repeats the current body under a number of its own.
Snapshot(d, p) ==
    /\ Alive(d)
    /\ docs' = [docs EXCEPT ![d] = Numbered(docs[d], docs[d].version + 1)]
    /\ Records(d, Entry(docs[d].content, p, FALSE))

Delete(d) ==
    /\ Alive(d)
    /\ docs' = [docs EXCEPT ![d] = Removed(docs[d])]
    /\ UNCHANGED versions

Next == \E d \in Docs :
    \/ Delete(d)
    \/ \E p \in Calls :
        Create(d, p) \/ Amend(d, p) \/ Save(d, p) \/ Snapshot(d, p)

Spec == Init /\ [][Next]_vars
=============================================================================
