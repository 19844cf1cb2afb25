------------------------------ MODULE Documents ------------------------------
(***************************************************************************)
(* The domain model: document rows, version rows and the status rules.     *)
(* What a call writes (a body, a title) is told apart by the call that     *)
(* wrote it.  Metadata is written exactly as a title is and is not a field *)
(* of its own; word_count is a function of the content.                    *)
(***************************************************************************)
EXTENDS Naturals

CONSTANTS
    Calls,      \* HTTP requests, each of which arrives at most once
    Docs,       \* document identifiers, assigned or still unused
    Tenants,
    NoTenant

ASSUME NoTenantAssumption == NoTenant \notin Tenants

\* No call is taken for what was there before the calls.
ASSUME CallsAssumption == "past" \notin Calls

Statuses == {"draft", "published", "archived"}

\* Broken variant: any known status may follow any other.
CanTransitionFreely(from, to) == to \in Statuses

\* DocumentStatus::can_transition_to
CanTransition(from, to) ==
    <<from, to>> \in {<<"draft", "published">>, <<"published", "archived">>,
                      <<"draft", "archived">>}

\* Bodies and titles: written by a call, left by an earlier one, taken from
\* a template, or empty.
Texts == Calls \cup {"past", "template", "empty"}

Rows == [tenant: Tenants \cup {NoTenant}, title: Texts, status: Statuses,
         deleted: BOOLEAN, version: Nat, content: Texts]

Row(tenant, title, status, deleted, version, content) ==
    [tenant |-> tenant, title |-> title, status |-> status,
     deleted |-> deleted, version |-> version, content |-> content]

\* A document that does not exist.
Absent == Row(NoTenant, "empty", "draft", FALSE, 0, "empty")

\* A row as an INSERT leaves it: a draft at version 1.
NewRow(tenant, title, content) ==
    Row(tenant, title, "draft", FALSE, 1, content)

\* A row with another version number.
Numbered(row, n) ==
    Row(row.tenant, row.title, row.status, row.deleted, n, row.content)

\* A soft-deleted row.
Removed(row) ==
    Row(row.tenant, row.title, "archived", TRUE, row.version, row.content)

Entries == [content: Texts, by: Calls \cup {"past"}, auto: BOOLEAN]

\* A row of document_versions; its number is its place in the history.
Entry(content, by, auto) == [content |-> content, by |-> by, auto |-> auto]

\* The history h with row number n added to it.
WithEntry(h, n, e) ==
    [k \in DOMAIN h \cup {n} |-> IF k = n THEN e ELSE h[k]]

=============================================================================
