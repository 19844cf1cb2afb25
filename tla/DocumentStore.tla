---------------------------- MODULE DocumentStore ----------------------------
(***************************************************************************)
(* Documents, their version history and the events about them, as the      *)
(* service writes them through PostgreSQL: every call of the API runs as   *)
(* one or two READ COMMITTED transactions, one statement per step, and     *)
(* publishes its events after COMMIT.                                      *)
(*                                                                         *)
(* A call is one HTTP request from its arrival to its answer; calls run    *)
(* concurrently, on any number of instances over one database.             *)
(*                                                                         *)
(* Definitions marked "Broken variant" are not part of the specification:  *)
(* each is a bug the code has had or could have, and stands in for the     *)
(* definition after it when the properties themselves are tested.          *)
(***************************************************************************)
EXTENDS Documents, Sequences, FiniteSets

CONSTANTS
    NoCall, NoDoc,
    Seeded,     \* the documents that exist at the start, with their tenant
    Menu,       \* the requests clients may send
    PoolSize,   \* connections of the serving pool
    Faults      \* which failures of the environment may happen

\* A body is absent from a request, within the ceiling, or over it.
Sizes == {"absent", "fits", "oversize"}

Creates   == [op: {"create"}, tenant: Tenants, body: Sizes,
              template: {"none", "own", "system", "foreign", "huge"}]
Updates   == [op: {"update"}, tenant: Tenants, doc: Docs, body: Sizes,
              title: BOOLEAN, status: Statuses \cup {"absent", "unknown"}]
Targeted  == [op: {"delete", "snapshot", "get", "list_versions"},
              tenant: Tenants, doc: Docs]
GetVersions == [op: {"get_version"}, tenant: Tenants, doc: Docs, version: Nat]
Requests  == Creates \cup Updates \cup Targeted \cup GetVersions

AllFaults == {"commit", "crash", "pool", "bus"}

ASSUME ConstantsAssumption ==
    /\ NoCall \notin Calls /\ NoDoc \notin Docs
    /\ DOMAIN Seeded \subseteq Docs
    /\ \A d \in DOMAIN Seeded : Seeded[d] \in Tenants
    /\ Menu \subseteq Requests
    /\ PoolSize \in Nat \ {0}
    /\ Faults \subseteq AllFaults

VARIABLES
    docs,       \* committed rows of editor.documents
    versions,   \* committed rows of editor.document_versions, by number
    lock,       \* the call whose transaction holds each document row
    pc,         \* where each call stands
    call,       \* the request of each call
    target,     \* the document each call is about
    began,      \* the target's version and deletion when the call arrived
    work,       \* what the call's open transaction has read and written
    reply,      \* the call's answer, delivered once pc is "done"
    outbox,     \* events the call has still to publish
    bus         \* events in the order the event bus accepted them

vars == <<docs, versions, lock, pc, call, target, began, work, reply, outbox,
          bus>>

tables == <<docs, versions>>

-----------------------------------------------------------------------------
(* Values.                                                                 *)

NoEntry == Entry("empty", "past", FALSE)

\* What a transaction has read under FOR UPDATE and has not yet committed: the
\* document row, and the version row `number` unless that is 0.
Pending(read, row, number, entry) ==
    [read |-> read, row |-> row, number |-> number, entry |-> entry]

NoWork == Pending(Absent, Absent, 0, NoEntry)

\* w once its transaction has read, written or recorded one thing more.
Reads(w, row)      == Pending(row, w.row, w.number, w.entry)
Writes(w, row)     == Pending(w.read, row, w.number, w.entry)
Records(w, n, e)   == Pending(w.read, w.row, n, e)

Codes == {"none", "ok", "not_found", "bad_request", "unprocessable", "internal"}

Answer(code, version, body, rows) ==
    [code |-> code, version |-> version, body |-> body, rows |-> rows]

Failure(code) == Answer(code, 0, "empty", {})

NoAnswer == Failure("none")

Events == [type: {"created", "version", "published", "updated", "deleted"},
           doc: Docs, version: Nat, auto: BOOLEAN, by: Calls]

NoRequest == [op |-> "none"]

PCs == {"idle", "template", "connect", "insert_document", "select", "update",
        "insert_version", "bump", "delete", "read", "check", "fetch",
        "commit", "publish", "done", "lost"}

\* The program points at which a call holds a connection.
InTransaction == {"insert_document", "select", "update", "insert_version",
                  "bump", "delete", "read", "check", "fetch", "commit"}

-----------------------------------------------------------------------------
Init ==
    /\ docs = [d \in Docs |-> IF d \in DOMAIN Seeded
                              THEN NewRow(Seeded[d], "past", "past")
                              ELSE Absent]
    /\ versions = [d \in Docs |-> IF d \in DOMAIN Seeded
                                  THEN <<Entry("past", "past", TRUE)>>
                                  ELSE <<>>]
    /\ lock = [d \in Docs |-> NoCall]
    /\ pc = [p \in Calls |-> "idle"]
    /\ call = [p \in Calls |-> NoRequest]
    /\ target = [p \in Calls |-> NoDoc]
    /\ began = [p \in Calls |-> [version |-> 0, deleted |-> FALSE]]
    /\ work = [p \in Calls |-> NoWork]
    /\ reply = [p \in Calls |-> NoAnswer]
    /\ outbox = [p \in Calls |-> <<>>]
    /\ bus = <<>>

-----------------------------------------------------------------------------
(* What PostgreSQL does.                                                   *)

\* Broken variant: no predicate on the tenant.
LiveAnyTenant(d, t) == docs[d].version > 0 /\ ~docs[d].deleted

\* WHERE id = d AND tenant_id = t AND deleted_at IS NULL
Live(d, t) == docs[d].tenant = t /\ ~docs[d].deleted

\* A row lock is granted when no other transaction holds it, and held to the
\* end of the transaction.
TakeLock(p, d) ==
    /\ lock[d] \in {NoCall, p}
    /\ lock' = [lock EXCEPT ![d] = p]

\* UNIQUE (document_id, version): an insert waits for a transaction that has
\* the same key uncommitted.
KeyFree(p, d, n) ==
    \A q \in Calls \ {p} : ~(target[q] = d /\ work[q].number = n)

\* Broken variant: an error path that does not roll back keeps its locks.
ReleasedOnCommit(p) ==
    [d \in Docs |-> IF lock[d] = p /\ pc[p] = "commit" THEN NoCall
                                                       ELSE lock[d]]

Released(p) == [d \in Docs |-> IF lock[d] = p THEN NoCall ELSE lock[d]]

\* The tables once the writes of p are committed.
DocsAfter(p) == IF work[p].row = Absent THEN docs
                ELSE [docs EXCEPT ![target[p]] = work[p].row]
VersionsAfter(p) ==
    IF work[p].number = 0 THEN versions
    ELSE [versions EXCEPT
            ![target[p]] = WithEntry(@, work[p].number, work[p].entry)]

EndTransaction(p) ==
    /\ lock' = Released(p)
    /\ work' = [work EXCEPT ![p] = NoWork]

Goto(p, step) == pc' = [pc EXCEPT ![p] = step]

\* The call goes on to its next statement.
Continue(p, step) ==
    /\ Goto(p, step)
    /\ UNCHANGED <<tables, call, target, began, reply, outbox, bus>>

Respond(p, answer) ==
    /\ Goto(p, "done")
    /\ reply' = [reply EXCEPT ![p] = answer]

\* An error is answered and the transaction dropped, which rolls it back.
Fail(p, code) ==
    /\ Respond(p, Failure(code))
    /\ EndTransaction(p)
    /\ UNCHANGED <<tables, call, target, began, outbox, bus>>

-----------------------------------------------------------------------------
(* Arrival: what is decided before a connection is asked for.              *)

\* Refusals that need no database, by answer.
Refusal(r) ==
    IF r.op = "create" /\ r.body # "absent" /\ r.template # "none"
    THEN "bad_request"
    ELSE IF r.op \in {"create", "update"} /\ r.body = "oversize"
    THEN "unprocessable"
    ELSE "none"

FromTemplate(r) == r.op = "create" /\ r.template # "none"

Arrive(p) ==
    /\ pc[p] = "idle"
    /\ \E r \in Menu :
        /\ call' = [call EXCEPT ![p] = r]
        /\ IF r.op = "create"
           THEN UNCHANGED <<target, began>>
           ELSE /\ target' = [target EXCEPT ![p] = r.doc]
                /\ began' = [began EXCEPT
                     ![p] = [version |-> docs[r.doc].version,
                             deleted |-> docs[r.doc].deleted]]
        /\ IF Refusal(r) # "none"
           THEN Respond(p, Failure(Refusal(r)))
           ELSE /\ Goto(p, IF FromTemplate(r) THEN "template" ELSE "connect")
                /\ UNCHANGED reply
    /\ UNCHANGED <<tables, lock, work, outbox, bus>>

PoolFree == Cardinality({q \in Calls : pc[q] \in InTransaction}) < PoolSize

\* get_template: a transaction of its own, over before the document's starts.
\* A foreign template is indistinguishable from none; the body it brings is
\* held to the same ceiling.
FetchTemplate(p) ==
    /\ pc[p] = "template"
    /\ PoolFree
    /\ \/ /\ call[p].template = "foreign"
          /\ Fail(p, "not_found")
       \/ /\ call[p].template = "huge"
          /\ Fail(p, "unprocessable")
       \/ /\ call[p].template \in {"own", "system"}
          /\ Continue(p, "connect")
          /\ UNCHANGED <<lock, work>>

FirstStatement(op) ==
    CASE op = "create" -> "insert_document"
      [] op \in {"update", "snapshot"} -> "select"
      [] op = "delete" -> "delete"
      [] op = "get" -> "read"
      [] op \in {"list_versions", "get_version"} -> "check"

\* begin_tenant_tx
Connect(p) ==
    /\ pc[p] = "connect"
    /\ PoolFree
    /\ Continue(p, FirstStatement(call[p].op))
    /\ UNCHANGED <<lock, work>>

-----------------------------------------------------------------------------
(* The statements of the writing transactions.                             *)

\* The body a create stores: the client's, the template's, or none.
CreatedBody(r, p) == IF FromTemplate(r) THEN "template"
                     ELSE IF r.body = "fits" THEN p ELSE "empty"

\* Broken variant: the history of a document starts at its first save.
InsertDocumentUnversioned(p) ==
    /\ pc[p] = "insert_document"
    /\ \E d \in Docs :
        /\ docs[d] = Absent
        /\ \A q \in Calls : target[q] # d
        /\ target' = [target EXCEPT ![p] = d]
        /\ work' = [work EXCEPT
             ![p] = Writes(@, NewRow(call[p].tenant, p, CreatedBody(call[p], p)))]
    /\ Goto(p, "commit")
    /\ UNCHANGED <<tables, lock, call, began, reply, outbox, bus>>

\* INSERT INTO documents, under an identifier nobody else has.
InsertDocument(p) ==
    /\ pc[p] = "insert_document"
    /\ \E d \in Docs :
        /\ docs[d] = Absent
        /\ \A q \in Calls : target[q] # d
        /\ target' = [target EXCEPT ![p] = d]
        /\ work' = [work EXCEPT
             ![p] = Writes(@, NewRow(call[p].tenant, p, CreatedBody(call[p], p)))]
    /\ Goto(p, "insert_version")
    /\ UNCHANGED <<tables, lock, call, began, reply, outbox, bus>>

\* Broken variants: a plain SELECT, on both paths, when saving, or when
\* taking a snapshot.
ForUpdateOmitted(p, d) == UNCHANGED lock
ForUpdateNotOnSave(p, d) ==
    IF call[p].op = "update" THEN UNCHANGED lock ELSE TakeLock(p, d)
ForUpdateNotOnSnapshot(p, d) ==
    IF call[p].op = "snapshot" THEN UNCHANGED lock ELSE TakeLock(p, d)

\* FOR UPDATE, which both writers of a version number say on the same row.
ForUpdate(p, d) == TakeLock(p, d)

\* SELECT ... WHERE live FOR UPDATE.  A waiter re-evaluates the predicate on
\* the row as the holder committed it.
SelectForUpdate(p) ==
    LET d == target[p] IN
    /\ pc[p] = "select"
    /\ \/ /\ ~Live(d, call[p].tenant)
          /\ Fail(p, "not_found")
       \/ /\ Live(d, call[p].tenant)
          /\ ForUpdate(p, d)
          /\ work' = [work EXCEPT ![p] = Reads(@, docs[d])]
          /\ Continue(p, IF call[p].op = "update" THEN "update"
                                                  ELSE "insert_version")

\* Broken variant: the requested status is stored as it came.
StatusUnchecked(r, from) == TRUE

\* The transition is checked against the row read under the lock.
StatusAccepted(r, from) ==
    r.status = "absent" \/ CanTransition(from, r.status)

RefuseTransition(p) ==
    /\ pc[p] = "update"
    /\ ~StatusAccepted(call[p], work[p].read.status)
    /\ Fail(p, "bad_request")

\* The columns an update writes: each from the request, else as it was read.
\* The rest of the row (tenant, deletion) stays as committed.
Edited(r, p, read, row) ==
    Row(row.tenant,
        IF r.title THEN p ELSE read.title,
        IF r.status = "absent" THEN read.status ELSE r.status,
        row.deleted,
        IF r.body = "fits" THEN read.version + 1 ELSE read.version,
        IF r.body = "fits" THEN p ELSE read.content)

\* Broken variant: the body is replaced and no version row is written.
UpdateDocumentUnversioned(p) ==
    LET d == target[p] IN
    /\ pc[p] = "update"
    /\ StatusAccepted(call[p], work[p].read.status)
    /\ Live(d, call[p].tenant)
    /\ TakeLock(p, d)
    /\ work' = [work EXCEPT ![p] = Writes(@, Edited(call[p], p, @.read, docs[d]))]
    /\ Continue(p, "commit")

\* UPDATE documents ... WHERE live RETURNING; no row is RowNotFound, a 404.
UpdateDocument(p) ==
    LET d == target[p] IN
    /\ pc[p] = "update"
    /\ StatusAccepted(call[p], work[p].read.status)
    /\ \/ /\ ~Live(d, call[p].tenant)
          /\ Fail(p, "not_found")
       \/ /\ Live(d, call[p].tenant)
          /\ TakeLock(p, d)
          /\ work' = [work EXCEPT ![p] = Writes(@, Edited(call[p], p, @.read, docs[d]))]
          /\ Continue(p, IF call[p].body = "fits" THEN "insert_version"
                                                  ELSE "commit")

\* The number the version row of p carries: a snapshot numbers itself from
\* what it read, the others take the number of the row they wrote.
NextVersion(p) == IF call[p].op = "snapshot" THEN work[p].read.version + 1
                                             ELSE work[p].row.version

\* Broken variant: a save records the body it replaces, not the one it brings.
NewEntryOfPreviousBody(p) ==
    Entry(work[p].read.content, p, call[p].op # "snapshot")

\* The version row of p: what it snapshots, and whether the service took it
\* of its own accord.
NewEntry(p) ==
    IF call[p].op = "snapshot" THEN Entry(work[p].read.content, p, FALSE)
                               ELSE Entry(work[p].row.content, p, TRUE)

\* insert_version.  A duplicate key is an error the service answers 500.
InsertVersion(p) ==
    LET d == target[p]
        n == NextVersion(p)
    IN
    /\ pc[p] = "insert_version"
    /\ KeyFree(p, d, n)
    /\ \/ /\ n \in DOMAIN versions[d]
          /\ Fail(p, "internal")
       \/ /\ n \notin DOMAIN versions[d]
          /\ work' = [work EXCEPT ![p] = Records(@, n, NewEntry(p))]
          /\ Continue(p, IF call[p].op = "snapshot" THEN "bump" ELSE "commit")
          /\ UNCHANGED lock

\* UPDATE documents SET current_version, with no predicate on deletion.
BumpVersion(p) ==
    LET d == target[p] IN
    /\ pc[p] = "bump"
    /\ TakeLock(p, d)
    /\ work' = [work EXCEPT ![p] = Writes(@, Numbered(docs[d], @.number))]
    /\ Continue(p, "commit")

\* UPDATE documents SET deleted_at, status = 'archived' WHERE live.
DeleteDocument(p) ==
    LET d == target[p] IN
    /\ pc[p] = "delete"
    /\ \/ /\ ~Live(d, call[p].tenant)
          /\ Fail(p, "not_found")
       \/ /\ Live(d, call[p].tenant)
          /\ TakeLock(p, d)
          /\ work' = [work EXCEPT ![p] = Writes(@, Removed(docs[d]))]
          /\ Continue(p, "commit")

-----------------------------------------------------------------------------
(* COMMIT, then the events, then the answer.                               *)

Event(p, type, version, auto) ==
    [type |-> type, doc |-> target[p], version |-> version, auto |-> auto,
     by |-> p]

When(condition, event) == IF condition THEN <<event>> ELSE <<>>

Changed(r) == r.body = "fits" \/ r.title \/ r.status # "absent"

\* Broken variant: a save is announced as an update only.
EventsWithoutSaves(p) ==
    LET r == call[p]
        v == work[p].row.version
    IN CASE r.op = "create" ->
              <<Event(p, "created", v, FALSE), Event(p, "version", v, TRUE)>>
         [] r.op = "update" ->
              When(r.status = "published", Event(p, "published", v, FALSE))
              \o When(Changed(r), Event(p, "updated", v, FALSE))
         [] r.op = "snapshot" -> <<Event(p, "version", work[p].number, FALSE)>>
         [] r.op = "delete" -> <<Event(p, "deleted", 0, FALSE)>>

EventsOf(p) ==
    LET r == call[p]
        v == work[p].row.version
    IN CASE r.op = "create" ->
              <<Event(p, "created", v, FALSE), Event(p, "version", v, TRUE)>>
         [] r.op = "update" ->
              When(r.body = "fits", Event(p, "version", v, TRUE))
              \o When(r.status = "published", Event(p, "published", v, FALSE))
              \o When(Changed(r), Event(p, "updated", v, FALSE))
         [] r.op = "snapshot" -> <<Event(p, "version", work[p].number, FALSE)>>
         [] r.op = "delete" -> <<Event(p, "deleted", 0, FALSE)>>

Written(p) == Answer("ok", work[p].row.version, work[p].row.content, {})

Commit(p) ==
    /\ pc[p] = "commit"
    /\ docs' = DocsAfter(p)
    /\ versions' = VersionsAfter(p)
    /\ EndTransaction(p)
    /\ outbox' = [outbox EXCEPT ![p] = EventsOf(p)]
    /\ reply' = [reply EXCEPT ![p] = Written(p)]
    /\ Goto(p, IF EventsOf(p) = <<>> THEN "done" ELSE "publish")
    /\ UNCHANGED <<call, target, began, bus>>

\* The service's publish: the event leaves the outbox whether or not the
\* producer took it; a refusal is logged.
Publish(p) ==
    /\ pc[p] = "publish"
    /\ \/ bus' = Append(bus, Head(outbox[p]))
       \/ "bus" \in Faults /\ UNCHANGED bus
    /\ outbox' = [outbox EXCEPT ![p] = Tail(@)]
    /\ Goto(p, IF Len(outbox[p]) = 1 THEN "done" ELSE "publish")
    /\ UNCHANGED <<tables, lock, call, target, began, work, reply>>

-----------------------------------------------------------------------------
(* Reads.                                                                  *)

\* get_document: one statement, so one snapshot.
ReadDocument(p) ==
    LET d == target[p] IN
    /\ pc[p] = "read"
    /\ \/ /\ ~Live(d, call[p].tenant)
          /\ Fail(p, "not_found")
       \/ /\ Live(d, call[p].tenant)
          /\ Respond(p, Answer("ok", docs[d].version, docs[d].content, {}))
          /\ UNCHANGED <<tables, lock, call, target, began, work,
                         outbox, bus>>

\* Broken variant: the history of a deleted document can still be read.
CheckLiveIgnoringDeletion(p) ==
    /\ pc[p] = "check"
    /\ \/ /\ docs[target[p]].tenant # call[p].tenant
          /\ Fail(p, "not_found")
       \/ /\ docs[target[p]].tenant = call[p].tenant
          /\ Continue(p, "fetch")
          /\ UNCHANGED <<lock, work>>

\* ensure_live_document: the first statement of both history reads.
CheckLive(p) ==
    /\ pc[p] = "check"
    /\ \/ /\ ~Live(target[p], call[p].tenant)
          /\ Fail(p, "not_found")
       \/ /\ Live(target[p], call[p].tenant)
          /\ Continue(p, "fetch")
          /\ UNCHANGED <<lock, work>>

\* The second statement, which sees what was committed since the first.
FetchHistory(p) ==
    LET h == versions[target[p]]
        n == call[p].version
    IN
    /\ pc[p] = "fetch"
    /\ \/ /\ call[p].op = "list_versions"
          /\ Respond(p, Answer("ok", Cardinality(DOMAIN h), "empty", DOMAIN h))
       \/ /\ call[p].op = "get_version" /\ n \in DOMAIN h
          /\ Respond(p, Answer("ok", n, h[n].content, {}))
       \/ /\ call[p].op = "get_version" /\ n \notin DOMAIN h
          /\ Respond(p, Failure("not_found"))
    /\ UNCHANGED <<tables, lock, call, target, began, work, outbox,
                   bus>>

-----------------------------------------------------------------------------
(* Failures of the environment.                                            *)

\* Broken variant: the events are published although COMMIT failed.
CommitFailsAnnounced(p) ==
    /\ "commit" \in Faults
    /\ pc[p] = "commit"
    /\ \/ UNCHANGED tables
       \/ docs' = DocsAfter(p) /\ versions' = VersionsAfter(p)
    /\ EndTransaction(p)
    /\ outbox' = [outbox EXCEPT ![p] = EventsOf(p)]
    /\ reply' = [reply EXCEPT ![p] = Failure("internal")]
    /\ Goto(p, IF EventsOf(p) = <<>> THEN "done" ELSE "publish")
    /\ UNCHANGED <<call, target, began, bus>>

\* COMMIT fails: the outcome is unknown, the answer is a 500 and no event is
\* published.
CommitFails(p) ==
    /\ "commit" \in Faults
    /\ pc[p] = "commit"
    /\ \/ UNCHANGED tables
       \/ docs' = DocsAfter(p) /\ versions' = VersionsAfter(p)
    /\ EndTransaction(p)
    /\ Respond(p, Failure("internal"))
    /\ UNCHANGED <<call, target, began, outbox, bus>>

\* The instance dies, or the client leaves and the call's future is dropped:
\* the transaction is rolled back, unless its COMMIT was already on its way,
\* and what was not published never will be.
Crash(p) ==
    /\ "crash" \in Faults
    /\ pc[p] \notin {"idle", "done", "lost"}
    /\ \/ UNCHANGED tables
       \/ /\ pc[p] = "commit"
          /\ docs' = DocsAfter(p) /\ versions' = VersionsAfter(p)
    /\ EndTransaction(p)
    /\ outbox' = [outbox EXCEPT ![p] = <<>>]
    /\ Goto(p, "lost")
    /\ UNCHANGED <<call, target, began, reply, bus>>

\* No connection came free within the pool's acquire timeout.
PoolTimeout(p) ==
    /\ "pool" \in Faults
    /\ pc[p] \in {"connect", "template"}
    /\ ~PoolFree
    /\ Fail(p, "internal")

-----------------------------------------------------------------------------
Step(p) ==
    \/ FetchTemplate(p) \/ Connect(p) \/ InsertDocument(p)
    \/ SelectForUpdate(p) \/ RefuseTransition(p) \/ UpdateDocument(p)
    \/ InsertVersion(p) \/ BumpVersion(p) \/ DeleteDocument(p)
    \/ Commit(p) \/ Publish(p)
    \/ ReadDocument(p) \/ CheckLive(p) \/ FetchHistory(p)

Fault(p) == CommitFails(p) \/ Crash(p) \/ PoolTimeout(p)

\* Every call has been answered or lost: the only state with nothing to do.
Quiet == \A p \in Calls : pc[p] \in {"done", "lost"}

Next ==
    \/ \E p \in Calls : Arrive(p) \/ Step(p) \/ Fault(p)
    \/ Quiet /\ UNCHANGED vars

Spec == Init /\ [][Next]_vars

\* tokio keeps polling a call that can move and PostgreSQL keeps executing
\* its statements.  Arrivals and faults are not owed.
FairSpec == Spec /\ \A p \in Calls : WF_vars(Step(p))
=============================================================================
