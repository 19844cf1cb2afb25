--------------------------- MODULE DocumentProperties -------------------------
(***************************************************************************)
(* What must be true of DocumentStore: safety, what a step may never do,    *)
(* the abstract history it implements, liveness, and the inductive          *)
(* invariant the proofs rest on.                                           *)
(***************************************************************************)
EXTENDS DocumentStore

-----------------------------------------------------------------------------
(* Safety.                                                                 *)

\* Every variable keeps its type.
TypeOK ==
    /\ docs \in [Docs -> Rows]
    /\ DOMAIN versions = Docs
    /\ \A d \in Docs :
         /\ DOMAIN versions[d] \subseteq Nat \ {0}
         /\ versions[d] \in [DOMAIN versions[d] -> Entries]
    /\ lock \in [Docs -> Calls \cup {NoCall}]
    /\ pc \in [Calls -> PCs]
    /\ call \in [Calls -> Requests \cup {NoRequest}]
    /\ target \in [Calls -> Docs \cup {NoDoc}]
    /\ began \in [Calls -> [version: Nat, deleted: BOOLEAN]]
    /\ work \in [Calls -> [read: Rows, row: Rows, number: Nat, entry: Entries]]
    /\ reply \in [Calls -> [code: Codes, version: Nat, body: Texts,
                            rows: SUBSET (Nat \ {0})]]
    /\ outbox \in [Calls -> Seq(Events)]
    /\ bus \in Seq(Events)

\* The history of a document is numbered from 1 to its current_version with
\* no gap and no number given twice: restoring any version is possible,
\* whatever raced whatever (create_document, update_document, create_version).
HistoryComplete == \A d \in Docs : DOMAIN versions[d] = 1..docs[d].version

\* The body a document shows is the body of its newest version: no save is
\* undone by a writer that had read the row before it.
HeadIsNewest ==
    \A d \in Docs : docs[d].version \in DOMAIN versions[d] =>
        versions[d][docs[d].version].content = docs[d].content

WritesVersion(r) ==
    \/ r.op \in {"create", "snapshot"}
    \/ r.op = "update" /\ r.body = "fits"

Answered(p, code) == pc[p] = "done" /\ reply[p].code = code

\* A save or a snapshot answered with success stays in the history, under the
\* very number its answer carried, as that caller's.
AcknowledgedSavesKept ==
    \A p \in Calls :
        Answered(p, "ok") /\ WritesVersion(call[p]) =>
            /\ reply[p].version \in DOMAIN versions[target[p]]
            /\ versions[target[p]][reply[p].version] =
                 Entry(reply[p].body, p, call[p].op # "snapshot")

\* Losing a race never costs a legitimate call a 500: a duplicate version
\* number is never attempted (tests/concurrency_test.rs).
NoCallLosesARace ==
    Faults = {} => \A p \in Calls : reply[p].code # "internal"

\* Whose transaction q stands in the way of p's next statement.
WaitsFor(p, q) ==
    /\ p # q
    /\ \/ /\ pc[p] \in {"select", "update", "bump", "delete"}
          /\ Live(target[p], call[p].tenant)
          /\ lock[target[p]] = q
       \/ /\ pc[p] = "insert_version"
          /\ target[q] = target[p]
          /\ work[q].number = NextVersion(p)

\* Saves and snapshots write the two tables in opposite orders, and still
\* whoever is waited for waits for nobody: there is no cycle of any length, and
\* the database never has a deadlock to break.
NoWaitCycle ==
    \A p, q, r \in Calls : WaitsFor(p, q) => ~WaitsFor(q, r)

\* An answer is never older than the document was when the call arrived:
\* what an earlier answer announced is seen, and what was deleted is gone.
AnswersAreCurrent ==
    \A p \in Calls : Answered(p, "ok") /\ call[p].op # "create" =>
        /\ ~began[p].deleted
        /\ call[p].op # "get_version" => reply[p].version >= began[p].version
        /\ call[p].op = "snapshot" => reply[p].version > began[p].version

\* Nothing of a document is written, read or announced for a tenant other
\* than its own.
TenantsApart ==
    \A p \in Calls :
        /\ Answered(p, "ok") => docs[target[p]].tenant = call[p].tenant
        /\ \A d \in Docs : \A n \in DOMAIN versions[d] :
             versions[d][n].by = p =>
                docs[d].tenant = call[p].tenant

Happened(e) ==
    /\ e.type = "created"   => docs[e.doc].version >= 1
    /\ e.type = "version"   => /\ e.version \in DOMAIN versions[e.doc]
                               /\ versions[e.doc][e.version].by = e.by
                               /\ versions[e.doc][e.version].auto = e.auto
    /\ e.type = "published" => docs[e.doc].status # "draft"
    /\ e.type = "updated"   => docs[e.doc].version >= e.version
    /\ e.type = "deleted"   => docs[e.doc].deleted

\* An event tells only what is committed: a subscriber that reads the
\* document upon an event finds what the event says.
EventsAreTrue == \A i \in DOMAIN bus : Happened(bus[i])

Announcements(type, d, n) ==
    {i \in DOMAIN bus : bus[i].type = type /\ bus[i].doc = d
                        /\ bus[i].version = n}

\* Version depth is derivable from the event stream alone: every version a
\* call wrote is announced exactly once, if nothing fails.
VersionsAnnouncedOnce ==
    \A d \in Docs : \A n \in DOMAIN versions[d] :
        LET announced == Cardinality(Announcements("version", d, n)) IN
        /\ announced <= 1
        /\ Quiet /\ Faults = {} /\ versions[d][n].by # "past" => announced = 1

\* ... and a document is announced as published at most once, however many
\* calls asked for it at the same time.
AnnouncedOnce ==
    /\ VersionsAnnouncedOnce
    /\ \A d \in Docs :
         Cardinality({i \in DOMAIN bus : bus[i].type = "published"
                                         /\ bus[i].doc = d}) <= 1

\* openapi.yaml: "Messages are keyed by document id so a document's history
\* keeps its order."
HistoryKeepsItsOrderOnTheBus ==
    \A i, j \in DOMAIN bus :
        i < j /\ bus[i].doc = bus[j].doc
        /\ bus[i].type = "version" /\ bus[j].type = "version" =>
            bus[i].version < bus[j].version

-----------------------------------------------------------------------------
(* What a step may never do.                                               *)

\* A deleted document is frozen, its history included: a snapshot or a save
\* that was waiting for its row does not bring it back.
DeletedIsFinal ==
    [][\A d \in Docs : docs[d].deleted => /\ docs'[d] = docs[d]
                                          /\ versions'[d] = versions[d]]_vars

Stage(status) ==
    CASE status = "draft" -> 1 [] status = "published" -> 2
      [] status = "archived" -> 3

\* A status moves from draft towards archived and never back, also when the
\* transition was checked on a row other calls were waiting to change.
StatusOnlyAdvances ==
    [][\A d \in Docs :
         docs[d].version > 0 /\ docs'[d].status # docs[d].status =>
            Stage(docs[d].status) < Stage(docs'[d].status)]_vars

\* The service implements the promise: the committed tables change only as
\* one accepted request at one instant would change them.
Abstract == INSTANCE DocumentHistory WITH Origin <- Seeded

ImplementsHistory == Abstract!Spec

-----------------------------------------------------------------------------
(* Liveness.                                                               *)

\* Every call that reached the database is answered: row locks, unique keys
\* and a pool of any size never leave one waiting for good.
EveryCallAnswered ==
    \A p \in Calls :
        pc[p] \in {"template", "connect"} ~> pc[p] \in {"done", "lost"}

-----------------------------------------------------------------------------
(* The inductive invariant: what each open transaction is about to commit,  *)
(* in terms of the committed row it will replace.                          *)

\* The steps at which a writer has read or changed its document row.
Engaged(p) == pc[p] \in {"update", "insert_version", "bump", "commit"}

\* The request, the target and the program point of a call agree.
RequestAgrees(p) ==
    LET op == call[p].op IN
    /\ pc[p] = "idle" => target[p] = NoDoc
    /\ pc[p] # "idle" => call[p] \in Requests
    /\ pc[p] # "idle" /\ op # "create" => target[p] = call[p].doc
    /\ pc[p] = "template" => op = "create"
    /\ pc[p] = "insert_document" => op = "create"
    /\ pc[p] = "select" => op \in {"update", "snapshot"}
    /\ pc[p] = "update" => op = "update"
    /\ pc[p] = "insert_version" => op \in {"create", "update", "snapshot"}
    /\ pc[p] = "bump" => op = "snapshot"
    /\ pc[p] = "delete" => op = "delete"
    /\ pc[p] = "read" => op = "get"
    /\ pc[p] \in {"check", "fetch"} => op \in {"list_versions", "get_version"}
    /\ pc[p] = "commit" => op \in {"create", "update", "snapshot", "delete"}
    /\ pc[p] = "publish" => outbox[p] # <<>>

\* A writer that has started owns its target: by the row lock of a live
\* document, or because nobody else knows the new identifier.
OwnsTarget(p) ==
    Engaged(p) =>
        /\ target[p] \in Docs
        /\ IF call[p].op = "create" THEN docs[target[p]] = Absent
           ELSE lock[target[p]] = p /\ Live(target[p], call[p].tenant)

\* What it read is still what is committed, and what it will write follows
\* from that and from the request.
PendingWrites(p) ==
    LET r == call[p]
        d == target[p]
        w == work[p]
        at(step, op) == pc[p] = step /\ r.op = op
    IN
    /\ ~Engaged(p) => w = NoWork
    /\ at("update", "update") => w = Pending(docs[d], Absent, 0, NoEntry)
    /\ at("insert_version", "create") =>
         w = Pending(Absent, NewRow(r.tenant, p, CreatedBody(r, p)), 0, NoEntry)
    /\ at("insert_version", "update") =>
         /\ r.body = "fits"
         /\ w = Pending(docs[d], Edited(r, p, docs[d], docs[d]), 0, NoEntry)
    /\ at("insert_version", "snapshot") =>
         w = Pending(docs[d], Absent, 0, NoEntry)
    /\ at("bump", "snapshot") =>
         w = Pending(docs[d], Absent, docs[d].version + 1,
                     Entry(docs[d].content, p, FALSE))
    /\ at("commit", "create") =>
         w = Pending(Absent, NewRow(r.tenant, p, CreatedBody(r, p)), 1,
                     Entry(CreatedBody(r, p), p, TRUE))
    /\ at("commit", "update") =>
         IF r.body = "fits"
         THEN w = Pending(docs[d], Edited(r, p, docs[d], docs[d]),
                          docs[d].version + 1, Entry(p, p, TRUE))
         ELSE w = Pending(docs[d], Edited(r, p, docs[d], docs[d]), 0, NoEntry)
    /\ at("commit", "snapshot") =>
         w = Pending(docs[d], Numbered(docs[d], docs[d].version + 1),
                     docs[d].version + 1, Entry(docs[d].content, p, FALSE))
    /\ at("commit", "delete") =>
         w = Pending(Absent, Removed(docs[d]), 0, NoEntry)
    /\ pc[p] \in {"insert_version", "commit"} /\ r.op = "update" =>
         StatusAccepted(r, docs[d].status)

\* No identifier is given to two creations.
FreshIdentifiers ==
    \A p, q \in Calls :
        p # q /\ call[p].op = "create" /\ call[q].op = "create"
        /\ target[p] \in Docs => target[p] # target[q]

\* Every writer's pending writes follow from the committed row it holds: this
\* is why FOR UPDATE makes a version number computed in the service safe.
TransactionsIsolated ==
    /\ \A p \in Calls : RequestAgrees(p) /\ OwnsTarget(p) /\ PendingWrites(p)
    /\ FreshIdentifiers

IndInv == TypeOK /\ HistoryComplete /\ TransactionsIsolated
=============================================================================
