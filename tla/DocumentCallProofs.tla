-------------------------- MODULE DocumentCallProofs --------------------------
(***************************************************************************)
(* What DocumentStore promises the callers, for any number of calls,        *)
(* documents and tenants: the refinement of the abstract history, and the   *)
(* truth of answers and events.  Everything rests on the inductive          *)
(* invariant of DocumentStoreProofs.                                        *)
(***************************************************************************)
EXTENDS DocumentStoreProofs

-----------------------------------------------------------------------------
(* The service implements DocumentHistory.                                 *)

\* A history with its next number added is the history with an entry more.
LEMMA WithEntryAppends ==
    ASSUME NEW n \in Nat, NEW h \in [1..n -> Entries], NEW e \in Entries
    PROVE  WithEntry(h, n + 1, e) = Append(h, e)
<1> DEFINE w == WithEntry(h, n + 1, e)
<1>1. h \in Seq(Entries) /\ Len(h) = n
  <2>1. h \in Seq(Entries)
    BY SeqDef
  <2> QED
    BY <2>1, LenProperties
<1>2. /\ w \in [1..(n + 1) -> Entries] /\ w[n + 1] = e
      /\ \A k \in 1..n : w[k] = h[k]
  BY WithEntryType
<1> HIDE DEF w
<1>3. w \in Seq(Entries) /\ Len(w) = n + 1
  <2>1. w \in Seq(Entries)
    BY <1>2, SeqDef
  <2> QED
    BY <1>2, <2>1, LenProperties
<1>4. /\ Append(h, e) \in Seq(Entries) /\ Len(Append(h, e)) = n + 1
      /\ \A k \in 1..n : Append(h, e)[k] = h[k]
      /\ Append(h, e)[n + 1] = e
  BY <1>1, AppendProperties
<1>5. \A k \in 1..(n + 1) : w[k] = Append(h, e)[k]
  BY <1>2, <1>4
<1>6. w = Append(h, e)
  BY <1>3, <1>4, <1>5, SeqEqual
<1> QED
  BY <1>6 DEF w

\* What the COMMIT of p makes of its document and of its history.
LEMMA CommittedForm ==
    ASSUME IndInv, NEW p \in Calls, pc[p] = "commit",
           docs' = DocsAfter(p), versions' = VersionsAfter(p)
    PROVE  LET d == target[p]
               w == work[p]
           IN
           /\ d \in Docs /\ DOMAIN versions = Docs /\ docs[d] \in Rows
           /\ docs' = [docs EXCEPT ![d] = w.row]
           /\ \/ w.number = 0 /\ versions' = versions
              \/ /\ w.number = docs[d].version + 1
                 /\ versions' = [versions EXCEPT ![d] = Append(@, w.entry)]
<1> DEFINE d == target[p]
           n == docs[d].version
           w == work[p]
<1>1. /\ d \in Docs /\ docs[d] \in Rows /\ w.row # Absent
      /\ \/ w.number = 0
         \/ w.number = n + 1 /\ w.entry \in Entries
  BY PendingCommit
<1>2. n \in Nat /\ versions[d] \in [1..n -> Entries] /\ DOMAIN versions = Docs
  BY <1>1 DEF IndInv, TypeOK, HistoryComplete, Rows
<1>3. docs' = [docs EXCEPT ![d] = w.row]
  BY <1>1 DEF DocsAfter
<1>4. CASE w.number = 0
  BY <1>1, <1>2, <1>3, <1>4 DEF VersionsAfter
<1>5. CASE w.number = n + 1 /\ w.entry \in Entries
  <2>1. WithEntry(versions[d], n + 1, w.entry) = Append(versions[d], w.entry)
    BY <1>2, <1>5, WithEntryAppends
  <2>2. w.number # 0
    BY <1>2, <1>5
  <2>3. versions' = [versions EXCEPT ![d] = Append(@, w.entry)]
    BY <1>5, <2>1, <2>2 DEF VersionsAfter
  <2> QED
    BY <1>1, <1>2, <1>3, <1>5, <2>3
<1> QED
  BY <1>1, <1>4, <1>5

-----------------------------------------------------------------------------
(* Rows come to exist with a number and keep their tenant.                 *)

\* A row that exists has a version.
RowsNumbered == \A d \in Docs : docs[d] # Absent => docs[d].version > 0

\* A writer other than a creation has an existing row before it; a creation
\* has none, and the version it is about to write is the first.
LEMMA CommittedOld ==
    ASSUME IndInv, NEW p \in Calls, pc[p] = "commit"
    PROVE  /\ call[p].op # "create" =>
                /\ docs[target[p]] # Absent
                /\ docs[target[p]].tenant = call[p].tenant
                /\ ~docs[target[p]].deleted
           /\ call[p].op = "create" =>
                docs[target[p]] = Absent /\ work[p].number = 1
           /\ call[p].tenant \in Tenants
<1>1. /\ call[p].op # "create" => Live(target[p], call[p].tenant)
      /\ call[p].op = "create" => docs[target[p]] = Absent
      /\ call[p].tenant \in Tenants /\ PendingWrites(p)
  BY OwnedTarget, RequestFields DEF Engaged, IndInv, TransactionsIsolated
<1>2. call[p].op = "create" => work[p].number = 1
  BY <1>1 DEF PendingWrites, Pending
<1>3. call[p].op # "create" => docs[target[p]] # Absent
  BY <1>1, NoTenantAssumption DEF Live, Absent, Row
<1> QED
  BY <1>1, <1>2, <1>3 DEF Live

LEMMA RowsNumberedKept ==
    ASSUME IndInv, RowsNumbered, [Next]_vars
    PROVE  RowsNumbered'
<1>1. CASE docs' = docs
  BY <1>1 DEF RowsNumbered
<1>2. ASSUME NEW p \in Calls, pc[p] = "commit",
             docs' = DocsAfter(p), versions' = VersionsAfter(p)
      PROVE  RowsNumbered'
  <2> DEFINE t == target[p]
  <2>1. /\ docs' = [docs EXCEPT ![t] = work[p].row] /\ t \in Docs
        /\ docs \in [Docs -> Rows] /\ docs[t].version \in Nat
    BY <1>2, CommittedForm DEF IndInv, TypeOK, Rows
  <2>2. /\ \/ work[p].number = 0 /\ work[p].row.version = docs[t].version
           \/ work[p].row.version = docs[t].version + 1
    BY <1>2, PendingCommit
  <2>3. work[p].number = 0 => docs[t] # Absent
    BY <1>2, CommittedOld
  <2>4. work[p].row.version > 0
    BY <2>1, <2>2, <2>3 DEF RowsNumbered
  <2> QED
    BY <2>1, <2>4 DEF RowsNumbered
<1> QED
  BY <1>1, <1>2, TablesChangeByCommit

LEMMA AlwaysRowsNumbered == Spec => []RowsNumbered
<1>1. Init => RowsNumbered
  BY DEF Init, RowsNumbered, NewRow, Row
<1> QED
  BY <1>1, RowsNumberedKept, AlwaysIndInv, PTL DEF Spec

\* The abstract domain model is the concrete one.
LEMMA SameDomain ==
    /\ Abstract!Absent = Absent /\ Abstract!Texts = Texts
    /\ Abstract!Statuses = Statuses
    /\ \A t, title, content :
          Abstract!NewRow(t, title, content) = NewRow(t, title, content)
    /\ \A row, n : Abstract!Numbered(row, n) = Numbered(row, n)
    /\ \A row : Abstract!Removed(row) = Removed(row)
    /\ \A c, by, auto : Abstract!Entry(c, by, auto) = Entry(c, by, auto)
    /\ \A t, title, st, del, n, c :
          Abstract!Row(t, title, st, del, n, c) = Row(t, title, st, del, n, c)
    /\ \A a, b : Abstract!CanTransition(a, b) <=> CanTransition(a, b)
  BY DEF Abstract!Absent, Absent, Abstract!Texts, Texts, Abstract!Statuses,
         Statuses, Abstract!NewRow, NewRow, Abstract!Numbered, Numbered,
         Abstract!Removed, Removed, Abstract!Entry, Entry, Abstract!Row, Row,
         Abstract!CanTransition, CanTransition

\* An update makes of the row a row with the title, the status and the body
\* the request names, and the others as they were.
LEMMA EditedForm ==
    ASSUME NEW r \in Requests, r.op = "update", NEW p \in Calls,
           NEW row \in Rows, ~row.deleted, StatusAccepted(r, row.status)
    PROVE  \E title \in {p, row.title}, status \in Statuses :
             /\ status = row.status \/ CanTransition(row.status, status)
             /\ Edited(r, p, row, row) =
                  Row(row.tenant, title, status, FALSE,
                      IF r.body = "fits" THEN row.version + 1 ELSE row.version,
                      IF r.body = "fits" THEN p ELSE row.content)
<1> DEFINE title == IF r.title THEN p ELSE row.title
           status == IF r.status = "absent" THEN row.status ELSE r.status
<1>1. row.deleted = FALSE
  BY DEF Rows
<1>2. /\ status \in Statuses
      /\ status = row.status \/ CanTransition(row.status, status)
  BY RequestFields DEF StatusAccepted, CanTransition, Statuses, Rows
<1>3. title \in {p, row.title}
  OBVIOUS
<1>4. Edited(r, p, row, row) =
        Row(row.tenant, title, status, FALSE,
            IF r.body = "fits" THEN row.version + 1 ELSE row.version,
            IF r.body = "fits" THEN p ELSE row.content)
  BY <1>1 DEF Edited
<1> QED
  BY <1>2, <1>3, <1>4, Zenon

\* A COMMIT whose writes take effect is one step of the abstract history: the
\* accepted request, applied at that instant to the document as it is.
LEMMA CommitImplements ==
    ASSUME IndInv, RowsNumbered, NEW p \in Calls, pc[p] = "commit",
           docs' = DocsAfter(p), versions' = VersionsAfter(p)
    PROVE  Abstract!Next
<1> DEFINE d == target[p]
           r == call[p]
           w == work[p]
           old == docs[d]
           n == old.version
<1>1. /\ d \in Docs /\ old \in Rows /\ r \in Requests
      /\ r.op \in {"create", "update", "snapshot", "delete"}
      /\ r.op = "create" => old = Absent
      /\ r.op # "create" => Live(d, r.tenant)
      /\ r.tenant \in Tenants
      /\ PendingWrites(p)
  BY OwnedTarget, RequestFields DEF Engaged, IndInv, TransactionsIsolated
<1>2. /\ docs' = [docs EXCEPT ![d] = w.row] /\ n \in Nat
      /\ \/ w.number = 0 /\ versions' = versions
         \/ /\ w.number = n + 1
            /\ versions' = [versions EXCEPT ![d] = Append(@, w.entry)]
  BY CommittedForm DEF Rows
<1>3. ASSUME r.op # "create" PROVE n > 0 /\ ~old.deleted /\ Abstract!Alive(d)
  <2>1. old # Absent /\ ~old.deleted
    BY <1>1, <1>3, NoTenantAssumption DEF Live, Absent, Row
  <2> QED
    BY <1>1, <1>2, <2>1 DEF RowsNumbered, Abstract!Alive
<1>4. CASE r.op = "create"
  <2> DEFINE body == CreatedBody(r, p)
  <2>1. w = Pending(Absent, NewRow(r.tenant, p, body), 1, Entry(body, p, TRUE))
    BY <1>1, <1>4 DEF PendingWrites
  <2>2. /\ w.row = NewRow(r.tenant, p, body) /\ w.number = 1
        /\ w.entry = Entry(body, p, TRUE)
    BY <2>1 DEF Pending
  <2>3. body \in Texts
    BY DEF CreatedBody, Texts
  <2> HIDE DEF body
  <2>4. docs' = [docs EXCEPT ![d] = Abstract!NewRow(r.tenant, p, body)]
    BY <1>2, <2>2, SameDomain
  <2>5. Abstract!Records(d, Abstract!Entry(body, p, TRUE))
    <3>1. w.number # 0
      BY <1>2, <2>2
    <3>2. versions' = [versions EXCEPT ![d] = Append(@, Entry(body, p, TRUE))]
      BY <1>2, <2>2, <3>1, Zenon
    <3>3. Abstract!Entry(body, p, TRUE) = Entry(body, p, TRUE)
      BY SameDomain
    <3> QED
      BY <3>2, <3>3, Zenon DEF Abstract!Records
  <2>6. body \in Abstract!Texts /\ docs[d] = Abstract!Absent
    BY <1>1, <1>4, <2>3, SameDomain
  <2>7. Abstract!Create(d, p)
    BY <1>1, <2>4, <2>5, <2>6, Zenon DEF Abstract!Create
  <2> QED
    BY <1>1, <2>7 DEF Abstract!Next
<1>5. CASE r.op = "update" /\ r.body = "fits"
  <2>1. /\ w = Pending(old, Edited(r, p, old, old), n + 1, Entry(p, p, TRUE))
        /\ StatusAccepted(r, old.status)
    BY <1>1, <1>5 DEF PendingWrites
  <2>2. /\ w.row = Edited(r, p, old, old) /\ w.number = n + 1
        /\ w.entry = Entry(p, p, TRUE)
    BY <2>1 DEF Pending
  <2>3. PICK title \in {p, old.title}, status \in Statuses :
          /\ w.row = Row(old.tenant, title, status, FALSE, n + 1, p)
          /\ status = old.status \/ CanTransition(old.status, status)
    <3>1. \E title \in {p, old.title}, status \in Statuses :
            /\ status = old.status \/ CanTransition(old.status, status)
            /\ Edited(r, p, old, old) =
                 Row(old.tenant, title, status, FALSE,
                     IF r.body = "fits" THEN old.version + 1 ELSE old.version,
                     IF r.body = "fits" THEN p ELSE old.content)
      BY <1>1, <1>3, <1>5, <2>1, EditedForm
    <3> QED
      BY <1>5, <2>2, <3>1
  <2>4. Abstract!Rewritten(d, title, status, docs[d].version + 1, p)
    BY <1>2, <2>3, SameDomain DEF Abstract!Rewritten
  <2>5. Abstract!Records(d, Abstract!Entry(p, p, TRUE))
    <3>1. w.number # 0
      BY <1>2, <2>2
    <3>2. versions' = [versions EXCEPT ![d] = Append(@, Entry(p, p, TRUE))]
      BY <1>2, <2>2, <3>1, Zenon
    <3>3. Abstract!Entry(p, p, TRUE) = Entry(p, p, TRUE)
      BY SameDomain
    <3> QED
      BY <3>2, <3>3, Zenon DEF Abstract!Records
  <2>6. Abstract!LegalStatus(d, status) /\ status \in Abstract!Statuses
    BY <2>3, SameDomain DEF Abstract!LegalStatus
  <2>7. Abstract!Save(d, p)
    BY <1>3, <1>5, <2>4, <2>5, <2>6, Zenon DEF Abstract!Save
  <2> QED
    BY <1>1, <2>7 DEF Abstract!Next
<1>6. CASE r.op = "update" /\ r.body # "fits"
  <2>1. /\ w = Pending(old, Edited(r, p, old, old), 0, NoEntry)
        /\ StatusAccepted(r, old.status)
    BY <1>1, <1>6 DEF PendingWrites
  <2>2. w.row = Edited(r, p, old, old) /\ w.number = 0
    BY <2>1 DEF Pending
  <2>3. PICK title \in {p, old.title}, status \in Statuses :
          /\ w.row = Row(old.tenant, title, status, FALSE, n, old.content)
          /\ status = old.status \/ CanTransition(old.status, status)
    <3>1. \E title \in {p, old.title}, status \in Statuses :
            /\ status = old.status \/ CanTransition(old.status, status)
            /\ Edited(r, p, old, old) =
                 Row(old.tenant, title, status, FALSE,
                     IF r.body = "fits" THEN old.version + 1 ELSE old.version,
                     IF r.body = "fits" THEN p ELSE old.content)
      BY <1>1, <1>3, <1>6, <2>1, EditedForm
    <3> QED
      BY <1>6, <2>2, <3>1
  <2>4. Abstract!Rewritten(d, title, status, docs[d].version, docs[d].content)
    BY <1>2, <2>3, SameDomain DEF Abstract!Rewritten
  <2>5. versions' = versions
    BY <1>2, <2>2
  <2>6. Abstract!LegalStatus(d, status) /\ status \in Abstract!Statuses
    BY <2>3, SameDomain DEF Abstract!LegalStatus
  <2>7. Abstract!Amend(d, p)
    BY <1>3, <1>6, <2>4, <2>5, <2>6, Zenon DEF Abstract!Amend
  <2> QED
    BY <1>1, <2>7 DEF Abstract!Next
<1>7. CASE r.op = "snapshot"
  <2>1. w = Pending(old, Numbered(old, n + 1), n + 1,
                    Entry(old.content, p, FALSE))
    BY <1>1, <1>7 DEF PendingWrites
  <2>2. /\ w.row = Numbered(old, n + 1) /\ w.number = n + 1
        /\ w.entry = Entry(old.content, p, FALSE)
    BY <2>1 DEF Pending
  <2>3. docs' = [docs EXCEPT
          ![d] = Abstract!Numbered(docs[d], docs[d].version + 1)]
    BY <1>2, <2>2, SameDomain
  <2>4. Abstract!Records(d, Abstract!Entry(docs[d].content, p, FALSE))
    <3>1. w.number # 0
      BY <1>2, <2>2
    <3>2. versions' = [versions EXCEPT
            ![d] = Append(@, Entry(docs[d].content, p, FALSE))]
      BY <1>2, <2>2, <3>1, Zenon
    <3>3. Abstract!Entry(docs[d].content, p, FALSE) = Entry(docs[d].content, p, FALSE)
      BY SameDomain
    <3> QED
      BY <3>2, <3>3, Zenon DEF Abstract!Records
  <2>5. Abstract!Snapshot(d, p)
    BY <1>3, <1>7, <2>3, <2>4 DEF Abstract!Snapshot
  <2> QED
    BY <1>1, <2>5 DEF Abstract!Next
<1>8. CASE r.op = "delete"
  <2>1. w = Pending(Absent, Removed(old), 0, NoEntry)
    BY <1>1, <1>8 DEF PendingWrites
  <2>2. w.row = Removed(old) /\ w.number = 0
    BY <2>1 DEF Pending
  <2>3. versions' = versions
    BY <1>2, <2>2
  <2>4. docs' = [docs EXCEPT ![d] = Abstract!Removed(docs[d])]
    BY <1>2, <2>2, SameDomain
  <2>5. Abstract!Delete(d)
    BY <1>3, <1>8, <2>3, <2>4 DEF Abstract!Delete
  <2> QED
    BY <1>1, <2>5 DEF Abstract!Next
<1> QED
  BY <1>1, <1>4, <1>5, <1>6, <1>7, <1>8

\* The service implements the promise of DocumentHistory: transactions, locks
\* and statements in between change nothing an outsider can see.
THEOREM ServiceImplementsHistory == Spec => ImplementsHistory
<1>1. Init => Abstract!Init
  BY SameDomain DEF Init, Abstract!Init
<1>2. ASSUME IndInv, RowsNumbered, [Next]_vars
      PROVE  [Abstract!Next]_(Abstract!vars)
  BY <1>2, TablesChangeByCommit, CommitImplements DEF Abstract!vars
<1> QED
  BY <1>1, <1>2, AlwaysIndInv, AlwaysRowsNumbered, PTL
     DEF Spec, ImplementsHistory, Abstract!Spec

-----------------------------------------------------------------------------
(* What the tables only ever gain.                                         *)

\* A document only moves on, and its history is never rewritten.
Grows(d) ==
    /\ docs[d].version <= docs'[d].version
    /\ docs[d].deleted => docs'[d].deleted
    /\ docs[d] # Absent => docs'[d].tenant = docs[d].tenant
    /\ docs[d].status # "draft" => docs'[d].status # "draft"
    /\ \A n \in DOMAIN versions[d] :
         n \in DOMAIN versions'[d] /\ versions'[d][n] = versions[d][n]

\* What a COMMIT adds to a history: the body of the row it writes, under the
\* number of that row, in the name of the call.
LEMMA CommittedEntry ==
    ASSUME IndInv, NEW p \in Calls, pc[p] = "commit"
    PROVE  /\ WritesVersion(call[p]) <=> work[p].number # 0
           /\ WritesVersion(call[p]) =>
                /\ work[p].number = work[p].row.version
                /\ work[p].entry = Entry(work[p].row.content, p,
                                         call[p].op # "snapshot")
<1> DEFINE r == call[p]
           w == work[p]
           old == docs[target[p]]
<1>1. /\ old \in Rows /\ r.op \in {"create", "update", "snapshot", "delete"}
      /\ PendingWrites(p)
  BY OwnedTarget DEF Engaged, IndInv, TransactionsIsolated
<1>2. CASE r.op = "create"
  <2> DEFINE body == CreatedBody(r, p)
  <2>1. w = Pending(Absent, NewRow(r.tenant, p, body), 1, Entry(body, p, TRUE))
    BY <1>1, <1>2 DEF PendingWrites
  <2> HIDE DEF body
  <2>2. /\ w.number = 1 /\ w.entry = Entry(body, p, TRUE)
        /\ w.row.version = 1 /\ w.row.content = body
    BY <2>1 DEF Pending, NewRow, Row
  <2>3. w.number # 0 /\ WritesVersion(r) /\ r.op # "snapshot"
    BY <1>2, <2>2 DEF WritesVersion
  <2> QED
    BY <2>2, <2>3, Zenon
<1>3. CASE r.op = "update" /\ r.body = "fits"
  <2>1. w = Pending(old, Edited(r, p, old, old), old.version + 1,
                    Entry(p, p, TRUE))
    BY <1>1, <1>3 DEF PendingWrites
  <2>2. /\ w.number = old.version + 1 /\ w.entry = Entry(p, p, TRUE)
        /\ w.row.version = old.version + 1 /\ w.row.content = p
    BY <1>3, <2>1 DEF Pending, Edited, Row
  <2>3. w.number # 0
    BY <1>1, <2>2 DEF Rows
  <2> QED
    BY <1>3, <2>2, <2>3 DEF WritesVersion
<1>4. CASE r.op = "update" /\ r.body # "fits"
  <2>1. w.number = 0
    BY <1>1, <1>4 DEF PendingWrites, Pending
  <2> QED
    BY <1>4, <2>1 DEF WritesVersion
<1>5. CASE r.op = "snapshot"
  <2>1. w = Pending(old, Numbered(old, old.version + 1), old.version + 1,
                    Entry(old.content, p, FALSE))
    BY <1>1, <1>5 DEF PendingWrites
  <2>2. /\ w.number = old.version + 1 /\ w.entry = Entry(old.content, p, FALSE)
        /\ w.row.version = old.version + 1 /\ w.row.content = old.content
    BY <2>1 DEF Pending, Numbered, Row
  <2>3. w.number # 0
    BY <1>1, <2>2 DEF Rows
  <2> QED
    BY <1>5, <2>2, <2>3 DEF WritesVersion
<1>6. CASE r.op = "delete"
  <2>1. w.number = 0
    BY <1>1, <1>6 DEF PendingWrites, Pending
  <2> QED
    BY <1>6, <2>1 DEF WritesVersion
<1> QED
  BY <1>1, <1>2, <1>3, <1>4, <1>5, <1>6

\* The target of a COMMIT after it, in the terms of the call.
LEMMA CommittedRow ==
    ASSUME IndInv, NEW p \in Calls, pc[p] = "commit",
           docs' = DocsAfter(p), versions' = VersionsAfter(p)
    PROVE  /\ docs'[target[p]] = work[p].row
           /\ WritesVersion(call[p]) =>
                /\ work[p].row.version \in DOMAIN versions'[target[p]]
                /\ versions'[target[p]][work[p].row.version] = work[p].entry
<1> DEFINE d == target[p]
           w == work[p]
           n == docs[d].version
<1>1. /\ d \in Docs /\ w.row # Absent /\ docs'[d] = w.row
      /\ \/ w.number = 0
         \/ w.number = n + 1 /\ w.entry \in Entries
  BY PendingCommit, CommittedTables
<1>2. n \in Nat /\ versions[d] \in [1..n -> Entries] /\ DOMAIN versions = Docs
  BY <1>1 DEF IndInv, TypeOK, HistoryComplete, Rows
<1>3. ASSUME WritesVersion(call[p])
      PROVE  /\ w.row.version \in DOMAIN versions'[d]
             /\ versions'[d][w.row.version] = w.entry
  <2>1. w.number = n + 1 /\ w.row.version = n + 1 /\ w.entry \in Entries
    BY <1>1, <1>3, CommittedEntry
  <2>2. versions'[d] = WithEntry(versions[d], n + 1, w.entry)
    BY <1>1, <1>2, <1>3, <2>1, CommittedEntry DEF VersionsAfter
  <2>3. /\ DOMAIN WithEntry(versions[d], n + 1, w.entry) = 1..(n + 1)
        /\ WithEntry(versions[d], n + 1, w.entry)[n + 1] = w.entry
    <3>1. n \in Nat /\ versions[d] \in [1..n -> Entries] /\ w.entry \in Entries
      BY <1>2, <2>1
    <3> HIDE DEF n, d, w
    <3> QED
      BY <3>1, WithEntryType
  <2>4. n + 1 \in 1..(n + 1)
    BY <1>2
  <2> QED
    BY <2>1, <2>2, <2>3, <2>4, Zenon
<1> QED
  BY <1>1, <1>3

LEMMA EverythingGrows ==
    ASSUME IndInv, [Next]_vars
    PROVE  \A d \in Docs : Grows(d)
<1>1. ASSUME docs' = docs, versions' = versions
      PROVE  \A d \in Docs : Grows(d)
  BY <1>1 DEF IndInv, TypeOK, Rows, Grows
<1>2. ASSUME NEW p \in Calls, pc[p] = "commit",
             docs' = DocsAfter(p), versions' = VersionsAfter(p)
      PROVE  \A d \in Docs : Grows(d)
  <2> DEFINE t == target[p]
             w == work[p]
             n == docs[t].version
  <2>1. ASSUME NEW d \in Docs \ {t} PROVE Grows(d)
    <3>1. docs'[d] = docs[d] /\ versions'[d] = versions[d]
      BY <1>2, CommittedTables DEF OnlyTarget
    <3>2. docs[d].version \in Nat
      BY DEF IndInv, TypeOK, Rows
    <3> QED
      BY <3>1, <3>2 DEF Grows
  <2>2. /\ t \in Docs /\ docs[t] \in Rows /\ w.row \in Rows
        /\ ~docs[t].deleted
        /\ docs'[t] = w.row
        /\ w.row.tenant = call[p].tenant
        /\ docs[t] # Absent => docs[t].tenant = call[p].tenant
    BY <1>2, PendingCommit, CommittedTables, CommittedOld
  <2>3. /\ \/ w.number = 0 /\ w.row.version = n
           \/ /\ w.number = n + 1 /\ w.row.version = n + 1
              /\ w.entry \in Entries
        /\ docs[t] # Absent /\ w.row.status # docs[t].status =>
             \/ CanTransition(docs[t].status, w.row.status)
             \/ w.row.deleted /\ w.row.status = "archived"
    BY <1>2, PendingCommit
  <2>4. n \in Nat /\ versions[t] \in [1..n -> Entries] /\ DOMAIN versions = Docs
    BY <2>2 DEF IndInv, TypeOK, HistoryComplete, Rows
  <2>5. docs[t].status # "draft" => w.row.status # "draft"
    <3>1. docs[t].status # "draft" => docs[t] # Absent
      BY DEF Absent, Row
    <3> QED
      BY <2>3, <3>1 DEF CanTransition
  <2>6. \A k \in DOMAIN versions[t] :
          k \in DOMAIN versions'[t] /\ versions'[t][k] = versions[t][k]
    <3>1. CASE w.number = 0
      BY <1>2, <3>1 DEF VersionsAfter
    <3>2. CASE w.number # 0
      <4>1. versions'[t] = WithEntry(versions[t], n + 1, w.entry)
        BY <1>2, <2>2, <2>3, <2>4, <3>2 DEF VersionsAfter
      <4>2. \A k \in 1..n : WithEntry(versions[t], n + 1, w.entry)[k]
                             = versions[t][k]
        BY <2>3, <2>4, <3>2, WithEntryType
      <4>3. DOMAIN WithEntry(versions[t], n + 1, w.entry) = 1..(n + 1)
        BY <2>3, <2>4, <3>2, WithEntryType
      <4>4. DOMAIN versions[t] = 1..n /\ \A k \in 1..n : k \in 1..(n + 1)
        BY <2>4
      <4> QED
        BY <4>1, <4>2, <4>3, <4>4, Zenon
    <3> QED
      BY <3>1, <3>2
  <2>7. n <= w.row.version
    BY <2>3, <2>4
  <2>8. Grows(t)
    BY <2>2, <2>5, <2>6, <2>7 DEF Grows
  <2> QED
    BY <2>1, <2>8
<1> QED
  BY <1>1, <1>2, TablesChangeByCommit

-----------------------------------------------------------------------------
(* One call moves at a time.                                               *)

Moved(v, p) == v' = v \/ \E x : v' = [v EXCEPT ![p] = x]

\* What a call owns changes for p alone.
OnlyMoves(p) ==
    /\ Moved(pc, p) /\ Moved(call, p) /\ Moved(target, p) /\ Moved(began, p)
    /\ Moved(work, p) /\ Moved(reply, p) /\ Moved(outbox, p)

LEMMA OneCallMoves ==
    ASSUME NEW p \in Calls, Arrive(p) \/ Step(p) \/ Fault(p)
    PROVE  OnlyMoves(p)
<1>1. CASE Arrive(p)
  BY <1>1, Zenon DEF Arrive, Respond, Goto, OnlyMoves, Moved
<1>2. ASSUME NEW step, Continue(p, step), Moved(work, p) PROVE OnlyMoves(p)
  BY <1>2, Zenon DEF Continue, Goto, OnlyMoves, Moved
<1>3. ASSUME NEW code, Fail(p, code) PROVE OnlyMoves(p)
  BY <1>3, Zenon DEF Fail, Respond, Goto, EndTransaction, OnlyMoves, Moved
<1>4. CASE FetchTemplate(p) \/ Connect(p) \/ CheckLive(p)
  BY <1>2, <1>3, <1>4, Zenon DEF FetchTemplate, Connect, CheckLive, Moved
<1>5. CASE InsertDocument(p)
  BY <1>5, Zenon DEF InsertDocument, Goto, OnlyMoves, Moved
<1>6. CASE SelectForUpdate(p) \/ RefuseTransition(p) \/ UpdateDocument(p)
  BY <1>2, <1>3, <1>6, Zenon
     DEF SelectForUpdate, RefuseTransition, UpdateDocument, Moved
<1>7. CASE InsertVersion(p) \/ BumpVersion(p) \/ DeleteDocument(p)
  BY <1>2, <1>3, <1>7, Zenon
     DEF InsertVersion, BumpVersion, DeleteDocument, Moved
<1>8. CASE Commit(p)
  BY <1>8, Zenon DEF Commit, Goto, EndTransaction, OnlyMoves, Moved
<1>9. CASE Publish(p)
  BY <1>9, Zenon DEF Publish, Goto, OnlyMoves, Moved
<1>10. CASE ReadDocument(p)
  BY <1>3, <1>10, Zenon DEF ReadDocument, Respond, Goto, OnlyMoves, Moved
<1>11. CASE FetchHistory(p)
  BY <1>11, Zenon DEF FetchHistory, Respond, Goto, OnlyMoves, Moved
<1>12. CASE CommitFails(p)
  BY <1>12, Zenon
     DEF CommitFails, Respond, Goto, EndTransaction, OnlyMoves, Moved
<1>13. CASE Crash(p)
  BY <1>13, Zenon DEF Crash, Goto, EndTransaction, OnlyMoves, Moved
<1>14. CASE PoolTimeout(p)
  BY <1>3, <1>14, Zenon DEF PoolTimeout
<1> QED
  BY <1>1, <1>4, <1>5, <1>6, <1>7, <1>8, <1>9, <1>10, <1>11, <1>12, <1>13,
     <1>14, Zenon DEF Step, Fault

\* ... and leaves the others exactly as they were.
LEMMA OthersStill ==
    ASSUME IndInv, NEW p \in Calls, OnlyMoves(p), NEW q \in Calls \ {p}
    PROVE  /\ pc'[q] = pc[q] /\ call'[q] = call[q] /\ target'[q] = target[q]
           /\ began'[q] = began[q] /\ reply'[q] = reply[q]
           /\ outbox'[q] = outbox[q]
  BY DEF IndInv, TypeOK, OnlyMoves, Moved

-----------------------------------------------------------------------------
(* Answers.                                                                *)

\* What a call has been told is so, and stays so.
Told(q) ==
    LET d == target[q]
        v == reply[q].version
    IN
    /\ pc[q] \in {"publish", "done", "lost"}
    /\ d \in Docs /\ docs[d].tenant = call[q].tenant
    /\ WritesVersion(call[q]) =>
         /\ v \in DOMAIN versions[d]
         /\ versions[d][v] =
              Entry(reply[q].body, q, call[q].op # "snapshot")
    /\ call[q].op # "create" =>
         /\ ~began[q].deleted
         /\ call[q].op # "get_version" => v >= began[q].version
         /\ call[q].op = "snapshot" => v > began[q].version

\* What a call knows of its document on its way there.
Informed(q) ==
    /\ pc[q] = "idle" => reply[q].code = "none"
    /\ pc[q] # "idle" /\ call[q].op # "create" =>
         /\ began[q].version <= docs[target[q]].version
         /\ began[q].deleted => docs[target[q]].deleted
    /\ pc[q] = "fetch" =>
         docs[target[q]].tenant = call[q].tenant /\ ~began[q].deleted
    /\ reply[q].code = "ok" => Told(q)

AllInformed == \A q \in Calls : Informed(q)

\* A call that goes on without a new success knows what it knew.
LEMMA StaysInformed ==
    ASSUME IndInv, IndInv', \A d \in Docs : Grows(d),
           NEW q \in Calls, Informed(q), call'[q] = call[q], began'[q] = began[q],
           \/ reply'[q] = reply[q] /\ target'[q] = target[q]
           \/ /\ target'[q] = target[q] \/ call[q].op = "create"
              /\ pc[q] # "idle" /\ reply'[q].code # "ok",
           \/ pc'[q] = pc[q]
           \/ /\ pc[q] # "idle" /\ pc'[q] \notin {"idle", "fetch"}
              /\ pc[q] \in {"publish", "done", "lost"} =>
                    pc'[q] \in {"publish", "done", "lost"}
    PROVE  Informed(q)'
<1>1. CASE pc[q] = "idle"
  BY <1>1 DEF Informed, Told
<1>2. CASE pc[q] # "idle"
  <2> DEFINE r == call[q]
             d == target[q]
  <2>1. /\ r \in Requests /\ r.tenant \in Tenants
        /\ r.op # "create" => d \in Docs
        /\ pc[q] = "fetch" => r.op # "create"
        /\ r.op # "create" => target'[q] = d
    BY <1>2, RequestFields DEF IndInv, TransactionsIsolated, RequestAgrees
  <2>2. /\ d \in Docs => Grows(d) /\ docs[d].version \in Nat
        /\ d \in Docs /\ docs[d].tenant = r.tenant => docs'[d].tenant = r.tenant
    <3>1. d \in Docs => Grows(d) /\ docs[d].version \in Nat
      BY DEF IndInv, TypeOK, Rows
    <3>2. docs[d].tenant = r.tenant => docs[d] # Absent
      BY <2>1, NoTenantAssumption DEF Absent, Row
    <3> QED
      BY <3>1, <3>2 DEF Grows
  <2>3. r.op # "create" => /\ began[q].version <= docs'[d].version
                           /\ began[q].deleted => docs'[d].deleted
    <3>1. /\ began[q].version \in Nat
          /\ d \in Docs => docs[d].version \in Nat /\ docs'[d].version \in Nat
      BY DEF IndInv, TypeOK, Rows
    <3> QED
      BY <1>2, <2>1, <2>2, <3>1 DEF Informed, Grows
  <2>4. ASSUME reply[q].code = "ok", reply'[q] = reply[q], target'[q] = d
        PROVE  Told(q)'
    BY <1>2, <2>2, <2>4 DEF Informed, Told, Grows
  <2> QED
    BY <1>2, <2>1, <2>2, <2>3, <2>4 DEF Informed
<1> QED
  BY <1>1, <1>2

LEMMA ArrivalInformed ==
    ASSUME IndInv, NEW p \in Calls, Informed(p), Arrive(p)
    PROVE  Informed(p)'
<1>1. /\ pc[p] = "idle" /\ reply[p].code = "none"
      /\ TypeOK /\ UNCHANGED <<docs, versions>>
  BY DEF Arrive, Informed, IndInv, tables
<1>2. PICK r \in Menu :
        /\ call' = [call EXCEPT ![p] = r]
        /\ IF r.op = "create"
           THEN UNCHANGED <<target, began>>
           ELSE /\ target' = [target EXCEPT ![p] = r.doc]
                /\ began' = [began EXCEPT
                     ![p] = [version |-> docs[r.doc].version,
                             deleted |-> docs[r.doc].deleted]]
        /\ IF Refusal(r) # "none"
           THEN Respond(p, Failure(Refusal(r)))
           ELSE /\ Goto(p, IF FromTemplate(r) THEN "template" ELSE "connect")
                /\ UNCHANGED reply
  BY DEF Arrive
<1>3. pc'[p] \in {"done", "template", "connect"}
  BY <1>1, <1>2 DEF Respond, Goto, TypeOK
<1>4. reply'[p].code # "ok"
  <2>1. Failure(Refusal(r)).code # "ok"
    BY DEF Failure, Answer, Refusal
  <2>2. reply'[p] = Failure(Refusal(r)) \/ reply'[p] = reply[p]
    BY <1>1, <1>2 DEF Respond, TypeOK
  <2> QED
    BY <1>1, <2>1, <2>2
<1>5. call'[p] = r
  BY <1>1, <1>2 DEF TypeOK
<1>6. ASSUME r.op # "create"
      PROVE  /\ began'[p].version <= docs'[target'[p]].version
             /\ began'[p].deleted => docs'[target'[p]].deleted
  <2>1. r.doc \in Docs /\ docs[r.doc].version \in Nat
    BY <1>1, <1>6, ConstantsAssumption, RequestFields DEF TypeOK, Rows
  <2>2. /\ target'[p] = r.doc
        /\ began'[p] = [version |-> docs[r.doc].version,
                        deleted |-> docs[r.doc].deleted]
    BY <1>1, <1>2, <1>6 DEF TypeOK
  <2> QED
    BY <1>1, <2>1, <2>2
<1> QED
  BY <1>3, <1>4, <1>5, <1>6 DEF Informed

\* The answer to a COMMIT that took effect.
LEMMA CommitInformed ==
    ASSUME IndInv, IndInv', \A d \in Docs : Grows(d),
           NEW p \in Calls, Informed(p), Commit(p)
    PROVE  Informed(p)'
<1> DEFINE d == target[p]
           r == call[p]
           w == work[p]
<1>1. /\ pc[p] = "commit" /\ docs' = DocsAfter(p) /\ versions' = VersionsAfter(p)
      /\ reply' = [reply EXCEPT ![p] = Written(p)]
      /\ UNCHANGED <<call, target, began>>
      /\ pc' = [pc EXCEPT ![p] = IF EventsOf(p) = <<>> THEN "done" ELSE "publish"]
  BY DEF Commit, Goto
<1>2. /\ d \in Docs /\ docs[d] \in Rows /\ w.row \in Rows
      /\ r.op \in {"create", "update", "snapshot", "delete"}
      /\ w.row.tenant = r.tenant /\ ~docs[d].deleted
      /\ docs[d].version <= w.row.version
      /\ w.number # 0 => docs[d].version < w.row.version
  <2>1. /\ d \in Docs /\ docs[d] \in Rows /\ w.row \in Rows
        /\ w.row.tenant = r.tenant /\ ~docs[d].deleted
        /\ \/ w.number = 0 /\ w.row.version = docs[d].version
           \/ w.row.version = docs[d].version + 1
    BY <1>1, PendingCommit
  <2>2. r.op \in {"create", "update", "snapshot", "delete"}
    BY <1>1, OwnedTarget DEF Engaged
  <2> QED
    BY <2>1, <2>2 DEF Rows
<1>3. /\ docs'[d] = w.row
      /\ WritesVersion(r) =>
           /\ w.row.version \in DOMAIN versions'[d]
           /\ versions'[d][w.row.version] = w.entry
           /\ w.entry = Entry(w.row.content, p, r.op # "snapshot")
           /\ w.number # 0
  BY <1>1, CommittedRow, CommittedEntry
<1>4. /\ pc'[p] \in {"done", "publish"} /\ reply'[p] = Written(p)
      /\ call'[p] = r /\ target'[p] = d /\ began'[p] = began[p]
  BY <1>1 DEF IndInv, TypeOK
<1>5. /\ reply'[p].version = w.row.version /\ reply'[p].body = w.row.content
  BY <1>4 DEF Written, Answer
<1>6. /\ began[p].version \in Nat
      /\ r.op # "create" => /\ began[p].version <= docs[d].version
                            /\ ~began[p].deleted
  BY <1>1, <1>2 DEF Informed, IndInv, TypeOK
<1>7. r.op # "create" => /\ began[p].version <= w.row.version
                         /\ r.op = "snapshot" => began[p].version < w.row.version
  <2>1. r.op = "snapshot" => w.number # 0
    BY <1>3 DEF WritesVersion
  <2> QED
    BY <1>2, <1>6, <2>1 DEF Rows
<1>8. Told(p)'
  <2> HIDE DEF d, r, w
  <2>1. /\ WritesVersion(r) =>
             /\ reply'[p].version \in DOMAIN versions'[d]
             /\ versions'[d][reply'[p].version] =
                  Entry(reply'[p].body, p, r.op # "snapshot")
    BY <1>3, <1>5
  <2>2. /\ r.op # "create" =>
             /\ ~began[p].deleted
             /\ reply'[p].version >= began[p].version
             /\ r.op = "snapshot" => reply'[p].version > began[p].version
    BY <1>2, <1>5, <1>6, <1>7 DEF Rows
  <2> QED
    BY <1>2, <1>3, <1>4, <2>1, <2>2 DEF Told
<1>9. r.op # "create" => /\ began'[p].version <= docs'[target'[p]].version
                         /\ ~began'[p].deleted
  BY <1>3, <1>4, <1>6, <1>7
<1> QED
  BY <1>4, <1>8, <1>9 DEF Informed

\* The answer to a read.
LEMMA ReadInformed ==
    ASSUME IndInv, NEW p \in Calls, Informed(p), pc[p] = "read",
           Live(target[p], call[p].tenant),
           Respond(p, Answer("ok", docs[target[p]].version,
                             docs[target[p]].content, {})),
           UNCHANGED <<tables, call, target, began>>
    PROVE  Informed(p)'
<1> DEFINE d == target[p]
           a == Answer("ok", docs[d].version, docs[d].content, {})
<1>1. /\ pc' = [pc EXCEPT ![p] = "done"] /\ reply' = [reply EXCEPT ![p] = a]
      /\ UNCHANGED <<docs, versions, call, target, began>>
  BY DEF Respond, Goto, tables
<1>2. pc'[p] = "done" /\ reply'[p].version = docs[d].version
  BY <1>1 DEF IndInv, TypeOK, Answer
<1>3. /\ call[p].op = "get" /\ d \in Docs /\ docs[d].version \in Nat
      /\ began[p].version \in Nat
  BY RequestFields
     DEF IndInv, TypeOK, TransactionsIsolated, RequestAgrees, Rows
<1>4. /\ began[p].version <= docs[d].version /\ ~began[p].deleted
      /\ docs[d].tenant = call[p].tenant
  BY <1>3 DEF Informed, Live
<1>5. ~WritesVersion(call[p])
  BY <1>3 DEF WritesVersion
<1> QED
  BY <1>1, <1>2, <1>3, <1>4, <1>5 DEF Informed, Told

\* The answer to a read of the history, which may be one of a document that
\* was deleted since the first statement but not before the call arrived.
LEMMA HistoryInformed ==
    ASSUME IndInv, NEW p \in Calls, Informed(p), FetchHistory(p)
    PROVE  Informed(p)'
<1> DEFINE d == target[p]
           h == versions[d]
<1>1. /\ pc[p] = "fetch" /\ UNCHANGED <<docs, versions, call, target, began>>
      /\ pc' = [pc EXCEPT ![p] = "done"]
  BY DEF FetchHistory, Respond, Goto, tables
<1>2. /\ call[p].op \in {"list_versions", "get_version"}
      /\ d \in Docs /\ docs[d].version \in Nat /\ began[p].version \in Nat
      /\ DOMAIN h = 1..docs[d].version
  BY <1>1, RequestFields
     DEF IndInv, TypeOK, TransactionsIsolated, RequestAgrees, HistoryComplete,
         Rows
<1>3. /\ began[p].version <= docs[d].version /\ ~began[p].deleted
      /\ docs[d].tenant = call[p].tenant
  BY <1>1, <1>2 DEF Informed
<1>4. pc'[p] = "done" /\ ~WritesVersion(call[p])
  BY <1>1, <1>2 DEF IndInv, TypeOK, WritesVersion
<1>5. call[p].op = "list_versions" => reply'[p].version = docs[d].version
  <2>1. Cardinality(1..docs[d].version) = docs[d].version
    <3>1. 1 \in Int /\ docs[d].version \in Int /\ docs[d].version >= 0
      BY <1>2
    <3>2. Cardinality(1..docs[d].version) =
            IF 1 > docs[d].version THEN 0 ELSE docs[d].version - 1 + 1
      BY <3>1, FS_Interval
    <3> QED
      BY <1>2, <3>2
  <2>2. call[p].op = "list_versions" =>
          reply' = [reply EXCEPT
                ![p] = Answer("ok", Cardinality(DOMAIN h), "empty", DOMAIN h)]
    BY Zenon DEF FetchHistory, Respond
  <2>3. reply \in [Calls -> [code: Codes, version: Nat, body: Texts,
                             rows: SUBSET (Nat \ {0})]]
    BY DEF IndInv, TypeOK
  <2> HIDE DEF h, d
  <2> QED
    BY <1>2, <2>1, <2>2, <2>3 DEF Answer
<1> QED
  BY <1>1, <1>2, <1>3, <1>4, <1>5 DEF Informed, Told

\* Every step leaves the call that takes it as well informed.
LEMMA MoverInformed ==
    ASSUME IndInv, IndInv', \A d \in Docs : Grows(d),
           NEW p \in Calls, Informed(p), Arrive(p) \/ Step(p) \/ Fault(p)
    PROVE  Informed(p)'
<1>1. ASSUME NEW step \in PCs \ {"idle", "fetch"}, Continue(p, step),
             pc[p] \notin {"idle", "publish", "done", "lost"}
      PROVE  Informed(p)'
  <2>1. pc'[p] = step /\ UNCHANGED <<call, target, began, reply>>
    BY <1>1 DEF Continue, Goto, IndInv, TypeOK
  <2> QED
    BY <1>1, <2>1, StaysInformed
<1>2. ASSUME NEW code \in Codes \ {"ok"}, Fail(p, code), pc[p] # "idle"
      PROVE  Informed(p)'
  <2>1. /\ pc'[p] = "done" /\ reply'[p] = Failure(code)
        /\ UNCHANGED <<call, target, began>>
    BY <1>2 DEF Fail, Respond, Goto, IndInv, TypeOK
  <2>2. reply'[p].code # "ok"
    BY <1>2, <2>1 DEF Failure, Answer
  <2> QED
    BY <1>2, <2>1, <2>2, StaysInformed
<1>3. CASE FetchTemplate(p) \/ Connect(p)
  <2>1. CASE FetchTemplate(p)
    BY <1>1, <1>2, <2>1 DEF FetchTemplate, Codes, PCs
  <2>2. CASE Connect(p)
    <3>1. FirstStatement(call[p].op) \in PCs \ {"idle", "fetch"}
      <4>1. call[p] \in Requests
        BY <2>2 DEF Connect, IndInv, TransactionsIsolated, RequestAgrees
      <4> QED
        BY <4>1, RequestFields DEF FirstStatement, PCs
    <3> QED
      BY <1>1, <2>2, <3>1 DEF Connect
  <2> QED
    BY <1>3, <2>1, <2>2
<1>4. CASE InsertDocument(p)
  <2>1. /\ pc[p] = "insert_document" /\ pc'[p] = "insert_version"
        /\ UNCHANGED <<call, began, reply>>
    BY <1>4 DEF InsertDocument, Goto, IndInv, TypeOK
  <2>2. call[p].op = "create" /\ reply'[p].code # "ok"
    BY <2>1 DEF IndInv, TransactionsIsolated, RequestAgrees, Informed, Told
  <2> QED
    BY <2>1, <2>2, StaysInformed
<1>5. CASE SelectForUpdate(p) \/ RefuseTransition(p) \/ UpdateDocument(p)
  <2>1. pc[p] \in {"select", "update"}
    BY <1>5 DEF SelectForUpdate, RefuseTransition, UpdateDocument
  <2>2. \/ Fail(p, "not_found") \/ Fail(p, "bad_request")
        \/ \E step \in {"update", "insert_version", "commit"} : Continue(p, step)
    BY <1>5 DEF SelectForUpdate, RefuseTransition, UpdateDocument
  <2> QED
    BY <1>1, <1>2, <2>1, <2>2 DEF Codes, PCs
<1>6. CASE InsertVersion(p) \/ BumpVersion(p) \/ DeleteDocument(p)
  <2>1. pc[p] \in {"insert_version", "bump", "delete"}
    BY <1>6 DEF InsertVersion, BumpVersion, DeleteDocument
  <2>2. \/ Fail(p, "not_found") \/ Fail(p, "internal")
        \/ \E step \in {"bump", "commit"} : Continue(p, step)
    BY <1>6 DEF InsertVersion, BumpVersion, DeleteDocument
  <2> QED
    BY <1>1, <1>2, <2>1, <2>2 DEF Codes, PCs
<1>7. CASE Publish(p)
  <2>1. /\ pc[p] = "publish" /\ pc'[p] \in {"publish", "done"}
        /\ UNCHANGED <<call, target, began, reply>>
    BY <1>7 DEF Publish, Goto, IndInv, TypeOK
  <2> QED
    BY <2>1, StaysInformed
<1>8. CASE ReadDocument(p)
  BY <1>2, <1>8, ReadInformed DEF ReadDocument, Codes
<1>9. CASE CheckLive(p)
  <2>1. pc[p] = "check" /\ target[p] \in Docs /\ call[p].op # "create"
    BY <1>9, RequestFields
       DEF CheckLive, IndInv, TransactionsIsolated, RequestAgrees
  <2>2. CASE Live(target[p], call[p].tenant) /\ Continue(p, "fetch")
    <3>1. /\ pc'[p] = "fetch"
          /\ UNCHANGED <<docs, versions, call, target, began, reply>>
      BY <2>2 DEF Continue, Goto, tables, IndInv, TypeOK
    <3> QED
      BY <2>1, <2>2, <3>1 DEF Informed, Told, Live
  <2> QED
    BY <1>2, <1>9, <2>1, <2>2 DEF CheckLive, Codes
<1>10. CASE CommitFails(p)
  <2>1. /\ pc[p] = "commit" /\ pc'[p] = "done"
        /\ reply'[p] = Failure("internal") /\ UNCHANGED <<call, target, began>>
    BY <1>10 DEF CommitFails, Respond, Goto, IndInv, TypeOK
  <2>2. reply'[p].code # "ok"
    BY <2>1 DEF Failure, Answer
  <2> QED
    BY <2>1, <2>2, StaysInformed
<1>11. CASE Crash(p)
  <2>1. /\ pc[p] # "idle" /\ pc'[p] = "lost"
        /\ UNCHANGED <<call, target, began, reply>>
    BY <1>11 DEF Crash, Goto, IndInv, TypeOK
  <2> QED
    BY <2>1, StaysInformed
<1>12. CASE PoolTimeout(p)
  BY <1>2, <1>12 DEF PoolTimeout, Codes
<1> QED
  BY <1>3, <1>4, <1>5, <1>6, <1>7, <1>8, <1>9, <1>10, <1>11, <1>12,
     ArrivalInformed, CommitInformed, HistoryInformed, Zenon DEF Step, Fault

LEMMA NextInformed ==
    ASSUME IndInv, AllInformed, [Next]_vars
    PROVE  AllInformed'
<1>1. IndInv' /\ \A d \in Docs : Grows(d)
  BY NextKeepsIndInv, EverythingGrows
<1>2. CASE UNCHANGED vars
  BY <1>1, <1>2, StaysInformed DEF vars, AllInformed
<1>3. ASSUME NEW p \in Calls, Arrive(p) \/ Step(p) \/ Fault(p)
      PROVE  AllInformed'
  <2>1. OnlyMoves(p)
    BY <1>3, OneCallMoves
  <2>2. \A q \in Calls \ {p} : Informed(q)'
    BY <1>1, <2>1, OthersStill, StaysInformed DEF AllInformed
  <2>3. Informed(p)'
    BY <1>1, <1>3, MoverInformed DEF AllInformed
  <2> QED
    BY <2>2, <2>3 DEF AllInformed
<1> QED
  BY <1>2, <1>3, Zenon DEF Next

LEMMA AlwaysInformed == Spec => []AllInformed
<1>1. Init => AllInformed
  BY DEF Init, AllInformed, Informed, NoAnswer, Failure, Answer
<1> QED
  BY <1>1, NextInformed, AlwaysIndInv, PTL DEF Spec

\* Whoever was answered 200 finds the version in the history for good, under
\* the number of the answer: COMMIT precedes the answer, and nothing rewrites
\* a version row.
THEOREM SavesAreAlwaysKept == Spec => []AcknowledgedSavesKept
<1>1. AllInformed => AcknowledgedSavesKept
  BY DEF AllInformed, Informed, Told, AcknowledgedSavesKept, Answered
<1> QED
  BY <1>1, AlwaysInformed, PTL

\* No answer is older than the call that asked for it, the two statements of
\* the history reads included.
THEOREM AnswersAlwaysCurrent == Spec => []AnswersAreCurrent
<1>1. AllInformed => AnswersAreCurrent
  BY DEF AllInformed, Informed, Told, AnswersAreCurrent, Answered
<1> QED
  BY <1>1, AlwaysInformed, PTL

-----------------------------------------------------------------------------
(* Tenants.                                                                *)

\* What a call wrote is in a document of its own tenant.
EntriesOwned ==
    \A d \in Docs, p \in Calls : \A n \in DOMAIN versions[d] :
        versions[d][n].by = p =>
            docs[d].tenant = call[p].tenant /\ pc[p] # "idle"

\* A document with a history has a tenant.
LEMMA HistoriesHaveOwners ==
    ASSUME IndInv, NEW d \in Docs, NEW n \in DOMAIN versions[d]
    PROVE  docs[d] # Absent
<1>1. DOMAIN versions[d] = 1..docs[d].version
  BY DEF IndInv, HistoryComplete
<1>2. docs[d].version # 0
  BY <1>1 DEF IndInv, TypeOK, Rows
<1> QED
  BY <1>2 DEF Absent, Row

\* Every entry was there before, or is the one the COMMIT of p adds.
LEMMA EntriesOfCommit ==
    ASSUME IndInv, NEW p \in Calls, pc[p] = "commit",
           docs' = DocsAfter(p), versions' = VersionsAfter(p),
           NEW d \in Docs, NEW n \in DOMAIN versions'[d]
    PROVE  \/ n \in DOMAIN versions[d] /\ versions'[d][n] = versions[d][n]
           \/ /\ d = target[p] /\ versions'[d][n].by = p
              /\ n = work[p].number /\ work[p].number # 0
<1> DEFINE t == target[p]
           w == work[p]
           k == docs[t].version
<1>1. CASE d # t
  BY <1>1, CommittedTables
<1>2. CASE d = t /\ w.number = 0
  BY <1>2 DEF VersionsAfter
<1>3. CASE d = t /\ w.number # 0
  <2>1. /\ t \in Docs /\ w.row # Absent /\ w.number = k + 1
        /\ w.entry \in Entries
    BY <1>3, PendingCommit
  <2>2. /\ k \in Nat /\ versions[t] \in [1..k -> Entries]
        /\ DOMAIN versions = Docs
    BY <2>1 DEF IndInv, TypeOK, HistoryComplete, Rows
  <2>3. versions'[t] = WithEntry(versions[t], k + 1, w.entry)
    BY <1>3, <2>1, <2>2 DEF VersionsAfter
  <2>4. w.entry.by = p
    <3>1. w.entry = Entry(w.row.content, p, call[p].op # "snapshot")
      BY <1>3, CommittedEntry, Zenon
    <3> QED
      BY <3>1 DEF Entry
  <2> HIDE DEF k, w, t
  <2>5. /\ DOMAIN WithEntry(versions[t], k + 1, w.entry) = 1..(k + 1)
        /\ WithEntry(versions[t], k + 1, w.entry)[k + 1] = w.entry
        /\ \A i \in 1..k : WithEntry(versions[t], k + 1, w.entry)[i]
                             = versions[t][i]
    <3>1. k \in Nat /\ versions[t] \in [1..k -> Entries] /\ w.entry \in Entries
      BY <2>1, <2>2
    <3> QED
      BY <3>1, WithEntryType
  <2>6. n = k + 1 \/ n \in 1..k
    BY <1>3, <2>2, <2>3, <2>5
  <2>7. CASE n = k + 1
    BY <1>3, <2>1, <2>3, <2>4, <2>5, <2>7, Zenon DEF t, w
  <2>8. CASE n \in 1..k
    <3>1. n \in DOMAIN versions[t]
      BY <2>2, <2>8
    <3> QED
      BY <1>3, <2>3, <2>5, <2>8, <3>1, Zenon
  <2> QED
    BY <2>6, <2>7, <2>8
<1> QED
  BY <1>1, <1>2, <1>3

\* A call that has arrived stays the call it is.
LEMMA ArrivesOnce ==
    ASSUME IndInv, [Next]_vars, NEW q \in Calls, pc[q] # "idle"
    PROVE  pc'[q] # "idle" /\ call'[q] = call[q]
<1> DEFINE Goes(p) == /\ UNCHANGED call
                      /\ \E step \in PCs \ {"idle"} : Goto(p, step)
<1>1. ASSUME NEW p \in Calls, Step(p) \/ Fault(p) PROVE Goes(p)
  <2>1. ASSUME NEW step \in PCs \ {"idle"}, Continue(p, step) PROVE Goes(p)
    BY <2>1 DEF Continue
  <2>2. ASSUME NEW code, Fail(p, code) PROVE Goes(p)
    BY <2>2 DEF Fail, Respond, PCs
  <2>3. CASE FetchTemplate(p) \/ CheckLive(p)
    BY <2>1, <2>2, <2>3, Zenon DEF FetchTemplate, CheckLive, PCs
  <2>4. CASE Connect(p)
    <3>1. call[p] \in Requests
      BY <2>4 DEF Connect, IndInv, TransactionsIsolated, RequestAgrees
    <3>2. FirstStatement(call[p].op) \in PCs \ {"idle"}
      BY <3>1, RequestFields DEF FirstStatement, PCs
    <3> QED
      BY <2>1, <2>4, <3>2 DEF Connect
  <2>5. CASE SelectForUpdate(p) \/ RefuseTransition(p) \/ UpdateDocument(p)
    BY <2>1, <2>2, <2>5 DEF SelectForUpdate, RefuseTransition, UpdateDocument, PCs
  <2>6. CASE InsertVersion(p) \/ BumpVersion(p) \/ DeleteDocument(p)
    BY <2>1, <2>2, <2>6 DEF InsertVersion, BumpVersion, DeleteDocument, PCs
  <2>7. CASE InsertDocument(p) \/ Commit(p) \/ Publish(p)
    BY <2>7 DEF InsertDocument, Commit, Publish, PCs
  <2>8. CASE ReadDocument(p) \/ FetchHistory(p)
    BY <2>2, <2>8 DEF ReadDocument, FetchHistory, Respond, PCs
  <2>9. CASE CommitFails(p) \/ Crash(p) \/ PoolTimeout(p)
    BY <2>2, <2>9 DEF CommitFails, Crash, PoolTimeout, Respond, PCs
  <2> QED
    BY <1>1, <2>3, <2>4, <2>5, <2>6, <2>7, <2>8, <2>9 DEF Step, Fault
<1>2. CASE UNCHANGED vars
  BY <1>2 DEF vars
<1>3. ASSUME NEW p \in Calls, Arrive(p) \/ Step(p) \/ Fault(p)
      PROVE  pc'[q] # "idle" /\ call'[q] = call[q]
  <2>1. CASE q # p
    BY <1>3, <2>1, OneCallMoves, OthersStill
  <2>2. CASE q = p
    <3>1. Goes(p)
      BY <1>1, <1>3, <2>2 DEF Arrive
    <3> QED
      BY <2>2, <3>1 DEF Goto, IndInv, TypeOK
  <2> QED
    BY <2>1, <2>2
<1> QED
  BY <1>2, <1>3, Zenon DEF Next

LEMMA EntriesStayOwned ==
    ASSUME IndInv, EntriesOwned, [Next]_vars
    PROVE  EntriesOwned'
<1> SUFFICES ASSUME NEW d \in Docs, NEW q \in Calls, NEW n \in DOMAIN versions'[d],
                    versions'[d][n].by = q
             PROVE  docs'[d].tenant = call'[q].tenant /\ pc'[q] # "idle"
  BY DEF EntriesOwned
<1>1. ASSUME n \in DOMAIN versions[d], versions'[d][n] = versions[d][n]
      PROVE  docs'[d].tenant = call'[q].tenant /\ pc'[q] # "idle"
  <2>1. docs[d].tenant = call[q].tenant /\ pc[q] # "idle"
    BY <1>1 DEF EntriesOwned
  <2>2. docs'[d].tenant = docs[d].tenant
    BY <1>1, EverythingGrows, HistoriesHaveOwners DEF Grows
  <2> QED
    BY <2>1, <2>2, ArrivesOnce
<1>2. CASE docs' = docs /\ versions' = versions
  BY <1>1, <1>2
<1>3. ASSUME NEW p \in Calls, pc[p] = "commit",
             docs' = DocsAfter(p), versions' = VersionsAfter(p)
      PROVE  docs'[d].tenant = call'[q].tenant /\ pc'[q] # "idle"
  <2>1. ASSUME d = target[p], q = p
        PROVE  docs'[d].tenant = call'[q].tenant /\ pc'[q] # "idle"
    BY <1>3, <2>1, PendingCommit, CommittedTables, ArrivesOnce
  <2> QED
    BY <1>1, <1>3, <2>1, EntriesOfCommit
<1> QED
  BY <1>2, <1>3, TablesChangeByCommit

\* No call has written what was there at the start.
LEMMA InitialEntries ==
    ASSUME Init, NEW d \in Docs, NEW n \in DOMAIN versions[d]
    PROVE  versions[d][n].by = "past"
<1>1. CASE d \in DOMAIN Seeded
  <2>1. versions[d] = <<Entry("past", "past", TRUE)>>
    BY <1>1 DEF Init
  <2> QED
    BY <2>1 DEF Entry
<1>2. CASE d \notin DOMAIN Seeded
  <2>1. versions[d] = <<>>
    BY <1>2 DEF Init
  <2>2. DOMAIN versions[d] = 1..0
    BY <2>1, NoHistory, Zenon
  <2> QED
    BY <2>2
<1> QED
  BY <1>1, <1>2

\* Reads, writes and version rows stay within the tenant of the caller,
\* whatever identifiers callers guess.
THEOREM TenantsAlwaysApart == Spec => []TenantsApart
<1>1. Init => EntriesOwned
  BY InitialEntries, CallsAssumption DEF EntriesOwned
<1>2. EntriesOwned /\ AllInformed => TenantsApart
  BY DEF EntriesOwned, AllInformed, Informed, Told, TenantsApart, Answered
<1> QED
  BY <1>1, <1>2, EntriesStayOwned, AlwaysInformed, AlwaysIndInv, PTL DEF Spec

-----------------------------------------------------------------------------
(* Events.                                                                 *)

\* The events that tell what is so.
TrueEvents == {e \in Events : Happened(e)}

AllEventsTrue ==
    bus \in Seq(TrueEvents) /\ \A p \in Calls : outbox[p] \in Seq(TrueEvents)

LEMMA SequencesWiden ==
    ASSUME NEW S, NEW T, S \subseteq T, NEW s \in Seq(S)
    PROVE  s \in Seq(T)
<1>1. PICK n \in Nat : s \in [1..n -> S]
  BY SeqDef
<1>2. s \in [1..n -> T]
  BY <1>1
<1> QED
  BY <1>2, SeqDef

\* What is true of a committed document stays true of it.
LEMMA TruthIsKept ==
    ASSUME IndInv, IndInv', \A d \in Docs : Grows(d)
    PROVE  TrueEvents \subseteq TrueEvents'
<1> SUFFICES ASSUME NEW e \in Events, Happened(e) PROVE Happened(e)'
  BY DEF TrueEvents
<1>1. /\ e.doc \in Docs /\ e.version \in Nat /\ Grows(e.doc)
      /\ docs[e.doc].version \in Nat /\ docs'[e.doc].version \in Nat
  BY DEF Events, IndInv, TypeOK, Rows
<1> QED
  BY <1>1 DEF Happened, Grows

\* Every event of a COMMIT is one of those its request calls for.
LEMMA EventsWithin ==
    ASSUME IndInv, NEW p \in Calls, pc[p] = "commit", NEW S,
           LET r == call[p]
               v == work[p].row.version
           IN
           /\ r.op = "create" => /\ Event(p, "created", v, FALSE) \in S
                                 /\ Event(p, "version", v, TRUE) \in S
           /\ r.op = "update" =>
                /\ r.body = "fits" => Event(p, "version", v, TRUE) \in S
                /\ r.status = "published" => Event(p, "published", v, FALSE) \in S
                /\ Event(p, "updated", v, FALSE) \in S
           /\ r.op = "snapshot" => Event(p, "version", work[p].number, FALSE) \in S
           /\ r.op = "delete" => Event(p, "deleted", 0, FALSE) \in S
    PROVE  EventsOf(p) \in Seq(S)
<1> DEFINE v == work[p].row.version
           r == call[p]
<1>1. r.op \in {"create", "update", "snapshot", "delete"}
  BY OwnedTarget DEF Engaged
<1>2. ASSUME NEW e \in S
      PROVE  /\ <<e>> \in Seq(S)
             /\ \A f \in S : <<e, f>> \in Seq(S)
  OBVIOUS
<1>3. ASSUME NEW c, NEW e, c => e \in S PROVE When(c, e) \in Seq(S)
  BY <1>3 DEF When
<1>4. CASE r.op = "create"
  <2>1. EventsOf(p) = <<Event(p, "created", v, FALSE),
                        Event(p, "version", v, TRUE)>>
    BY <1>4 DEF EventsOf
  <2> QED
    BY <1>2, <1>4, <2>1, Zenon
<1>5. CASE r.op = "update"
  <2> DEFINE s1 == When(r.body = "fits", Event(p, "version", v, TRUE))
             s2 == When(r.status = "published", Event(p, "published", v, FALSE))
             s3 == When(Changed(r), Event(p, "updated", v, FALSE))
  <2>1. s1 \in Seq(S)
    BY <1>3, <1>5
  <2>2. s2 \in Seq(S)
    BY <1>3, <1>5
  <2>3. s3 \in Seq(S)
    BY <1>3, <1>5
  <2>4. EventsOf(p) = s1 \o s2 \o s3
    BY <1>5 DEF EventsOf
  <2> HIDE DEF s1, s2, s3
  <2>5. s1 \o s2 \in Seq(S)
    BY <2>1, <2>2, ConcatProperties
  <2>6. (s1 \o s2) \o s3 \in Seq(S)
    BY <2>3, <2>5, ConcatProperties
  <2> QED
    BY <2>4, <2>6
<1>6. CASE r.op = "snapshot"
  <2>1. EventsOf(p) = <<Event(p, "version", work[p].number, FALSE)>>
    BY <1>6 DEF EventsOf
  <2> QED
    BY <1>2, <1>6, <2>1, Zenon
<1>7. CASE r.op = "delete"
  <2>1. EventsOf(p) = <<Event(p, "deleted", 0, FALSE)>>
    BY <1>7 DEF EventsOf
  <2> QED
    BY <1>2, <1>7, <2>1, Zenon
<1> QED
  BY <1>1, <1>4, <1>5, <1>6, <1>7

\* The events of a COMMIT tell what the COMMIT made so.
LEMMA CommitTellsTheTruth ==
    ASSUME IndInv, IndInv', NEW p \in Calls, pc[p] = "commit",
           docs' = DocsAfter(p), versions' = VersionsAfter(p)
    PROVE  EventsOf(p) \in Seq(TrueEvents')
<1> DEFINE d == target[p]
           r == call[p]
           w == work[p]
           v == w.row.version
<1>1. /\ d \in Docs /\ v \in Nat /\ w.number \in Nat /\ docs'[d] = w.row
      /\ r.op \in {"create", "update", "snapshot", "delete"} /\ PendingWrites(p)
  <2>1. /\ d \in Docs /\ w.row \in Rows /\ docs'[d] = w.row
    BY PendingCommit, CommittedTables
  <2>2. r.op \in {"create", "update", "snapshot", "delete"} /\ PendingWrites(p)
    BY OwnedTarget DEF Engaged, IndInv, TransactionsIsolated
  <2> QED
    BY <2>1, <2>2, WorkIsTyped DEF Rows, Work
<1>2. ASSUME WritesVersion(r)
      PROVE  /\ w.number = v /\ v \in DOMAIN versions'[d]
             /\ versions'[d][v].by = p
             /\ versions'[d][v].auto = (r.op # "snapshot")
  <2>1. /\ w.number = v /\ v \in DOMAIN versions'[d]
        /\ versions'[d][v] = w.entry
        /\ w.entry = Entry(w.row.content, p, r.op # "snapshot")
    BY <1>2, CommittedRow, CommittedEntry
  <2> QED
    BY <2>1 DEF Entry
<1>3. PICK S : S = TrueEvents'
  OBVIOUS
<1>4. ASSUME NEW e \in Events, Happened(e)' PROVE e \in S
  BY <1>3, <1>4 DEF TrueEvents
<1>5. ASSUME NEW e, e = Event(p, "version", v, r.op # "snapshot"),
             WritesVersion(r)
      PROVE  e \in S
  <2>1. /\ e \in Events /\ e.type = "version" /\ e.doc = d /\ e.version = v
        /\ e.by = p /\ e.auto = (r.op # "snapshot")
    BY <1>1, <1>5 DEF Event, Events
  <2>2. Happened(e)'
    BY <1>2, <1>5, <2>1 DEF Happened
  <2> QED
    BY <1>4, <2>1, <2>2
<1>6. ASSUME NEW e, e = Event(p, "updated", v, FALSE) PROVE e \in S
  <2>1. /\ e \in Events /\ e.type = "updated" /\ e.doc = d /\ e.version = v
    BY <1>1, <1>6 DEF Event, Events
  <2>2. docs'[d].version >= v
    BY <1>1
  <2>3. Happened(e)'
    BY <2>1, <2>2 DEF Happened
  <2> QED
    BY <1>4, <2>1, <2>3
<1>7. ASSUME r.op = "create"
      PROVE  /\ Event(p, "created", v, FALSE) \in S
             /\ Event(p, "version", v, TRUE) \in S
  <2>1. v = 1
    BY <1>1, <1>7 DEF PendingWrites, Pending, NewRow, Row
  <2>2. ASSUME NEW e, e = Event(p, "created", v, FALSE) PROVE e \in S
    <3>1. e \in Events /\ e.type = "created" /\ e.doc = d
      BY <1>1, <2>2 DEF Event, Events
    <3>2. docs'[d].version >= 1
      BY <1>1, <2>1
    <3>3. Happened(e)'
      BY <3>1, <3>2 DEF Happened
    <3> QED
      BY <1>4, <3>1, <3>3
  <2>3. Event(p, "version", v, TRUE) \in S
    <3>1. WritesVersion(r) /\ (r.op # "snapshot") = TRUE
      BY <1>7 DEF WritesVersion
    <3> QED
      BY <1>5, <3>1
  <2> QED
    BY <2>2, <2>3
<1>8. ASSUME r.op = "update"
      PROVE  /\ r.body = "fits" => Event(p, "version", v, TRUE) \in S
             /\ r.status = "published" => Event(p, "published", v, FALSE) \in S
             /\ Event(p, "updated", v, FALSE) \in S
  <2>1. r.body = "fits" => WritesVersion(r) /\ (r.op # "snapshot") = TRUE
    BY <1>8 DEF WritesVersion
  <2>2. ASSUME r.status = "published", NEW e, e = Event(p, "published", v, FALSE)
        PROVE  e \in S
    <3>1. w.row = Edited(r, p, docs[d], docs[d])
      BY <1>1, <1>8 DEF PendingWrites, Pending
    <3>2. docs'[d].status = "published"
      BY <1>1, <2>2, <3>1 DEF Edited, Row
    <3> QED
      BY <1>1, <1>4, <2>2, <3>2 DEF Event, Events, Happened
  <2> QED
    BY <1>5, <1>6, <2>1, <2>2
<1>9. ASSUME r.op = "snapshot"
      PROVE  Event(p, "version", w.number, FALSE) \in S
  <2>1. WritesVersion(r) /\ (r.op # "snapshot") = FALSE
    BY <1>9 DEF WritesVersion
  <2> QED
    BY <1>2, <1>5, <2>1
<1>10. ASSUME r.op = "delete" PROVE Event(p, "deleted", 0, FALSE) \in S
  <2>1. w.row = Removed(docs[d])
    BY <1>1, <1>10 DEF PendingWrites, Pending
  <2>2. docs'[d].deleted
    BY <1>1, <2>1 DEF Removed, Row
  <2>3. ASSUME NEW e, e = Event(p, "deleted", 0, FALSE) PROVE e \in S
    BY <1>1, <1>4, <2>2, <2>3 DEF Event, Events, Happened
  <2> QED
    BY <2>3
<1> HIDE DEF d, r, w, v
<1>11. EventsOf(p) \in Seq(S)
  BY <1>7, <1>8, <1>9, <1>10, EventsWithin DEF r, w, v
<1> QED
  BY <1>3, <1>11

LEMMA EventsStayTrue ==
    ASSUME IndInv, AllEventsTrue, [Next]_vars
    PROVE  AllEventsTrue'
<1>1. IndInv' /\ TrueEvents \subseteq TrueEvents'
  BY NextKeepsIndInv, EverythingGrows, TruthIsKept
<1>2. PICK S, T : S = TrueEvents /\ T = TrueEvents' /\ S \subseteq T
  BY <1>1
<1>3. /\ bus \in Seq(S) /\ \A p \in Calls : outbox[p] \in Seq(S)
      /\ bus \in Seq(T) /\ \A p \in Calls : outbox[p] \in Seq(T)
  BY <1>2, SequencesWiden DEF AllEventsTrue
<1>4. DOMAIN outbox = Calls
  BY DEF IndInv, TypeOK
<1>5. CASE UNCHANGED <<outbox, bus>>
  BY <1>2, <1>3, <1>5 DEF AllEventsTrue
<1>6. ASSUME NEW p \in Calls, NEW events \in Seq(T),
             outbox' = [outbox EXCEPT ![p] = events], bus' \in Seq(T)
      PROVE  AllEventsTrue'
  BY <1>2, <1>3, <1>4, <1>6 DEF AllEventsTrue
<1>7. ASSUME NEW p \in Calls, Commit(p) PROVE AllEventsTrue'
  <2>1. EventsOf(p) \in Seq(T)
    BY <1>1, <1>2, <1>7, CommitTellsTheTruth DEF Commit
  <2> QED
    BY <1>3, <1>6, <1>7, <2>1 DEF Commit
<1>8. ASSUME NEW p \in Calls, Publish(p) PROVE AllEventsTrue'
  <2> DEFINE o == outbox[p]
  <2>1. o # <<>>
    BY <1>8 DEF Publish, IndInv, TransactionsIsolated, RequestAgrees
  <2>2. o \in Seq(T) /\ bus \in Seq(T)
    BY <1>3
  <2> HIDE DEF o
  <2>3. Head(o) \in T /\ Tail(o) \in Seq(T)
    BY <2>1, <2>2, HeadTailProperties
  <2>4. Append(bus, Head(o)) \in Seq(T)
    BY <2>2, <2>3, AppendProperties
  <2>5. /\ outbox' = [outbox EXCEPT ![p] = Tail(o)]
        /\ bus' = Append(bus, Head(o)) \/ bus' = bus
    BY <1>8 DEF Publish, o
  <2>6. bus' \in Seq(T)
    BY <2>2, <2>4, <2>5
  <2> QED
    BY <1>6, <2>3, <2>5, <2>6
<1>9. ASSUME NEW p \in Calls, Crash(p) PROVE AllEventsTrue'
  <2>1. <<>> \in Seq(T)
    OBVIOUS
  <2> QED
    BY <1>3, <1>6, <1>9, <2>1 DEF Crash
<1>10. ASSUME NEW p \in Calls,
              Arrive(p) \/ (Step(p) /\ ~Commit(p) /\ ~Publish(p))
              \/ CommitFails(p) \/ PoolTimeout(p)
       PROVE  UNCHANGED <<outbox, bus>>
  BY <1>10, Zenon
     DEF Arrive, Step, FetchTemplate, Connect, InsertDocument, SelectForUpdate,
         RefuseTransition, UpdateDocument, InsertVersion, BumpVersion,
         DeleteDocument, ReadDocument, CheckLive, FetchHistory, CommitFails,
         PoolTimeout, Continue, Fail
<1>11. UNCHANGED vars => UNCHANGED <<outbox, bus>>
  BY DEF vars
<1> QED
  BY <1>5, <1>7, <1>8, <1>9, <1>10, <1>11, Zenon DEF Next, Fault

LEMMA AlwaysEventsTrue == Spec => []AllEventsTrue
<1>1. Init => AllEventsTrue
  BY DEF Init, AllEventsTrue
<1> QED
  BY <1>1, EventsStayTrue, AlwaysIndInv, PTL DEF Spec

\* A subscriber never learns of what is not so: events leave after COMMIT,
\* and nothing takes back what was committed.
THEOREM EventsAreAlwaysTrue == Spec => []EventsAreTrue
<1>1. AllEventsTrue => EventsAreTrue
  <2> SUFFICES ASSUME AllEventsTrue, NEW i \in DOMAIN bus PROVE Happened(bus[i])
    BY DEF EventsAreTrue
  <2>1. bus \in Seq(TrueEvents)
    BY DEF AllEventsTrue
  <2>2. bus[i] \in TrueEvents
    BY <2>1, ElementOfSeq, LenProperties
  <2> QED
    BY <2>2 DEF TrueEvents
<1> QED
  BY <1>1, AlwaysEventsTrue, PTL

-----------------------------------------------------------------------------
(* News: every event that is on the bus or still to be published.          *)

\* Two events of one type and one call.
SameNews(e, f) == e.type = f.type /\ e.by = f.by

\* No such two are in s.
Apart(s) == \A i, j \in DOMAIN s : i # j => ~SameNews(s[i], s[j])

LEMMA RangeOf ==
    ASSUME NEW S, NEW s \in Seq(S)
    PROVE  /\ DOMAIN s = 1..Len(s) /\ Len(s) \in Nat
           /\ \A e : e \in Range(s) <=> \E i \in 1..Len(s) : e = s[i]
           /\ Range(s) \subseteq S
  BY RangeEquality, RangeOfSeq, LenProperties

LEMMA AppendApart ==
    ASSUME NEW S, NEW s \in Seq(S), NEW x \in S
    PROVE  /\ \A e : e \in Range(Append(s, x)) <=> e \in Range(s) \/ e = x
           /\ Apart(s) /\ (\A e \in Range(s) : ~SameNews(e, x)) =>
                Apart(Append(s, x))
<1> DEFINE t == Append(s, x)
           n == Len(s)
<1>1. /\ t \in Seq(S) /\ Len(t) = n + 1 /\ n \in Nat
      /\ \A i \in 1..n : t[i] = s[i]
      /\ t[n + 1] = x
  BY AppendProperties, LenProperties
<1>2. /\ DOMAIN s = 1..n
      /\ \A e : e \in Range(s) <=> \E i \in 1..n : e = s[i]
  BY RangeOf
<1> HIDE DEF t, n
<1>3. /\ DOMAIN t = 1..(n + 1)
      /\ \A e : e \in Range(t) <=> \E i \in 1..(n + 1) : e = t[i]
  BY <1>1, RangeOf
<1>4. \A i \in 1..(n + 1) : i \in 1..n \/ i = n + 1
  BY <1>1
<1>5. n + 1 \in 1..(n + 1) /\ \A i \in 1..n : i \in 1..(n + 1)
  BY <1>1
<1>6. \A e : e \in Range(t) <=> e \in Range(s) \/ e = x
  <2> SUFFICES ASSUME NEW e PROVE e \in Range(t) <=> e \in Range(s) \/ e = x
    OBVIOUS
  <2>1. ASSUME e \in Range(t) PROVE e \in Range(s) \/ e = x
    BY <1>1, <1>2, <1>3, <1>4, <2>1
  <2>2. ASSUME e \in Range(s) PROVE e \in Range(t)
    <3>1. PICK i \in 1..n : e = s[i]
      BY <1>2, <2>2
    <3> QED
      BY <1>1, <1>3, <1>5, <3>1
  <2>3. x \in Range(t)
    BY <1>1, <1>3, <1>5
  <2> QED
    BY <2>1, <2>2, <2>3
<1>7. ASSUME Apart(s), \A e \in Range(s) : ~SameNews(e, x)
      PROVE  Apart(t)
  <2>1. \A i \in 1..n : ~SameNews(s[i], x) /\ ~SameNews(x, s[i])
    BY <1>2, <1>7 DEF SameNews
  <2> SUFFICES ASSUME NEW i \in 1..(n + 1), NEW j \in 1..(n + 1), i # j
               PROVE  ~SameNews(t[i], t[j])
    BY <1>3 DEF Apart
  <2>2. CASE i \in 1..n /\ j \in 1..n
    BY <1>1, <1>2, <1>7, <2>2 DEF Apart
  <2>3. CASE i \in 1..n /\ j = n + 1
    BY <1>1, <2>1, <2>3
  <2>4. CASE i = n + 1 /\ j \in 1..n
    BY <1>1, <2>1, <2>4
  <2> QED
    BY <1>4, <2>2, <2>3, <2>4
<1> QED
  BY <1>6, <1>7 DEF t

LEMMA TailApart ==
    ASSUME NEW S, NEW s \in Seq(S), s # <<>>
    PROVE  /\ \A e : e \in Range(s) <=> e \in Range(Tail(s)) \/ e = Head(s)
           /\ Apart(s) =>
                /\ Apart(Tail(s))
                /\ \A e \in Range(Tail(s)) : ~SameNews(e, Head(s))
<1> DEFINE t == Tail(s)
           n == Len(s)
<1>1. /\ t \in Seq(S) /\ Len(t) = n - 1 /\ n \in Nat \ {0} /\ Head(s) = s[1]
      /\ \A i \in 1..(n - 1) : t[i] = s[i + 1]
  BY HeadTailProperties, LenProperties, EmptySeq
<1>2. /\ DOMAIN s = 1..n
      /\ \A e : e \in Range(s) <=> \E i \in 1..n : e = s[i]
  BY RangeOf
<1> HIDE DEF t, n
<1>3. /\ DOMAIN t = 1..(n - 1)
      /\ \A e : e \in Range(t) <=> \E i \in 1..(n - 1) : e = t[i]
  BY <1>1, RangeOf
<1>4. \A i \in 1..n : i = 1 \/ (i - 1 \in 1..(n - 1) /\ (i - 1) + 1 = i)
  BY <1>1
<1>5. \A i \in 1..(n - 1) : i + 1 \in 1..n /\ i + 1 # 1
  BY <1>1
<1>6. \A e : e \in Range(s) <=> e \in Range(t) \/ e = s[1]
  <2> SUFFICES ASSUME NEW e PROVE e \in Range(s) <=> e \in Range(t) \/ e = s[1]
    OBVIOUS
  <2>1. ASSUME e \in Range(s) PROVE e \in Range(t) \/ e = s[1]
    <3>1. PICK i \in 1..n : e = s[i]
      BY <1>2, <2>1
    <3> QED
      BY <1>1, <1>3, <1>4, <3>1
  <2>2. ASSUME e \in Range(t) PROVE e \in Range(s)
    <3>1. PICK i \in 1..(n - 1) : e = t[i]
      BY <1>3, <2>2
    <3> QED
      BY <1>1, <1>2, <1>5, <3>1
  <2>3. s[1] \in Range(s)
    BY <1>1, <1>2
  <2> QED
    BY <2>1, <2>2, <2>3
<1>7. ASSUME Apart(s)
      PROVE  Apart(t) /\ \A e \in Range(t) : ~SameNews(e, s[1])
  <2>1. \A i, j \in 1..n : i # j => ~SameNews(s[i], s[j])
    BY <1>2, <1>7 DEF Apart
  <2>2. Apart(t)
    <3> SUFFICES ASSUME NEW i \in 1..(n - 1), NEW j \in 1..(n - 1), i # j
                 PROVE  ~SameNews(t[i], t[j])
      BY <1>3 DEF Apart
    <3>1. i + 1 \in 1..n /\ j + 1 \in 1..n /\ i + 1 # j + 1
      BY <1>1, <1>5
    <3> QED
      BY <1>1, <2>1, <3>1
  <2>3. ASSUME NEW e \in Range(t) PROVE ~SameNews(e, s[1])
    <3>1. PICK i \in 1..(n - 1) : e = s[i + 1]
      BY <1>1, <1>3
    <3> QED
      BY <1>1, <1>5, <2>1, <3>1
  <2> QED
    BY <2>2, <2>3
<1> QED
  BY <1>1, <1>6, <1>7 DEF t

LEMMA ConcatApart ==
    ASSUME NEW S, NEW s \in Seq(S), NEW t \in Seq(S)
    PROVE  /\ s \o t \in Seq(S)
           /\ \A e : e \in Range(s \o t) <=> e \in Range(s) \/ e \in Range(t)
           /\ /\ Apart(s) /\ Apart(t)
              /\ \A e \in Range(s), f \in Range(t) : ~SameNews(e, f)
              => Apart(s \o t)
<1> DEFINE u == s \o t
           m == Len(s)
           n == Len(t)
<1>1. /\ u \in Seq(S) /\ Len(u) = m + n
      /\ \A i \in 1..(m + n) : u[i] = IF i <= m THEN s[i] ELSE t[i - m]
  BY ConcatProperties
<1>2. \A e : e \in Range(u) <=> e \in Range(s) \/ e \in Range(t)
  BY RangeConcatenation
<1>3. /\ DOMAIN s = 1..m /\ DOMAIN t = 1..n /\ DOMAIN u = 1..(m + n)
      /\ m \in Nat /\ n \in Nat
      /\ \A i \in 1..m : s[i] \in Range(s)
      /\ \A i \in 1..n : t[i] \in Range(t)
  BY <1>1, RangeOf
<1> HIDE DEF u, m, n
<1>4. ASSUME Apart(s), Apart(t),
             \A e \in Range(s), f \in Range(t) : ~SameNews(e, f)
      PROVE  Apart(u)
  <2> SUFFICES ASSUME NEW i \in 1..(m + n), NEW j \in 1..(m + n), i # j
               PROVE  ~SameNews(u[i], u[j])
    BY <1>3 DEF Apart
  <2>1. \A k \in 1..(m + n) : \/ k \in 1..m /\ u[k] = s[k]
                              \/ k - m \in 1..n /\ u[k] = t[k - m]
    BY <1>1, <1>3
  <2>2. i - m # j - m
    BY <1>3
  <2>3. CASE i \in 1..m /\ u[i] = s[i] /\ j \in 1..m /\ u[j] = s[j]
    BY <1>3, <1>4, <2>3 DEF Apart
  <2>4. CASE i \in 1..m /\ u[i] = s[i] /\ j - m \in 1..n /\ u[j] = t[j - m]
    BY <1>3, <1>4, <2>4
  <2>5. CASE i - m \in 1..n /\ u[i] = t[i - m] /\ j \in 1..m /\ u[j] = s[j]
    BY <1>3, <1>4, <2>5 DEF SameNews
  <2>6. CASE i - m \in 1..n /\ u[i] = t[i - m] /\ j - m \in 1..n /\ u[j] = t[j - m]
    BY <1>3, <1>4, <2>2, <2>6 DEF Apart
  <2> QED
    BY <2>1, <2>3, <2>4, <2>5, <2>6
<1> QED
  BY <1>1, <1>2, <1>4 DEF u

LEMMA AtMostOne ==
    ASSUME NEW S, NEW e \in S, NEW s, s = <<e>> \/ s = <<>>
    PROVE  /\ s \in Seq(S) /\ Apart(s)
           /\ s = <<e>> => \A x : x \in Range(s) <=> x = e
           /\ s = <<>> => \A x : x \notin Range(s)
<1>1. CASE s = <<e>>
  <2>1. s \in Seq(S) /\ Len(s) = 1 /\ s[1] = e
    BY <1>1
  <2>2. DOMAIN s = 1..1 /\ \A x : x \in Range(s) <=> \E i \in 1..1 : x = s[i]
    BY <2>1, RangeOf
  <2>3. \A i : i \in 1..1 <=> i = 1
    OBVIOUS
  <2>4. Apart(s)
    BY <2>2, <2>3 DEF Apart
  <2>5. \A x : x \in Range(s) <=> x = e
    BY <2>1, <2>2, <2>3, Zenon
  <2>6. s # <<>>
    BY <1>1
  <2> QED
    BY <2>1, <2>4, <2>5, <2>6
<1>2. CASE s = <<>>
  <2>1. s \in Seq(S) /\ Len(s) = 0
    BY <1>2
  <2>2. /\ DOMAIN s = 1..Len(s)
        /\ \A x : x \in Range(s) <=> \E i \in 1..Len(s) : x = s[i]
    BY <2>1, RangeOf
  <2>3. \A i : i \notin 1..Len(s)
    BY <2>1
  <2>4. s # <<e>>
    BY <1>2
  <2> QED
    BY <2>1, <2>2, <2>3, <2>4 DEF Apart
<1> QED
  BY <1>1, <1>2

\* A COMMIT announces in its own name, each thing once, and its version when
\* it has written one.
LEMMA EventsOfCommit ==
    ASSUME IndInv, NEW p \in Calls, pc[p] = "commit"
    PROVE  LET r == call[p] IN
           /\ EventsOf(p) \in Seq(Events) /\ Apart(EventsOf(p))
           /\ \A e \in Range(EventsOf(p)) :
                /\ e.by = p /\ e.doc = target[p]
                /\ e.type = "published" =>
                     r.op = "update" /\ r.status = "published"
           /\ WritesVersion(r) => \E e \in Range(EventsOf(p)) :
                e.type = "version" /\ e.version = work[p].number
<1> DEFINE r == call[p]
           n == work[p].number
           v == work[p].row.version
           E == EventsOf(p)
           created == Event(p, "created", v, FALSE)
           saved == Event(p, "version", v, TRUE)
           published == Event(p, "published", v, FALSE)
           updated == Event(p, "updated", v, FALSE)
           taken == Event(p, "version", n, FALSE)
           deleted == Event(p, "deleted", 0, FALSE)
<1>1. /\ r.op \in {"create", "update", "snapshot", "delete"}
      /\ target[p] \in Docs /\ v \in Nat /\ n \in Nat
      /\ WritesVersion(r) => n = v
  BY OwnedTarget, WorkIsTyped, CommittedEntry DEF Engaged, Work, Rows
<1>2. /\ {created, saved, published, updated, taken, deleted} \subseteq Events
      /\ \A e \in {created, saved, published, updated, taken, deleted} :
           e.by = p /\ e.doc = target[p]
      /\ created.type = "created" /\ saved.type = "version"
      /\ published.type = "published" /\ updated.type = "updated"
      /\ taken.type = "version" /\ deleted.type = "deleted"
      /\ saved.version = v /\ taken.version = n
  BY <1>1 DEF Event, Events
<1>3. CASE r.op = "create"
  <2>1. E = <<created, saved>>
    BY <1>3 DEF EventsOf
  <2> HIDE DEF E, created, saved
  <2>2. /\ E \in Seq(Events) /\ Len(E) = 2 /\ E[1] = created /\ E[2] = saved
    BY <1>2, <2>1
  <2>3. DOMAIN E = 1..2 /\ \A e : e \in Range(E) <=> \E i \in 1..2 : e = E[i]
    BY <2>2, RangeOf
  <2>4. \A i : i \in 1..2 <=> i = 1 \/ i = 2
    OBVIOUS
  <2>5. Apart(E)
    BY <1>2, <2>2, <2>3, <2>4 DEF Apart, SameNews
  <2>6. \A e : e \in Range(E) <=> e = created \/ e = saved
    BY <2>2, <2>3, <2>4, Zenon
  <2>7. \A e \in Range(E) : e.by = p /\ e.doc = target[p] /\ e.type # "published"
    BY <1>2, <2>6
  <2>8. saved \in Range(E) /\ (WritesVersion(r) => saved.version = n)
    BY <1>1, <1>2, <2>6
  <2> QED
    BY <1>2, <2>2, <2>5, <2>7, <2>8 DEF E, r, n
<1>4. CASE r.op = "update"
  <2> DEFINE s1 == When(r.body = "fits", saved)
             s2 == When(r.status = "published", published)
             s3 == When(Changed(r), updated)
  <2>1. E = s1 \o s2 \o s3
    BY <1>4 DEF EventsOf
  <2> HIDE DEF saved, published, updated
  <2>2. /\ s1 \in Seq(Events) /\ Apart(s1)
        /\ \A x : x \in Range(s1) <=> r.body = "fits" /\ x = saved
    <3>1. IF r.body = "fits" THEN s1 = <<saved>> ELSE s1 = <<>>
      BY DEF When
    <3> HIDE DEF s1
    <3> QED
      BY <1>2, <3>1, AtMostOne
  <2>3. /\ s2 \in Seq(Events) /\ Apart(s2)
        /\ \A x : x \in Range(s2) <=> r.status = "published" /\ x = published
    <3>1. IF r.status = "published" THEN s2 = <<published>> ELSE s2 = <<>>
      BY DEF When
    <3> HIDE DEF s2
    <3> QED
      BY <1>2, <3>1, AtMostOne
  <2>4. /\ s3 \in Seq(Events) /\ Apart(s3)
        /\ \A x : x \in Range(s3) <=> Changed(r) /\ x = updated
    <3>1. IF Changed(r) THEN s3 = <<updated>> ELSE s3 = <<>>
      BY DEF When
    <3> HIDE DEF s3
    <3> QED
      BY <1>2, <3>1, AtMostOne
  <2> HIDE DEF s1, s2, s3, E
  <2>5. /\ s1 \o s2 \in Seq(Events) /\ Apart(s1 \o s2)
        /\ \A e : e \in Range(s1 \o s2) <=> e \in Range(s1) \/ e \in Range(s2)
    <3>1. \A e \in Range(s1), f \in Range(s2) : ~SameNews(e, f)
      BY <1>2, <2>2, <2>3 DEF SameNews
    <3> QED
      BY <2>2, <2>3, <3>1, ConcatApart
  <2>6. /\ E \in Seq(Events) /\ Apart(E)
        /\ \A e : e \in Range(E) <=>
             e \in Range(s1) \/ e \in Range(s2) \/ e \in Range(s3)
    <3>1. \A e \in Range(s1 \o s2), f \in Range(s3) : ~SameNews(e, f)
      BY <1>2, <2>2, <2>3, <2>4, <2>5 DEF SameNews
    <3>2. PICK s12 : s12 = s1 \o s2
      OBVIOUS
    <3>3. /\ s12 \in Seq(Events) /\ Apart(s12) /\ E = s12 \o s3
          /\ \A e \in Range(s12), f \in Range(s3) : ~SameNews(e, f)
          /\ \A e : e \in Range(s12) <=> e \in Range(s1) \/ e \in Range(s2)
      BY <2>1, <2>5, <3>1, <3>2
    <3> QED
      BY <2>4, <3>3, ConcatApart
  <2>7. \A e \in Range(E) :
          /\ e.by = p /\ e.doc = target[p]
          /\ e.type = "published" => r.status = "published"
    BY <1>2, <2>2, <2>3, <2>4, <2>6
  <2>8. WritesVersion(r) => saved \in Range(E) /\ saved.version = n
    BY <1>1, <1>2, <1>4, <2>2, <2>6 DEF WritesVersion
  <2> QED
    BY <1>2, <1>4, <2>6, <2>7, <2>8 DEF E, r, n
<1>5. ASSUME NEW e \in Events, E = <<e>>, e.by = p, e.doc = target[p],
             e.type # "published",
             WritesVersion(r) => e.type = "version" /\ e.version = n
      PROVE  /\ E \in Seq(Events) /\ Apart(E)
             /\ \A f \in Range(E) : /\ f.by = p /\ f.doc = target[p]
                                    /\ f.type # "published"
             /\ WritesVersion(r) => \E f \in Range(E) :
                  f.type = "version" /\ f.version = n
  <2> HIDE DEF E, r, n
  <2>1. E \in Seq(Events) /\ Apart(E) /\ \A x : x \in Range(E) <=> x = e
    BY <1>5, AtMostOne
  <2> QED
    BY <1>5, <2>1
<1>6. CASE r.op = "snapshot"
  <2>1. E = <<taken>>
    BY <1>6 DEF EventsOf
  <2> HIDE DEF E, taken
  <2> QED
    BY <1>2, <1>5, <2>1 DEF E
<1>7. CASE r.op = "delete"
  <2>1. E = <<deleted>> /\ ~WritesVersion(r)
    BY <1>7 DEF EventsOf, WritesVersion
  <2> HIDE DEF E, deleted
  <2> QED
    BY <1>2, <1>5, <2>1 DEF E
<1> QED
  BY <1>1, <1>3, <1>4, <1>6, <1>7

\* What the bus has been told or is about to be.
News ==
    {e \in Events :
        e \in Range(bus) \/ \E p \in Calls : e \in Range(outbox[p])}

\* A call has something to say only while it publishes: each thing once, in
\* its own name, and nothing it has said before.
OwnNews(p) ==
    /\ outbox[p] # <<>> => pc[p] = "publish"
    /\ Apart(outbox[p])
    /\ \A e \in Range(outbox[p]) :
         e.by = p /\ \A f \in Range(bus) : ~SameNews(e, f)

\* Only a call that has committed has been heard.
HeardAfterCommit ==
    \A f \in Range(bus) : pc[f.by] \in {"publish", "done", "lost"}

OnePublisher ==
    \A e, f \in News :
        e.type = "published" /\ f.type = "published" /\ e.doc = f.doc =>
            e.by = f.by

\* Without faults, whatever a call wrote is told.
NothingMissing ==
    Faults = {} =>
        \A d \in Docs : \A n \in DOMAIN versions[d] :
            versions[d][n].by # "past" =>
                \E e \in News : e.type = "version" /\ e.doc = d /\ e.version = n

NewsOnce ==
    /\ Apart(bus) /\ HeardAfterCommit /\ OnePublisher /\ NothingMissing
    /\ \A p \in Calls : OwnNews(p)

LEMMA EmptyRange == Apart(<<>>) /\ \A x : x \notin Range(<<>>)
<1>1. PICK s : s = <<>>
  OBVIOUS
<1>2. Apart(s) /\ \A x : x \notin Range(s)
  BY <1>1, AtMostOne
<1> QED
  BY <1>1, <1>2

\* Every event tells who sent it.
LEMMA NewsIsTyped ==
    ASSUME IndInv
    PROVE  /\ bus \in Seq(Events) /\ Range(bus) \subseteq Events
           /\ \A p \in Calls : /\ outbox[p] \in Seq(Events)
                               /\ Range(outbox[p]) \subseteq Events
           /\ \A e \in Events : e.by \in Calls /\ e.doc \in Docs
<1>1. bus \in Seq(Events) /\ \A p \in Calls : outbox[p] \in Seq(Events)
  BY DEF IndInv, TypeOK
<1>2. \A e \in Events : e.by \in Calls /\ e.doc \in Docs
  BY DEF Events
<1>3. Range(bus) \subseteq Events
  BY <1>1, RangeOf
<1>4. ASSUME NEW p \in Calls PROVE Range(outbox[p]) \subseteq Events
  <2>1. outbox[p] \in Seq(Events)
    BY <1>1
  <2> QED
    BY <2>1, RangeOf
<1> QED
  BY <1>1, <1>2, <1>3, <1>4

\* Every other step says nothing, and is taken by a call that has not yet
\* committed or answered.
LEMMA SilentSteps ==
    ASSUME NEW p \in Calls,
           \/ Arrive(p) \/ CommitFails(p) \/ PoolTimeout(p)
           \/ Step(p) /\ ~Commit(p) /\ ~Publish(p)
    PROVE  /\ UNCHANGED <<outbox, bus>>
           /\ pc[p] \notin {"publish", "done", "lost"}
           /\ versions' = versions \/ Faults # {}
<1>1. CASE Arrive(p)
  BY <1>1 DEF Arrive, tables
<1>2. ASSUME NEW step, Continue(p, step)
      PROVE  UNCHANGED <<outbox, bus, versions>>
  BY <1>2 DEF Continue, tables
<1>3. ASSUME NEW code, Fail(p, code)
      PROVE  UNCHANGED <<outbox, bus, versions>>
  BY <1>3 DEF Fail, tables
<1>4. CASE FetchTemplate(p) \/ Connect(p) \/ CheckLive(p)
  BY <1>2, <1>3, <1>4 DEF FetchTemplate, Connect, CheckLive
<1>5. CASE InsertDocument(p) \/ ReadDocument(p) \/ FetchHistory(p)
  BY <1>3, <1>5 DEF InsertDocument, ReadDocument, FetchHistory, tables
<1>6. CASE SelectForUpdate(p) \/ RefuseTransition(p) \/ UpdateDocument(p)
  BY <1>2, <1>3, <1>6 DEF SelectForUpdate, RefuseTransition, UpdateDocument
<1>7. CASE InsertVersion(p) \/ BumpVersion(p) \/ DeleteDocument(p)
  BY <1>2, <1>3, <1>7 DEF InsertVersion, BumpVersion, DeleteDocument
<1>8. CASE CommitFails(p)
  BY <1>8 DEF CommitFails
<1>9. CASE PoolTimeout(p)
  BY <1>3, <1>9 DEF PoolTimeout
<1> QED
  BY <1>1, <1>4, <1>5, <1>6, <1>7, <1>8, <1>9, Zenon DEF Step

LEMMA SilentStepsKeepNews ==
    ASSUME IndInv, NewsOnce, NEW p \in Calls, OnlyMoves(p),
           UNCHANGED <<outbox, bus>>, pc[p] \notin {"publish", "done", "lost"},
           versions' = versions \/ Faults # {}
    PROVE  NewsOnce'
<1>1. News' = News
  BY DEF News
<1>2. \A q \in Calls : pc[q] \in {"publish", "done", "lost"} => pc'[q] = pc[q]
  BY OthersStill
<1>3. HeardAfterCommit'
  <2>1. \A f \in Range(bus) : f.by \in Calls
    BY NewsIsTyped
  <2> QED
    BY <1>2, <2>1 DEF NewsOnce, HeardAfterCommit
<1>4. \A q \in Calls : OwnNews(q)'
  BY <1>2 DEF NewsOnce, OwnNews
<1> QED
  BY <1>1, <1>3, <1>4 DEF NewsOnce, OnePublisher, NothingMissing

LEMMA CommitKeepsNews ==
    ASSUME IndInv, AllEventsTrue, NewsOnce, NEW p \in Calls, Commit(p),
           OnlyMoves(p)
    PROVE  NewsOnce'
<1> DEFINE E == EventsOf(p)
           r == call[p]
<1>1. /\ pc[p] = "commit" /\ docs' = DocsAfter(p) /\ versions' = VersionsAfter(p)
      /\ outbox' = [outbox EXCEPT ![p] = E] /\ bus' = bus
      /\ pc' = [pc EXCEPT ![p] = IF E = <<>> THEN "done" ELSE "publish"]
  BY DEF Commit, Goto
<1>2. /\ E \in Seq(Events) /\ Apart(E)
      /\ \A e \in Range(E) :
           /\ e.by = p /\ e.doc = target[p]
           /\ e.type = "published" => r.op = "update" /\ r.status = "published"
      /\ WritesVersion(r) => \E e \in Range(E) :
           e.type = "version" /\ e.version = work[p].number
  BY <1>1, EventsOfCommit
<1> HIDE DEF E
<1>3. /\ outbox'[p] = E /\ \A q \in Calls \ {p} : outbox'[q] = outbox[q]
      /\ E # <<>> => pc'[p] = "publish"
      /\ \A q \in Calls \ {p} : pc'[q] = pc[q]
      /\ pc'[p] \in {"done", "publish"}
  BY <1>1 DEF IndInv, TypeOK
<1>4. \A e : e \notin Range(outbox[p])
  BY <1>1, EmptyRange DEF NewsOnce, OwnNews
<1>5. \A e : e \in News' <=> e \in News \/ e \in Range(E)
  <2>1. Range(E) \subseteq Events
    BY <1>2, RangeOf
  <2> QED
    BY <1>1, <1>3, <1>4, <2>1 DEF News
<1>6. \A f \in Range(bus) : f.by \in Calls \ {p}
  BY <1>1, NewsIsTyped DEF NewsOnce, HeardAfterCommit
<1>7. Apart(bus)' /\ HeardAfterCommit'
  BY <1>1, <1>3, <1>6 DEF NewsOnce, HeardAfterCommit
<1>8. ASSUME NEW q \in Calls PROVE OwnNews(q)'
  <2>1. CASE q = p
    BY <1>1, <1>2, <1>3, <1>6, <2>1 DEF OwnNews, SameNews
  <2>2. CASE q # p
    BY <1>1, <1>3, <2>2 DEF NewsOnce, OwnNews
  <2> QED
    BY <2>1, <2>2
<1>9. OnePublisher'
  <2>1. ASSUME NEW e \in News, NEW f \in Range(E), e.type = "published",
               f.type = "published", e.doc = f.doc
        PROVE  FALSE
    <3>1. r.op = "update" /\ r.status = "published" /\ e.doc = target[p]
      BY <1>2, <2>1
    <3>2. StatusAccepted(r, docs[target[p]].status)
      BY <1>1, <3>1 DEF IndInv, TransactionsIsolated, PendingWrites
    <3>3. docs[target[p]].status = "draft"
      BY <3>1, <3>2 DEF StatusAccepted, CanTransition
    <3>4. e \in TrueEvents
      <4>1. \A s \in Seq(TrueEvents) : Range(s) \subseteq TrueEvents
        BY RangeOf
      <4> QED
        BY <4>1 DEF News, AllEventsTrue
    <3> QED
      BY <2>1, <3>1, <3>3, <3>4 DEF TrueEvents, Happened
  <2>2. \A e, f \in Range(E) : e.by = f.by
    BY <1>2
  <2>3. \A e, f \in News : e.type = "published" /\ f.type = "published"
                           /\ e.doc = f.doc => e.by = f.by
    BY DEF NewsOnce, OnePublisher
  <2> QED
    BY <1>5, <2>1, <2>2, <2>3 DEF OnePublisher
<1>10. NothingMissing'
  <2> SUFFICES ASSUME Faults = {}, NEW d \in Docs, NEW n \in DOMAIN versions'[d],
                      versions'[d][n].by # "past"
               PROVE  \E e \in News' : /\ e.type = "version" /\ e.doc = d
                                       /\ e.version = n
    BY DEF NothingMissing
  <2>1. CASE n \in DOMAIN versions[d] /\ versions'[d][n] = versions[d][n]
    BY <1>5, <2>1 DEF NewsOnce, NothingMissing
  <2>2. CASE d = target[p] /\ n = work[p].number /\ work[p].number # 0
    <3>1. WritesVersion(r)
      BY <1>1, <2>2, CommittedEntry
    <3> QED
      BY <1>2, <1>5, <2>2, <3>1
  <2> QED
    BY <1>1, <2>1, <2>2, EntriesOfCommit
<1> QED
  BY <1>7, <1>8, <1>9, <1>10 DEF NewsOnce

LEMMA PublishKeepsNews ==
    ASSUME IndInv, NewsOnce, NEW p \in Calls, Publish(p), OnlyMoves(p)
    PROVE  NewsOnce'
<1> DEFINE o == outbox[p]
           h == Head(o)
<1>1. /\ pc[p] = "publish" /\ versions' = versions
      /\ bus' = Append(bus, h) \/ (Faults # {} /\ bus' = bus)
      /\ outbox' = [outbox EXCEPT ![p] = Tail(o)]
      /\ pc' = [pc EXCEPT ![p] = IF Len(o) = 1 THEN "done" ELSE "publish"]
  BY DEF Publish, Goto, tables
<1>2. /\ o \in Seq(Events) /\ o # <<>> /\ bus \in Seq(Events)
      /\ \A e \in Range(o) : e.by = p /\ \A f \in Range(bus) : ~SameNews(e, f)
      /\ Apart(o) /\ Apart(bus)
  BY <1>1, NewsIsTyped
     DEF NewsOnce, OwnNews, IndInv, TransactionsIsolated, RequestAgrees
<1>3. /\ \A e : e \in Range(o) <=> e \in Range(Tail(o)) \/ e = h
      /\ Apart(Tail(o)) /\ \A e \in Range(Tail(o)) : ~SameNews(e, h)
  BY <1>2, TailApart
<1>4. Tail(o) # <<>> => Len(o) # 1
  <2> HIDE DEF o
  <2>1. Len(o) = 1 => Len(Tail(o)) = 0 /\ Tail(o) \in Seq(Events)
    BY <1>2, HeadTailProperties
  <2> QED
    BY <1>2, <2>1, HeadTailProperties, EmptySeq
<1>5. /\ outbox'[p] = Tail(o) /\ \A q \in Calls \ {p} : outbox'[q] = outbox[q]
      /\ Tail(o) # <<>> => pc'[p] = "publish"
      /\ \A q \in Calls \ {p} : pc'[q] = pc[q]
      /\ pc'[p] \in {"done", "publish"}
  BY <1>1, <1>4 DEF IndInv, TypeOK
<1>6. h \in Events /\ h \in Range(o) /\ h.by = p
  <2>1. h \in Range(o) /\ Range(o) \subseteq Events
    BY <1>2, <1>3, RangeOf
  <2> QED
    BY <1>2, <2>1
<1> HIDE DEF o, h
<1>7. /\ Apart(bus')
      /\ \A e : e \in Range(bus') => e \in Range(bus) \/ e = h
      /\ \A e : e \in Range(bus) => e \in Range(bus')
      /\ h \in Range(bus') \/ Faults # {}
  <2>1. CASE bus' = Append(bus, h)
    <3>1. \A e \in Range(bus) : ~SameNews(e, h)
      BY <1>2, <1>6 DEF SameNews
    <3> QED
      BY <1>2, <1>6, <2>1, <3>1, AppendApart
  <2>2. CASE bus' = bus /\ Faults # {}
    BY <1>2, <2>2
  <2> QED
    BY <1>1, <2>1, <2>2
<1>8. /\ \A e \in News' : e \in News
      /\ Faults = {} => \A e \in News : e \in News'
  <2>1. \A e \in News' : e \in News
    BY <1>3, <1>5, <1>6, <1>7 DEF News, o
  <2>2. ASSUME Faults = {}, NEW e \in News PROVE e \in News'
    BY <1>3, <1>5, <1>7, <2>2 DEF News, o
  <2> QED
    BY <2>1, <2>2
<1>9. HeardAfterCommit'
  BY <1>1, <1>2, <1>5, <1>6, <1>7, NewsIsTyped DEF NewsOnce, HeardAfterCommit
<1>10. ASSUME NEW q \in Calls PROVE OwnNews(q)'
  <2>1. CASE q = p
    BY <1>2, <1>3, <1>5, <1>7, <2>1 DEF OwnNews
  <2>2. CASE q # p
    <3>1. \A e \in Range(outbox[q]) : ~SameNews(e, h)
      BY <1>6, <2>2 DEF NewsOnce, OwnNews, SameNews
    <3> QED
      BY <1>5, <1>7, <2>2, <3>1 DEF NewsOnce, OwnNews
  <2> QED
    BY <2>1, <2>2
<1>11. OnePublisher' /\ NothingMissing'
  BY <1>1, <1>8 DEF NewsOnce, OnePublisher, NothingMissing
<1> QED
  BY <1>7, <1>9, <1>10, <1>11 DEF NewsOnce

\* A call that is lost takes what it had not yet said with it.
LEMMA CrashKeepsNews ==
    ASSUME IndInv, NewsOnce, NEW p \in Calls, Crash(p), OnlyMoves(p)
    PROVE  NewsOnce'
<1>1. /\ bus' = bus /\ Faults # {}
      /\ outbox' = [outbox EXCEPT ![p] = <<>>]
      /\ pc' = [pc EXCEPT ![p] = "lost"]
  BY DEF Crash, Goto
<1>2. /\ outbox'[p] = <<>> /\ \A q \in Calls \ {p} : outbox'[q] = outbox[q]
      /\ pc'[p] = "lost" /\ \A q \in Calls \ {p} : pc'[q] = pc[q]
  BY <1>1 DEF IndInv, TypeOK
<1>3. \A e \in News' : e \in News
  BY <1>1, <1>2, EmptyRange DEF News
<1>4. HeardAfterCommit'
  BY <1>1, <1>2, NewsIsTyped DEF NewsOnce, HeardAfterCommit
<1>5. \A q \in Calls : OwnNews(q)'
  BY <1>1, <1>2, EmptyRange DEF NewsOnce, OwnNews
<1> QED
  BY <1>1, <1>3, <1>4, <1>5 DEF NewsOnce, OnePublisher, NothingMissing

LEMMA NextKeepsNews ==
    ASSUME IndInv, AllEventsTrue, NewsOnce, [Next]_vars
    PROVE  NewsOnce'
<1>1. CASE UNCHANGED vars
  BY <1>1
     DEF vars, NewsOnce, OwnNews, HeardAfterCommit, OnePublisher, NothingMissing,
         News
<1>2. ASSUME NEW p \in Calls, Arrive(p) \/ Step(p) \/ Fault(p)
      PROVE  NewsOnce'
  <2>1. OnlyMoves(p)
    BY <1>2, OneCallMoves
  <2>2. CASE Commit(p)
    BY <2>1, <2>2, CommitKeepsNews
  <2>3. CASE Publish(p)
    BY <2>1, <2>3, PublishKeepsNews
  <2>4. CASE Crash(p)
    BY <2>1, <2>4, CrashKeepsNews
  <2>5. CASE \/ Arrive(p) \/ CommitFails(p) \/ PoolTimeout(p)
             \/ Step(p) /\ ~Commit(p) /\ ~Publish(p)
    BY <2>1, <2>5, SilentSteps, SilentStepsKeepNews
  <2> QED
    BY <1>2, <2>2, <2>3, <2>4, <2>5 DEF Fault
<1> QED
  BY <1>1, <1>2, Zenon DEF Next

\* The bus stutters for no reader: however calls race, a version and a
\* publication are announced once, by the call that brought them about, and
\* when nothing fails no version goes unannounced.
THEOREM NewsIsAnnouncedOnce == Spec => []AnnouncedOnce
<1>1. Init => NewsOnce
  <2> SUFFICES ASSUME Init PROVE NewsOnce
    OBVIOUS
  <2>1. bus = <<>> /\ \A p \in Calls : outbox[p] = <<>>
    BY DEF Init
  <2>2. NothingMissing
    <3>1. \A d \in Docs : \A n \in DOMAIN versions[d] : versions[d][n].by = "past"
      BY InitialEntries
    <3> QED
      BY <3>1 DEF NothingMissing
  <2> QED
    BY <2>1, <2>2, EmptyRange
       DEF NewsOnce, OwnNews, HeardAfterCommit, OnePublisher, News
<1>2. ASSUME IndInv, AllEventsTrue, NewsOnce PROVE AnnouncedOnce
  <2>1. /\ DOMAIN bus = 1..Len(bus) /\ Len(bus) \in Nat
        /\ \A e : e \in Range(bus) <=> \E i \in DOMAIN bus : e = bus[i]
    BY <1>2, NewsIsTyped, RangeOf
  <2>2. \A i \in DOMAIN bus : /\ bus[i] \in TrueEvents /\ bus[i] \in News
                              /\ bus[i] \in Range(bus)
    <3>1. \A i \in DOMAIN bus : bus[i] \in Range(bus)
      BY <2>1
    <3>2. Range(bus) \subseteq TrueEvents /\ Range(bus) \subseteq Events
      <4>1. bus \in Seq(TrueEvents)
        BY <1>2 DEF AllEventsTrue
      <4> QED
        BY <1>2, <4>1, NewsIsTyped, RangeOf
    <3> QED
      BY <3>1, <3>2 DEF News
  <2>3. ASSUME NEW I \in SUBSET (DOMAIN bus),
               \A i, j \in I : bus[i].type = bus[j].type /\ bus[i].by = bus[j].by
        PROVE  /\ Cardinality(I) <= 1
               /\ I # {} => Cardinality(I) = 1
    <3>1. \A i, j \in I : i = j
      BY <1>2, <2>3 DEF NewsOnce, Apart, SameNews
    <3>2. CASE I = {}
      BY <3>2, FS_EmptySet
    <3>3. ASSUME NEW i \in I PROVE Cardinality(I) = 1
      <4>1. I = {i}
        BY <3>1, <3>3
      <4> QED
        BY <4>1, FS_Singleton
    <3> QED
      BY <3>2, <3>3
  <2>4. ASSUME NEW d \in Docs
        PROVE  Cardinality({i \in DOMAIN bus : bus[i].type = "published"
                                               /\ bus[i].doc = d}) <= 1
    <3> DEFINE I == {i \in DOMAIN bus : bus[i].type = "published"
                                        /\ bus[i].doc = d}
    <3>1. \A i, j \in I : bus[i].type = bus[j].type /\ bus[i].by = bus[j].by
      BY <1>2, <2>2 DEF NewsOnce, OnePublisher
    <3> QED
      BY <2>3, <3>1
  <2>5. ASSUME NEW d \in Docs, NEW n \in DOMAIN versions[d]
        PROVE  /\ Cardinality(Announcements("version", d, n)) <= 1
               /\ Announcements("version", d, n) # {} =>
                    Cardinality(Announcements("version", d, n)) = 1
    <3> DEFINE I == Announcements("version", d, n)
    <3>1. I \in SUBSET (DOMAIN bus)
      BY DEF Announcements
    <3>2. \A i \in I : bus[i].type = "version" /\ bus[i].by = versions[d][n].by
      BY <2>2 DEF Announcements, TrueEvents, Happened
    <3> HIDE DEF I
    <3>3. \A i, j \in I : bus[i].type = bus[j].type /\ bus[i].by = bus[j].by
      BY <3>2
    <3>4. Cardinality(I) <= 1 /\ (I # {} => Cardinality(I) = 1)
      BY <2>3, <3>1, <3>3
    <3> QED
      BY <3>4 DEF I
  <2>6. ASSUME Quiet, Faults = {}, NEW d \in Docs, NEW n \in DOMAIN versions[d],
               versions[d][n].by # "past"
        PROVE  Announcements("version", d, n) # {}
    <3>1. PICK e \in News : e.type = "version" /\ e.doc = d /\ e.version = n
      BY <1>2, <2>6 DEF NewsOnce, NothingMissing
    <3>2. ASSUME NEW p \in Calls PROVE outbox[p] = <<>>
      BY <1>2, <2>6, Zenon DEF NewsOnce, OwnNews, Quiet
    <3>3. e \in Range(bus)
      BY <3>2, EmptyRange DEF News
    <3> QED
      BY <2>1, <3>1, <3>3 DEF Announcements
  <2> QED
    BY <2>4, <2>5, <2>6 DEF AnnouncedOnce, VersionsAnnouncedOnce
<1> QED
  BY <1>1, <1>2, NextKeepsNews, AlwaysEventsTrue, AlwaysIndInv, PTL DEF Spec

-----------------------------------------------------------------------------
(* Waiting.                                                                *)

\* A row lock is held by a writer of that row, and by none other.
LocksOwned ==
    \A d \in Docs, q \in Calls :
        lock[d] = q => Engaged(q) /\ target[q] = d

\* It is enough to look at the locks of the call that moves.
LEMMA LocksOfOthers ==
    ASSUME IndInv, LocksOwned, NEW p \in Calls, OnlyMoves(p), OwnLocks(p),
           \A d \in Docs : lock'[d] = p => Engaged(p)' /\ target'[p] = d
    PROVE  LocksOwned'
<1> SUFFICES ASSUME NEW d \in Docs, NEW q \in Calls \ {p}, lock'[d] = q
             PROVE  Engaged(q)' /\ target'[q] = d
  BY DEF LocksOwned
<1>1. lock[d] = q
  BY ConstantsAssumption DEF OwnLocks, Released, TakeLock, IndInv, TypeOK
<1>2. pc'[q] = pc[q] /\ target'[q] = target[q]
  BY OthersStill
<1> QED
  BY <1>1, <1>2 DEF LocksOwned, Engaged

LEMMA LocksStayOwned ==
    ASSUME IndInv, LocksOwned, [Next]_vars
    PROVE  LocksOwned'
<1>1. CASE UNCHANGED vars
  BY <1>1 DEF vars, LocksOwned, Engaged
<1>2. ASSUME NEW p \in Calls, Arrive(p) \/ Step(p) \/ Fault(p)
      PROVE  LocksOwned'
  <2>1. OnlyMoves(p)
    BY <1>2, OneCallMoves
  <2>2. ASSUME lock' = lock, ~Engaged(p) PROVE LocksOwned'
    BY <2>1, <2>2, LocksOfOthers DEF OwnLocks, LocksOwned
  <2>3. ASSUME lock' = Released(p) PROVE LocksOwned'
    <3>1. \A d \in Docs : lock'[d] # p
      BY <2>3, ConstantsAssumption DEF Released
    <3> QED
      BY <2>1, <2>3, <3>1, LocksOfOthers DEF OwnLocks
  <2>4. ASSUME NEW step \in {"update", "insert_version", "bump", "commit"},
               Continue(p, step), target[p] \in Docs,
               \/ TakeLock(p, target[p])
               \/ lock' = lock /\ Engaged(p)
        PROVE  LocksOwned'
    <3>1. pc'[p] = step /\ target'[p] = target[p]
      BY <2>4 DEF Continue, Goto, IndInv, TypeOK
    <3>2. \A d \in Docs : lock'[d] = p => d = target[p]
      BY <2>4 DEF TakeLock, LocksOwned, IndInv, TypeOK
    <3>3. OwnLocks(p)
      BY <2>4 DEF OwnLocks
    <3> QED
      BY <2>1, <3>1, <3>2, <3>3, LocksOfOthers DEF Engaged
  <2>5. ASSUME NEW code, Fail(p, code) PROVE LocksOwned'
    BY <2>3, <2>5 DEF Fail, EndTransaction
  <2>6. pc[p] \in {"select", "update", "insert_version", "bump", "delete"} =>
          target[p] \in Docs
    <3>1. RequestAgrees(p) /\ OwnsTarget(p)
      BY DEF IndInv, TransactionsIsolated
    <3> QED
      BY <3>1, RequestFields DEF RequestAgrees, OwnsTarget, Engaged
  <2>7. CASE Arrive(p) \/ InsertDocument(p) \/ Publish(p) \/ FetchHistory(p)
    BY <2>2, <2>7 DEF Arrive, InsertDocument, Publish, FetchHistory, Engaged
  <2>8. CASE FetchTemplate(p) \/ Connect(p) \/ ReadDocument(p) \/ CheckLive(p)
    BY <2>2, <2>5, <2>8
       DEF FetchTemplate, Connect, ReadDocument, CheckLive, Engaged
  <2>9. CASE Commit(p) \/ CommitFails(p) \/ Crash(p) \/ PoolTimeout(p)
             \/ RefuseTransition(p)
    BY <2>3, <2>5, <2>9
       DEF Commit, CommitFails, Crash, PoolTimeout, RefuseTransition,
           EndTransaction
  <2>10. CASE SelectForUpdate(p)
    BY <2>4, <2>5, <2>6, <2>10 DEF SelectForUpdate, ForUpdate
  <2>11. CASE UpdateDocument(p)
    BY <2>4, <2>5, <2>6, <2>11 DEF UpdateDocument
  <2>12. CASE InsertVersion(p)
    BY <2>4, <2>5, <2>6, <2>12 DEF InsertVersion, Engaged
  <2>13. CASE BumpVersion(p) \/ DeleteDocument(p)
    BY <2>4, <2>5, <2>6, <2>13 DEF BumpVersion, DeleteDocument
  <2> QED
    BY <1>2, <2>7, <2>8, <2>9, <2>10, <2>11, <2>12, <2>13, Zenon
       DEF Step, Fault
<1> QED
  BY <1>1, <1>2, Zenon DEF Next

\* Whoever stands in the way of another is in the middle of its own writes.
LEMMA WaitingForAWriter ==
    ASSUME IndInv, LocksOwned, NEW a \in Calls, NEW b \in Calls, WaitsFor(a, b)
    PROVE  Engaged(b) /\ target[a] = target[b] /\ target[a] \in Docs
<1>1. RequestAgrees(a) /\ OwnsTarget(a) /\ PendingWrites(b)
  BY DEF IndInv, TransactionsIsolated
<1>2. target[a] \in Docs
  BY <1>1, RequestFields DEF WaitsFor, RequestAgrees, OwnsTarget, Engaged
<1>3. CASE lock[target[a]] = b
  BY <1>2, <1>3 DEF LocksOwned
<1>4. CASE /\ pc[a] = "insert_version" /\ target[b] = target[a]
           /\ work[b].number = NextVersion(a)
  <2>1. NextVersion(a) = docs[target[a]].version + 1
    BY <1>4, NextVersionIsFree
  <2>2. docs[target[a]].version \in Nat
    BY <1>2 DEF IndInv, TypeOK, Rows
  <2>3. work[b].number # 0
    BY <1>4, <2>1, <2>2
  <2>4. work[b] # NoWork
    BY <2>3 DEF NoWork, Pending
  <2> QED
    BY <1>1, <1>2, <1>4, <2>4 DEF PendingWrites
<1> QED
  BY <1>3, <1>4 DEF WaitsFor

LEMMA NoWaitingInACircle ==
    ASSUME IndInv, LocksOwned
    PROVE  NoWaitCycle
<1> SUFFICES ASSUME NEW p \in Calls, NEW q \in Calls, NEW r \in Calls,
                    WaitsFor(p, q), WaitsFor(q, r)
             PROVE  FALSE
  BY Zenon DEF NoWaitCycle
<1>1. Engaged(q) /\ Engaged(r) /\ target[q] = target[r] /\ q # r
  BY WaitingForAWriter, Zenon DEF WaitsFor
<1> QED
  BY <1>1, EngagedApart

LEMMA AlwaysLocksOwned == Spec => []LocksOwned
<1>1. Init => LocksOwned
  BY ConstantsAssumption DEF Init, LocksOwned
<1> QED
  BY <1>1, LocksStayOwned, AlwaysIndInv, PTL DEF Spec

\* Saves lock the document row before the version row and snapshots write the
\* version row first, but both under FOR UPDATE on the document row: whoever
\* holds it waits for nobody, so calls never wait in a circle, of any length.
THEOREM NobodyWaitsInACircle == Spec => []NoWaitCycle
BY NoWaitingInACircle, AlwaysLocksOwned, AlwaysIndInv, PTL

-----------------------------------------------------------------------------
(* Towards an answer.  That every call is answered under fairness is for    *)
(* the model checker; these are the two facts it rests on.                  *)

\* What keeps a call where it is: no connection, or somebody else's writes.
Held(p) ==
    \/ pc[p] \in {"template", "connect"} /\ ~PoolFree
    \/ \E q \in Calls : WaitsFor(p, q)

\* Connections are taken before row locks, and never two at once, so a call
\* that waits, for a connection as for a row, waits for a transaction that is
\* open and held up by nothing.
THEOREM SomeoneCanAlwaysMove ==
    Spec => [](\A p \in Calls : Held(p) =>
                  \E q \in Calls : pc[q] \in InTransaction /\ ~Held(q))
<1>1. ASSUME IndInv, LocksOwned
      PROVE  \A p \in Calls : Held(p) =>
                \E q \in Calls : pc[q] \in InTransaction /\ ~Held(q)
  <2>1. NoWaitCycle
    BY <1>1, NoWaitingInACircle
  <2>2. ASSUME NEW p \in Calls, NEW q \in Calls, WaitsFor(p, q)
        PROVE  pc[q] \in InTransaction /\ ~Held(q)
    <3>1. Engaged(q)
      BY <1>1, <2>2, WaitingForAWriter
    <3>2. \A r \in Calls : ~WaitsFor(q, r)
      BY <2>1, <2>2, Zenon DEF NoWaitCycle
    <3>3. pc[q] \in InTransaction /\ pc[q] \notin {"template", "connect"}
      BY <3>1 DEF Engaged, InTransaction
    <3> QED
      BY <3>2, <3>3, Zenon DEF Held
  <2>3. ASSUME ~PoolFree
        PROVE  \E q \in Calls : pc[q] \in InTransaction
    <3>1. CASE {q \in Calls : pc[q] \in InTransaction} = {}
      <4>1. Cardinality({q \in Calls : pc[q] \in InTransaction}) = 0
        BY <3>1, FS_EmptySet
      <4> QED
        BY <2>3, <4>1, ConstantsAssumption DEF PoolFree
    <3> QED
      BY <3>1
  <2>4. ASSUME NEW p \in Calls, Held(p)
        PROVE  \E q \in Calls : pc[q] \in InTransaction /\ ~Held(q)
    <3>1. CASE \E q \in Calls : WaitsFor(p, q)
      BY <2>2, <3>1
    <3>2. CASE ~PoolFree
      <4>1. PICK q \in Calls : pc[q] \in InTransaction
        BY <2>3, <3>2
      <4>2. CASE Held(q)
        <5>1. pc[q] \notin {"template", "connect"}
          BY <4>1 DEF InTransaction
        <5>2. PICK r \in Calls : WaitsFor(q, r)
          BY <4>2, <5>1 DEF Held
        <5> QED
          BY <2>2, <5>2
      <4> QED
        BY <4>1, <4>2
    <3> QED
      BY <2>4, <3>1, <3>2 DEF Held
  <2> QED
    BY <2>4
<1> QED
  BY <1>1, AlwaysLocksOwned, AlwaysIndInv, PTL

\* The steps a call still has to take at most, from where it stands.
Rank(step) ==
    CASE step = "idle" -> 11
      [] step = "template" -> 10
      [] step = "connect" -> 9
      [] step = "select" -> 8
      [] step \in {"insert_document", "update"} -> 7
      [] step = "insert_version" -> 6
      [] step \in {"bump", "delete"} -> 5
      [] step = "commit" -> 4
      [] step = "check" -> 2
      [] step \in {"fetch", "read"} -> 1
      [] OTHER -> 0

Left(p) == IF pc[p] = "publish" THEN Len(outbox[p]) ELSE Rank(pc[p])

LEMMA LeftIsNatural ==
    ASSUME IndInv, NEW p \in Calls
    PROVE  Left(p) \in Nat /\ (pc[p] = "publish" => Left(p) > 0)
<1>1. outbox[p] \in Seq(Events) /\ (pc[p] = "publish" => outbox[p] # <<>>)
  BY DEF IndInv, TypeOK, TransactionsIsolated, RequestAgrees
<1>2. Len(outbox[p]) \in Nat /\ (outbox[p] # <<>> => Len(outbox[p]) > 0)
  <2>1. PICK o \in Seq(Events) : o = outbox[p]
    BY <1>1
  <2>2. Len(o) \in Nat /\ (Len(o) = 0 => o = <<>>)
    BY EmptySeq, LenProperties
  <2> QED
    BY <2>1, <2>2
<1>3. Rank(pc[p]) \in Nat
  BY DEF Rank
<1> QED
  BY <1>1, <1>2, <1>3 DEF Left

\* A COMMIT leaves at most three events to publish.
LEMMA FewEvents ==
    ASSUME IndInv, NEW p \in Calls, pc[p] = "commit"
    PROVE  Len(EventsOf(p)) \in 0..3
<1>1. call[p].op \in {"create", "update", "snapshot", "delete"}
  BY DEF IndInv, TransactionsIsolated, RequestAgrees
<1>2. ASSUME NEW S, NEW a \in S, NEW b \in S, NEW c \in S,
             NEW s \in {<<a>>, <<>>}, NEW t \in {<<b>>, <<>>}, NEW u \in {<<c>>, <<>>}
      PROVE  Len(s \o t \o u) \in 0..3
  <2>1. ASSUME NEW x \in S, NEW v \in {<<x>>, <<>>}
        PROVE  v \in Seq(S) /\ Len(v) \in 0..1
    <3>1. CASE v = <<x>>
      BY <2>1, <3>1
    <3>2. CASE v = <<>>
      BY <3>2
    <3> QED
      BY <2>1, <3>1, <3>2
  <2>2. /\ s \in Seq(S) /\ t \in Seq(S) /\ u \in Seq(S)
        /\ Len(s) \in 0..1 /\ Len(t) \in 0..1 /\ Len(u) \in 0..1
    BY <1>2, <2>1, Zenon
  <2>3. PICK w \in Seq(S) : w = s \o t
    BY <2>2, ConcatProperties
  <2>4. Len(w) = Len(s) + Len(t)
    BY <2>2, <2>3, ConcatProperties
  <2>5. Len(w \o u) = Len(w) + Len(u)
    BY <2>2, <2>3, ConcatProperties
  <2>6. \A a1, b1, c1 \in 0..1 : (a1 + b1) + c1 \in 0..3
    OBVIOUS
  <2>7. Len(w \o u) \in 0..3
    BY <2>2, <2>4, <2>5, <2>6, Zenon
  <2> QED
    BY <2>3, <2>7
<1>3. CASE call[p].op = "update"
  <2>1. PICK a, b, c :
          EventsOf(p) = When(call[p].body = "fits", a)
                        \o When(call[p].status = "published", b)
                        \o When(Changed(call[p]), c)
    BY <1>3 DEF EventsOf
  <2>2. /\ When(call[p].body = "fits", a) \in {<<a>>, <<>>}
        /\ When(call[p].status = "published", b) \in {<<b>>, <<>>}
        /\ When(Changed(call[p]), c) \in {<<c>>, <<>>}
    BY Zenon DEF When
  <2> QED
    BY <1>2, <2>1, <2>2
<1>4. CASE call[p].op = "create"
  <2>1. PICK a, b : EventsOf(p) = <<a, b>>
    BY <1>4 DEF EventsOf
  <2> QED
    BY <2>1
<1>5. CASE call[p].op \in {"snapshot", "delete"}
  <2>1. PICK a : EventsOf(p) = <<a>>
    BY <1>5 DEF EventsOf
  <2> QED
    BY <2>1
<1> QED
  BY <1>1, <1>3, <1>4, <1>5

\* A step of a call other than its COMMIT and its publications goes to a point
\* nearer to the end.
LEMMA StepsGoDown ==
    ASSUME IndInv, NEW p \in Calls,
           \/ Arrive(p) \/ Fault(p)
           \/ Step(p) /\ ~Commit(p) /\ ~Publish(p)
    PROVE  \E s \in PCs : /\ Goto(p, s) /\ s # "publish" /\ Rank(s) \in Nat
                          /\ \/ pc[p] # "publish" /\ Rank(s) < Rank(pc[p])
                             \/ pc[p] = "publish" /\ Rank(s) = 0
<1> USE DEF PCs, Rank
<1>1. CASE Arrive(p)
  BY <1>1 DEF Arrive, Respond
<1>2. ASSUME NEW code, Fail(p, code) PROVE Goto(p, "done")
  BY <1>2 DEF Fail, Respond
<1>3. CASE FetchTemplate(p) \/ CheckLive(p)
  BY <1>2, <1>3 DEF FetchTemplate, CheckLive, Continue
<1>4. CASE Connect(p)
  <2>1. FirstStatement(call[p].op) \in
          {"insert_document", "select", "delete", "read", "check"}
    <3>1. call[p] \in Requests
      BY <1>4 DEF Connect, IndInv, TransactionsIsolated, RequestAgrees
    <3> QED
      BY <3>1, RequestFields DEF FirstStatement
  <2> QED
    BY <1>4, <2>1 DEF Connect, Continue
<1>5. CASE InsertDocument(p)
  BY <1>5 DEF InsertDocument
<1>6. CASE SelectForUpdate(p) \/ RefuseTransition(p) \/ UpdateDocument(p)
  BY <1>2, <1>6 DEF SelectForUpdate, RefuseTransition, UpdateDocument, Continue
<1>7. CASE InsertVersion(p) \/ BumpVersion(p) \/ DeleteDocument(p)
  BY <1>2, <1>7 DEF InsertVersion, BumpVersion, DeleteDocument, Continue
<1>8. CASE ReadDocument(p) \/ FetchHistory(p)
  BY <1>2, <1>8 DEF ReadDocument, FetchHistory, Respond
<1>9. CASE CommitFails(p) \/ PoolTimeout(p)
  BY <1>2, <1>9 DEF CommitFails, PoolTimeout, Respond
<1>10. CASE Crash(p)
  <2>1. pc[p] \in PCs
    BY DEF IndInv, TypeOK
  <2> QED
    BY <1>10, <2>1 DEF Crash
<1> QED
  BY <1>1, <1>3, <1>4, <1>5, <1>6, <1>7, <1>8, <1>9, <1>10 DEF Step, Fault

LEMMA EveryMoveGoesDown ==
    ASSUME IndInv, NEW p \in Calls, Arrive(p) \/ Step(p) \/ Fault(p)
    PROVE  Left(p)' < Left(p) /\ Left(p)' \in Nat
<1>1. /\ Left(p) \in Nat /\ (pc[p] = "publish" => Left(p) > 0)
      /\ pc \in [Calls -> PCs] /\ outbox \in [Calls -> Seq(Events)]
  BY LeftIsNatural DEF IndInv, TypeOK
<1>2. CASE Commit(p)
  <2>1. /\ pc[p] = "commit" /\ outbox'[p] = EventsOf(p)
        /\ pc'[p] \in {"done", "publish"}
    BY <1>1, <1>2 DEF Commit, Goto
  <2>2. Left(p)' \in 0..3
    BY <2>1, FewEvents DEF Left, Rank
  <2>3. Left(p) = 4
    BY <2>1 DEF Left, Rank
  <2> QED
    BY <2>2, <2>3
<1>3. CASE Publish(p)
  <2>1. PICK o \in Seq(Events) : o = outbox[p]
    BY <1>1
  <2>2. /\ pc[p] = "publish" /\ outbox'[p] = Tail(o)
        /\ pc'[p] = IF Len(o) = 1 THEN "done" ELSE "publish"
        /\ Left(p) = Len(o)
    BY <1>1, <1>3, <2>1 DEF Publish, Goto, Left
  <2>3. Len(o) > 0 /\ Len(o) \in Nat
    BY <1>1, <2>2
  <2>4. Len(Tail(o)) = Len(o) - 1
    BY <2>3, HeadTailProperties, EmptySeq
  <2>5. Left(p)' = IF Len(o) = 1 THEN 0 ELSE Len(o) - 1
    BY <2>2, <2>4 DEF Left, Rank
  <2> QED
    BY <2>2, <2>3, <2>5
<1>4. CASE ~Commit(p) /\ ~Publish(p)
  <2>1. PICK s \in PCs : /\ Goto(p, s) /\ s # "publish" /\ Rank(s) \in Nat
                         /\ \/ pc[p] # "publish" /\ Rank(s) < Rank(pc[p])
                            \/ pc[p] = "publish" /\ Rank(s) = 0
    BY <1>4, StepsGoDown
  <2>2. pc'[p] = s
    BY <1>1, <2>1 DEF Goto
  <2>3. Left(p)' = Rank(s)
    BY <2>1, <2>2 DEF Left, Rank
  <2> QED
    BY <1>1, <2>1, <2>3 DEF Left
<1> QED
  BY <1>2, <1>3, <1>4

MovesOn(p) ==
    /\ Left(p)' <= Left(p)
    /\ (Arrive(p) \/ Step(p) \/ Fault(p)) => Left(p)' < Left(p)

\* A call that moves comes nearer to its end, and nobody else's step takes it
\* back: no retry, no loop, so a call that keeps moving is answered.
THEOREM CallsOnlyMoveOn == Spec => [][\A p \in Calls : MovesOn(p)]_vars
<1>1. ASSUME IndInv, [Next]_vars, ~UNCHANGED vars, NEW p \in Calls
      PROVE  MovesOn(p)
  <2>1. PICK q \in Calls : Arrive(q) \/ Step(q) \/ Fault(q)
    BY <1>1 DEF Next
  <2>2. OnlyMoves(q)
    BY <2>1, OneCallMoves
  <2>3. Left(p) \in Nat
    BY <1>1, LeftIsNatural
  <2>4. Left(q)' < Left(q) /\ Left(q)' \in Nat
    BY <1>1, <2>1, EveryMoveGoesDown
  <2>5. Left(p)' <= Left(p)
    <3>1. CASE p = q
      BY <2>3, <2>4, <3>1
    <3>2. CASE p # q
      <4>1. pc'[p] = pc[p] /\ outbox'[p] = outbox[p]
        BY <1>1, <2>2, <3>2, OthersStill
      <4>2. Left(p)' = Left(p)
        BY <4>1 DEF Left
      <4> QED
        BY <2>3, <4>2
    <3> QED
      BY <3>1, <3>2
  <2> QED
    BY <1>1, <2>5, EveryMoveGoesDown DEF MovesOn
<1>2. IndInv /\ [Next]_vars => [\A p \in Calls : MovesOn(p)]_vars
  BY <1>1, Zenon
<1> QED
  BY <1>2, AlwaysIndInv, PTL DEF Spec
=============================================================================
