-------------------------- MODULE DocumentStoreProofs --------------------------
(***************************************************************************)
(* Theorems about DocumentStore for any number of calls, documents and      *)
(* tenants.                                                                *)
(***************************************************************************)
EXTENDS DocumentProperties, FiniteSetTheorems, SequenceTheorems, TLAPS

\* What the type of a request says of its fields.
LEMMA RequestFields ==
    ASSUME NEW r \in Requests
    PROVE  /\ r.op \in {"create", "update", "delete", "snapshot", "get",
                        "list_versions", "get_version"}
           /\ r.tenant \in Tenants
           /\ r.op # "create" => r.doc \in Docs
           /\ r.op \in {"create", "update"} => r.body \in Sizes
           /\ r.op = "update" =>
                /\ r.title \in BOOLEAN
                /\ r.status \in Statuses \cup {"absent", "unknown"}
           /\ r.op = "get_version" => r.version \in Nat
  BY DEF Requests, Creates, Updates, Targeted, GetVersions

LEMMA AbsentIsARow == Absent \in Rows /\ NoEntry \in Entries
  BY DEF Absent, Row, Rows, Texts, Statuses, NoEntry, Entries, Entry

Work == [read: Rows, row: Rows, number: Nat, entry: Entries]

LEMMA NoWorkType == NoWork \in Work
  BY AbsentIsARow DEF NoWork, Pending, Work

LEMMA OneVersionHistory ==
    ASSUME NEW e \in Entries
    PROVE  DOMAIN <<e>> = 1..1 /\ <<e>> \in [1..1 -> Entries]
<1>1. <<e>> \in Seq(Entries) /\ Len(<<e>>) = 1
  OBVIOUS
<1> QED
  BY <1>1, LenProperties, ElementOfSeq

LEMMA NoHistory == DOMAIN <<>> = 1..0 /\ <<>> \in [1..0 -> Entries]
<1>1. <<>> \in Seq(Entries) /\ Len(<<>>) = 0
  OBVIOUS
<1> QED
  BY <1>1, LenProperties

LEMMA InitIndInv == Init => IndInv
<1> SUFFICES ASSUME Init PROVE IndInv
  OBVIOUS
<1>1. \A d \in Docs : docs[d] \in Rows
  BY AbsentIsARow, ConstantsAssumption
     DEF Init, NewRow, Row, Rows, Texts, Statuses
<1>2. \A d \in Docs : /\ versions[d] \in [DOMAIN versions[d] -> Entries]
                      /\ DOMAIN versions[d] = 1..docs[d].version
                      /\ docs[d].version \in Nat
  <2> TAKE d \in Docs
  <2>1. CASE d \in DOMAIN Seeded
    <3>1. versions[d] = <<Entry("past", "past", TRUE)>> /\ docs[d].version = 1
      BY <2>1 DEF Init, NewRow, Row
    <3>2. Entry("past", "past", TRUE) \in Entries
      BY DEF Entry, Entries, Texts
    <3>3. DOMAIN versions[d] = 1..1 /\ versions[d] \in [1..1 -> Entries]
      BY <3>1, <3>2, OneVersionHistory, Zenon
    <3> QED
      BY <3>1, <3>3
  <2>2. CASE d \notin DOMAIN Seeded
    <3>1. versions[d] = <<>> /\ docs[d].version = 0
      BY <2>2 DEF Init, Absent, Row
    <3>2. DOMAIN versions[d] = 1..0 /\ versions[d] \in [1..0 -> Entries]
      BY <3>1, NoHistory, Zenon
    <3> QED
      BY <3>1, <3>2
  <2> QED
    BY <2>1, <2>2
<1>3. TypeOK
  <2>1. docs \in [Docs -> Rows]
    BY <1>1 DEF Init
  <2>2. /\ DOMAIN versions = Docs
        /\ \A d \in Docs : DOMAIN versions[d] \subseteq Nat \ {0}
    BY <1>2 DEF Init
  <2>3. work \in [Calls -> Work]
    BY NoWorkType DEF Init
  <2>4. /\ reply \in [Calls -> [code: Codes, version: Nat, body: Texts,
                                rows: SUBSET (Nat \ {0})]]
    BY DEF Init, NoAnswer, Failure, Answer, Codes, Texts
  <2>5. /\ lock \in [Docs -> Calls \cup {NoCall}]
        /\ pc \in [Calls -> PCs]
        /\ call \in [Calls -> Requests \cup {NoRequest}]
        /\ target \in [Calls -> Docs \cup {NoDoc}]
        /\ began \in [Calls -> [version: Nat, deleted: BOOLEAN]]
    BY DEF Init, PCs
  <2>6. outbox \in [Calls -> Seq(Events)] /\ bus \in Seq(Events)
    BY DEF Init
  <2> QED
    BY <1>2, <2>1, <2>2, <2>3, <2>4, <2>5, <2>6 DEF TypeOK, Work
<1>4. HistoryComplete
  BY <1>2 DEF HistoryComplete
<1>5. TransactionsIsolated
  BY ConstantsAssumption
     DEF Init, TransactionsIsolated, RequestAgrees, OwnsTarget, PendingWrites,
         FreshIdentifiers, Engaged, NoRequest
<1> QED
  BY <1>3, <1>4, <1>5 DEF IndInv

-----------------------------------------------------------------------------
(* A step of one call leaves every other call's invariant alone, as long as *)
(* it leaves alone the row and the lock that call relies on.               *)

CallInv(p) == RequestAgrees(p) /\ OwnsTarget(p) /\ PendingWrites(p)

LEMMA OthersUndisturbed ==
    ASSUME NEW q \in Calls, CallInv(q),
           pc'[q] = pc[q], call'[q] = call[q], target'[q] = target[q],
           work'[q] = work[q], outbox'[q] = outbox[q],
           Engaged(q) => docs'[target[q]] = docs[target[q]],
           Engaged(q) /\ call[q].op # "create" =>
                lock'[target[q]] = lock[target[q]]
    PROVE  CallInv(q)'
<1>1. RequestAgrees(q)'
  BY DEF CallInv, RequestAgrees
<1>2. OwnsTarget(q)'
  BY DEF CallInv, OwnsTarget, Engaged, Live
<1>3. PendingWrites(q)'
  BY DEF CallInv, PendingWrites, Engaged
<1> QED
  BY <1>1, <1>2, <1>3 DEF CallInv

\* Two engaged calls never share a document.
LEMMA EngagedApart ==
    ASSUME IndInv, NEW p \in Calls, NEW q \in Calls, p # q,
           Engaged(p), Engaged(q)
    PROVE  target[p] # target[q]
<1>1. OwnsTarget(p) /\ OwnsTarget(q) /\ RequestAgrees(p) /\ RequestAgrees(q)
  BY DEF IndInv, TransactionsIsolated
<1>2. pc[p] # "idle" /\ pc[q] # "idle"
  BY DEF Engaged
<1>3. call[p].tenant \in Tenants /\ call[q].tenant \in Tenants
  BY <1>1, <1>2, RequestFields DEF RequestAgrees
<1>4. CASE call[p].op = "create" /\ call[q].op = "create"
  BY <1>1, <1>4 DEF IndInv, TransactionsIsolated, FreshIdentifiers, OwnsTarget
<1>5. CASE call[p].op # "create" /\ call[q].op # "create"
  BY <1>1, <1>5 DEF OwnsTarget
<1>6. CASE call[p].op = "create" /\ call[q].op # "create"
  BY <1>1, <1>3, <1>6, NoTenantAssumption DEF OwnsTarget, Live, Absent, Row
<1>7. CASE call[p].op # "create" /\ call[q].op = "create"
  BY <1>1, <1>3, <1>7, NoTenantAssumption DEF OwnsTarget, Live, Absent, Row
<1> QED
  BY <1>4, <1>5, <1>6, <1>7

-----------------------------------------------------------------------------
(* What the steps have in common.                                          *)

\* Nothing moves but p.
OnlyCall(p) ==
    \A q \in Calls \ {p} :
        /\ pc'[q] = pc[q] /\ call'[q] = call[q] /\ target'[q] = target[q]
        /\ work'[q] = work[q] /\ outbox'[q] = outbox[q]

\* The only row that may change is the target of an engaged p.
OnlyTarget(p) ==
    \/ docs' = docs
    \/ Engaged(p) /\ \A d \in Docs \ {target[p]} : docs'[d] = docs[d]

\* Locks are taken by p or given up by p.
OwnLocks(p) ==
    lock' = lock \/ lock' = Released(p) \/ \E d \in Docs : TakeLock(p, d)

LEMMA OthersKept ==
    ASSUME IndInv, NEW p \in Calls, OnlyCall(p), OnlyTarget(p), OwnLocks(p)
    PROVE  \A q \in Calls \ {p} : CallInv(q)'
<1> TAKE q \in Calls \ {p}
<1>1. CallInv(q)
  BY DEF IndInv, TransactionsIsolated, CallInv
<1>2. Engaged(q) => target[q] \in Docs
  BY <1>1 DEF CallInv, OwnsTarget
<1>3. ASSUME Engaged(q) PROVE docs'[target[q]] = docs[target[q]]
  BY <1>2, <1>3, EngagedApart DEF OnlyTarget
<1>4. ASSUME Engaged(q), call[q].op # "create"
      PROVE  lock'[target[q]] = lock[target[q]]
  <2>1. lock[target[q]] = q /\ q # p /\ q # NoCall
    BY <1>1, <1>4, ConstantsAssumption DEF CallInv, OwnsTarget
  <2>2. CASE lock' = lock
    BY <2>2
  <2>3. CASE lock' = Released(p)
    BY <1>2, <1>4, <2>1, <2>3 DEF Released
  <2>4. CASE \E d \in Docs : TakeLock(p, d)
    BY <1>2, <1>4, <2>1, <2>4 DEF TakeLock
  <2> QED
    BY <2>2, <2>3, <2>4 DEF OwnLocks
<1>5. /\ pc'[q] = pc[q] /\ call'[q] = call[q] /\ target'[q] = target[q]
      /\ work'[q] = work[q] /\ outbox'[q] = outbox[q]
  BY DEF OnlyCall
<1> QED
  BY <1>1, <1>3, <1>4, <1>5, OthersUndisturbed

\* A step of p that commits nothing and keeps every request and target.
LEMMA LocalStep ==
    ASSUME IndInv, NEW p \in Calls, OnlyCall(p), OwnLocks(p),
           UNCHANGED <<docs, versions, call, target>>,
           TypeOK', CallInv(p)'
    PROVE  IndInv'
<1>1. \A q \in Calls : CallInv(q)'
  BY OthersKept DEF OnlyTarget
<1>2. HistoryComplete' /\ FreshIdentifiers'
  BY DEF IndInv, HistoryComplete, TransactionsIsolated, FreshIdentifiers
<1> QED
  BY <1>1, <1>2 DEF IndInv, TransactionsIsolated, CallInv

LEMMA LockTypes ==
    ASSUME TypeOK, NEW p \in Calls, OwnLocks(p)
    PROVE  lock' \in [Docs -> Calls \cup {NoCall}]
  BY DEF TypeOK, OwnLocks, Released, TakeLock

LEMMA ContinueTypes ==
    ASSUME TypeOK, NEW p \in Calls, NEW step \in PCs, Continue(p, step),
           OwnLocks(p), work' \in [Calls -> Work]
    PROVE  TypeOK'
<1>1. pc' \in [Calls -> PCs]
  BY DEF TypeOK, Continue, Goto
<1>2. UNCHANGED <<docs, versions, call, target, began, reply, outbox, bus>>
  BY DEF Continue, tables
<1> QED
  BY <1>1, <1>2, LockTypes DEF TypeOK, Work

\* A call that fails leaves everything as it was before it.
LEMMA FailKeepsIndInv ==
    ASSUME IndInv, NEW p \in Calls, NEW code \in Codes, Fail(p, code),
           pc[p] # "idle"
    PROVE  IndInv'
<1>1. /\ TypeOK /\ CallInv(p)
  BY DEF IndInv, TransactionsIsolated, CallInv
<1>2. /\ pc' = [pc EXCEPT ![p] = "done"]
      /\ reply' = [reply EXCEPT ![p] = Failure(code)]
      /\ lock' = Released(p)
      /\ work' = [work EXCEPT ![p] = NoWork]
      /\ UNCHANGED <<docs, versions, call, target, began, outbox, bus>>
  BY DEF Fail, Respond, Goto, EndTransaction, tables
<1>3. OnlyCall(p) /\ OwnLocks(p)
  BY <1>1, <1>2 DEF OnlyCall, OwnLocks, TypeOK
<1>4. TypeOK'
  <2>1. pc' \in [Calls -> PCs]
    BY <1>1, <1>2 DEF TypeOK, PCs
  <2>2. work' \in [Calls -> Work]
    BY <1>1, <1>2, NoWorkType DEF TypeOK, Work
  <2>3. Failure(code) \in [code: Codes, version: Nat, body: Texts,
                           rows: SUBSET (Nat \ {0})]
    BY DEF Failure, Answer, Texts
  <2>4. reply' \in [Calls -> [code: Codes, version: Nat, body: Texts,
                              rows: SUBSET (Nat \ {0})]]
    BY <1>1, <1>2, <2>3 DEF TypeOK
  <2> QED
    BY <1>1, <1>2, <1>3, <2>1, <2>2, <2>4, LockTypes DEF TypeOK, Work
<1>5. pc'[p] = "done" /\ work'[p] = NoWork
  BY <1>1, <1>2 DEF TypeOK
<1>6. CallInv(p)'
  BY <1>1, <1>2, <1>5 DEF CallInv, RequestAgrees, OwnsTarget, PendingWrites, Engaged
<1> QED
  BY <1>2, <1>3, <1>4, <1>6, LocalStep

\* A call that goes on to its next statement, whatever it has read or written.
LEMMA ContinueKeepsIndInv ==
    ASSUME IndInv, NEW p \in Calls, NEW step \in PCs, Continue(p, step),
           OwnLocks(p), NEW w \in Work, work' = [work EXCEPT ![p] = w],
           pc'[p] = step /\ work'[p] = w => CallInv(p)'
    PROVE  IndInv'
<1>1. TypeOK
  BY DEF IndInv
<1>2. /\ pc' = [pc EXCEPT ![p] = step]
      /\ UNCHANGED <<docs, versions, call, target, began, reply, outbox, bus>>
  BY DEF Continue, Goto, tables
<1>3. OnlyCall(p)
  BY <1>1, <1>2 DEF OnlyCall, TypeOK
<1>4. work' \in [Calls -> Work]
  BY <1>1 DEF TypeOK, Work
<1>5. pc'[p] = step /\ work'[p] = w
  BY <1>1, <1>2 DEF TypeOK
<1>6. TypeOK'
  BY <1>1, <1>4, ContinueTypes
<1> QED
  BY <1>2, <1>3, <1>5, <1>6, LocalStep

LEMMA WorkIsTyped ==
    ASSUME IndInv, NEW p \in Calls
    PROVE  work[p] \in Work /\ work = [work EXCEPT ![p] = work[p]]
  BY DEF IndInv, TypeOK, Work

-----------------------------------------------------------------------------
(* One lemma per step.                                                     *)

LEMMA FetchTemplateKeeps ==
    ASSUME IndInv, NEW p \in Calls, FetchTemplate(p)
    PROVE  IndInv'
<1>1. pc[p] = "template" /\ CallInv(p)
  BY DEF FetchTemplate, IndInv, TransactionsIsolated, CallInv
<1>2. CASE Fail(p, "not_found") \/ Fail(p, "unprocessable")
  BY <1>1, <1>2, FailKeepsIndInv DEF Codes
<1>3. CASE Continue(p, "connect") /\ UNCHANGED <<lock, work>>
  <2>1. ASSUME pc'[p] = "connect", work'[p] = work[p] PROVE CallInv(p)'
    BY <1>1, <1>3, <2>1
       DEF CallInv, RequestAgrees, OwnsTarget, PendingWrites, Engaged,
           Continue, tables
  <2> QED
    BY <1>3, <2>1, WorkIsTyped, ContinueKeepsIndInv DEF PCs, OwnLocks
<1> QED
  BY <1>2, <1>3 DEF FetchTemplate

LEMMA ConnectKeeps ==
    ASSUME IndInv, NEW p \in Calls, Connect(p)
    PROVE  IndInv'
<1>1. pc[p] = "connect" /\ CallInv(p)
  BY DEF Connect, IndInv, TransactionsIsolated, CallInv
<1>2. call[p] \in Requests
  BY <1>1 DEF CallInv, RequestAgrees
<1> DEFINE step == FirstStatement(call[p].op)
<1>3. /\ step \in {"insert_document", "select", "delete", "read", "check"}
      /\ step = "insert_document" => call[p].op = "create"
      /\ step = "select" => call[p].op \in {"update", "snapshot"}
      /\ step = "delete" => call[p].op = "delete"
      /\ step = "read" => call[p].op = "get"
      /\ step = "check" => call[p].op \in {"list_versions", "get_version"}
  BY <1>2, RequestFields DEF FirstStatement
<1>4. Continue(p, step) /\ UNCHANGED <<lock, work>>
  BY DEF Connect
<1> HIDE DEF step
<1>5. ASSUME pc'[p] = step, work'[p] = work[p] PROVE CallInv(p)'
  BY <1>1, <1>3, <1>4, <1>5
     DEF CallInv, RequestAgrees, OwnsTarget, PendingWrites, Engaged,
         Continue, tables
<1>6. step \in PCs
  BY <1>3 DEF PCs
<1> QED
  BY <1>4, <1>5, <1>6, WorkIsTyped, ContinueKeepsIndInv DEF OwnLocks

LEMMA SelectForUpdateKeeps ==
    ASSUME IndInv, NEW p \in Calls, SelectForUpdate(p)
    PROVE  IndInv'
<1> DEFINE d == target[p]
           step == IF call[p].op = "update" THEN "update" ELSE "insert_version"
           w == Pending(docs[d], Absent, 0, NoEntry)
<1>1. /\ pc[p] = "select" /\ CallInv(p) /\ call[p].op \in {"update", "snapshot"}
      /\ d \in Docs /\ docs[d] \in Rows
  <2>1. pc[p] = "select" /\ CallInv(p) /\ call[p].op \in {"update", "snapshot"}
    BY DEF SelectForUpdate, IndInv, TransactionsIsolated, CallInv, RequestAgrees
  <2>2. call[p] \in Requests /\ d = call[p].doc
    BY <2>1 DEF CallInv, RequestAgrees
  <2> QED
    BY <2>1, <2>2, RequestFields DEF IndInv, TypeOK
<1>2. CASE Fail(p, "not_found")
  BY <1>1, <1>2, FailKeepsIndInv DEF Codes
<1>3. CASE /\ Live(d, call[p].tenant) /\ TakeLock(p, d) /\ Continue(p, step)
           /\ work' = [work EXCEPT ![p] = Reads(@, docs[d])]
  <2>1. work[p] = NoWork
    BY <1>1 DEF CallInv, PendingWrites, Engaged
  <2>2. work' = [work EXCEPT ![p] = w]
    BY <1>3, <2>1 DEF NoWork, Pending, Reads
  <2>3. w \in Work
    BY <1>1, AbsentIsARow DEF Pending, Work
  <2>4. lock'[d] = p
    BY <1>1, <1>3 DEF TakeLock, IndInv, TypeOK
  <2>5. UNCHANGED <<docs, call, target, outbox>>
    BY <1>3 DEF Continue, tables
  <2>6. step \in PCs
    BY DEF PCs
  <2>7. ASSUME pc'[p] = step, work'[p] = w PROVE CallInv(p)'
    <3>1. RequestAgrees(p)'
      BY <1>1, <2>5, <2>7 DEF CallInv, RequestAgrees
    <3>2. OwnsTarget(p)'
      BY <1>1, <1>3, <2>4, <2>5, <2>7 DEF OwnsTarget, Live
    <3>3. PendingWrites(p)'
      BY <1>1, <2>5, <2>7 DEF PendingWrites, Engaged
    <3> QED
      BY <3>1, <3>2, <3>3 DEF CallInv
  <2> QED
    BY <1>1, <1>3, <2>2, <2>3, <2>6, <2>7, ContinueKeepsIndInv DEF OwnLocks
<1> QED
  BY <1>2, <1>3, Zenon DEF SelectForUpdate, ForUpdate

LEMMA RefuseTransitionKeeps ==
    ASSUME IndInv, NEW p \in Calls, RefuseTransition(p)
    PROVE  IndInv'
<1>1. pc[p] # "idle" /\ Fail(p, "bad_request")
  BY DEF RefuseTransition
<1> QED
  BY <1>1, FailKeepsIndInv DEF Codes

\* What a writer that owns its target knows of it.
LEMMA OwnedTarget ==
    ASSUME IndInv, NEW p \in Calls, Engaged(p)
    PROVE  /\ target[p] \in Docs /\ docs[target[p]] \in Rows
           /\ call[p] \in Requests
           /\ call[p].op \in {"create", "update", "snapshot", "delete"}
           /\ call[p].op # "create" =>
                lock[target[p]] = p /\ Live(target[p], call[p].tenant)
           /\ call[p].op = "create" => docs[target[p]] = Absent
<1>1. CallInv(p) /\ TypeOK
  BY DEF IndInv, TransactionsIsolated, CallInv
<1> QED
  BY <1>1 DEF CallInv, RequestAgrees, OwnsTarget, Engaged, TypeOK

LEMMA NewRowType ==
    ASSUME NEW r \in Requests, NEW p \in Calls
    PROVE  NewRow(r.tenant, p, CreatedBody(r, p)) \in Rows
  BY RequestFields
     DEF NewRow, Row, Rows, Texts, Statuses, CreatedBody, FromTemplate

LEMMA EditedType ==
    ASSUME NEW r \in Requests, r.op = "update", NEW p \in Calls,
           NEW row \in Rows, StatusAccepted(r, row.status)
    PROVE  Edited(r, p, row, row) \in Rows
  BY RequestFields
     DEF Edited, Row, Rows, Texts, Statuses, StatusAccepted, CanTransition

LEMMA UpdateDocumentKeeps ==
    ASSUME IndInv, NEW p \in Calls, UpdateDocument(p)
    PROVE  IndInv'
<1> DEFINE d == target[p]
           r == call[p]
           step == IF r.body = "fits" THEN "insert_version" ELSE "commit"
           w == Pending(docs[d], Edited(r, p, docs[d], docs[d]), 0, NoEntry)
<1>1. /\ pc[p] = "update" /\ CallInv(p) /\ r.op = "update"
      /\ work[p] = Pending(docs[d], Absent, 0, NoEntry)
  BY DEF UpdateDocument, IndInv, TransactionsIsolated, CallInv, RequestAgrees,
         PendingWrites
<1>2. /\ d \in Docs /\ docs[d] \in Rows /\ r \in Requests
      /\ lock[d] = p /\ Live(d, r.tenant)
  BY <1>1, OwnedTarget DEF Engaged
<1>3. /\ StatusAccepted(r, docs[d].status) /\ TakeLock(p, d)
      /\ Continue(p, step)
      /\ work' = [work EXCEPT ![p] = Writes(@, Edited(r, p, @.read, docs[d]))]
  BY <1>1, <1>2 DEF UpdateDocument, Pending
<1>4. work' = [work EXCEPT ![p] = w]
  BY <1>1, <1>3 DEF Pending, Writes
<1>5. w \in Work
  BY <1>1, <1>2, <1>3, EditedType, AbsentIsARow DEF Pending, Work
<1>6. lock'[d] = p
  BY <1>2, <1>3 DEF TakeLock, IndInv, TypeOK
<1>7. UNCHANGED <<docs, call, target, outbox>>
  BY <1>3 DEF Continue, tables
<1>8. step \in PCs
  BY DEF PCs
<1>9. ASSUME pc'[p] = step, work'[p] = w PROVE CallInv(p)'
  <2>1. RequestAgrees(p)'
    BY <1>1, <1>7, <1>9 DEF CallInv, RequestAgrees
  <2>2. OwnsTarget(p)'
    BY <1>1, <1>2, <1>6, <1>7, <1>9 DEF OwnsTarget, Live
  <2>3. PendingWrites(p)'
    BY <1>1, <1>3, <1>7, <1>9 DEF PendingWrites, Engaged
  <2> QED
    BY <2>1, <2>2, <2>3 DEF CallInv
<1>10. OwnLocks(p)
  BY <1>2, <1>3 DEF OwnLocks
<1> HIDE DEF w, step
<1> QED
  BY <1>3, <1>4, <1>5, <1>8, <1>9, <1>10, ContinueKeepsIndInv

\* The number a writer gives its version row is the first one free.
LEMMA NextVersionIsFree ==
    ASSUME IndInv, NEW p \in Calls, pc[p] = "insert_version"
    PROVE  /\ NextVersion(p) = docs[target[p]].version + 1
           /\ NextVersion(p) \notin DOMAIN versions[target[p]]
           /\ NewEntry(p) \in Entries
<1> DEFINE d == target[p]
<1>1. /\ d \in Docs /\ docs[d] \in Rows /\ call[p] \in Requests
      /\ call[p].op \in {"create", "update", "snapshot"}
      /\ call[p].op = "create" => docs[d] = Absent
      /\ PendingWrites(p)
  BY OwnedTarget DEF Engaged, IndInv, TransactionsIsolated, RequestAgrees
<1>2. DOMAIN versions[d] = 1..docs[d].version /\ docs[d].version \in Nat
  BY <1>1 DEF IndInv, HistoryComplete, Rows
<1>3. CASE call[p].op = "create"
  <2>1. work[p].row = NewRow(call[p].tenant, p, CreatedBody(call[p], p))
    BY <1>1, <1>3 DEF PendingWrites, Pending
  <2> QED
    BY <1>1, <1>2, <1>3, <2>1
       DEF NextVersion, NewEntry, Entry, Entries, Texts, CreatedBody, NewRow,
           Row, Absent, FromTemplate
<1>4. CASE call[p].op = "update"
  <2>1. /\ work[p].row = Edited(call[p], p, docs[d], docs[d])
        /\ call[p].body = "fits"
    BY <1>1, <1>4 DEF PendingWrites, Pending
  <2> QED
    BY <1>1, <1>2, <1>4, <2>1
       DEF NextVersion, NewEntry, Entry, Entries, Texts, Edited, Row
<1>5. CASE call[p].op = "snapshot"
  <2>1. work[p].read = docs[d]
    BY <1>1, <1>5 DEF PendingWrites, Pending
  <2> QED
    BY <1>1, <1>2, <1>5, <2>1
       DEF NextVersion, NewEntry, Entry, Entries, Rows
<1> QED
  BY <1>1, <1>3, <1>4, <1>5

LEMMA InsertVersionKeeps ==
    ASSUME IndInv, NEW p \in Calls, InsertVersion(p)
    PROVE  IndInv'
<1> DEFINE d == target[p]
           r == call[p]
           n == docs[d].version + 1
           step == IF r.op = "snapshot" THEN "bump" ELSE "commit"
           w == Records(work[p], n, NewEntry(p))
<1>1. /\ pc[p] = "insert_version" /\ CallInv(p)
      /\ r.op \in {"create", "update", "snapshot"}
  BY DEF InsertVersion, IndInv, TransactionsIsolated, CallInv, RequestAgrees
<1>2. /\ d \in Docs /\ docs[d] \in Rows /\ r \in Requests
      /\ r.op = "create" => docs[d] = Absent
      /\ r.op # "create" => lock[d] = p /\ Live(d, r.tenant)
  BY <1>1, OwnedTarget DEF Engaged
<1>3. /\ NextVersion(p) = n /\ n \notin DOMAIN versions[d]
      /\ NewEntry(p) \in Entries
  BY <1>1, NextVersionIsFree
<1>4. /\ Continue(p, step) /\ UNCHANGED lock
      /\ work' = [work EXCEPT ![p] = w]
  BY <1>3 DEF InsertVersion
<1>5. w \in Work
  BY <1>2, <1>3, WorkIsTyped DEF Records, Pending, Work, Rows
<1>6. UNCHANGED <<docs, lock, call, target, outbox>>
  BY <1>4 DEF Continue, tables
<1>7. step \in PCs
  BY DEF PCs
<1>8. ASSUME pc'[p] = step, work'[p] = w PROVE CallInv(p)'
  <2>1. RequestAgrees(p)'
    BY <1>1, <1>6, <1>8 DEF CallInv, RequestAgrees
  <2>2. OwnsTarget(p)'
    BY <1>1, <1>2, <1>6, <1>8 DEF OwnsTarget, Live
  <2>3. PendingWrites(p)'
    <3>1. CASE r.op = "create"
      <4>1. n = 1
        BY <1>2, <3>1 DEF Absent, Row
      <4>2. work[p] = Pending(Absent, NewRow(r.tenant, p, CreatedBody(r, p)),
                              0, NoEntry)
        BY <1>1, <3>1 DEF CallInv, PendingWrites
      <4>3. NewEntry(p) = Entry(CreatedBody(r, p), p, TRUE)
        <5>1. work[p].row.content = CreatedBody(r, p)
          BY <4>2 DEF Pending, NewRow, Row
        <5> QED
          BY <3>1, <5>1 DEF NewEntry
      <4>4. w = Pending(Absent, NewRow(r.tenant, p, CreatedBody(r, p)), 1,
                        Entry(CreatedBody(r, p), p, TRUE))
        <5>1. w = Records(work[p], 1, Entry(CreatedBody(r, p), p, TRUE))
          BY <4>1, <4>3
        <5> QED
          BY <4>2, <5>1 DEF Records, Pending
      <4> QED
        BY <1>6, <1>8, <3>1, <4>4 DEF PendingWrites, Engaged
    <3>2. CASE r.op = "update"
      <4>1. /\ work[p] = Pending(docs[d], Edited(r, p, docs[d], docs[d]), 0,
                                 NoEntry)
            /\ r.body = "fits" /\ StatusAccepted(r, docs[d].status)
        BY <1>1, <3>2 DEF CallInv, PendingWrites
      <4>2. NewEntry(p) = Entry(p, p, TRUE)
        <5>1. work[p].row.content = p
          BY <4>1 DEF Pending, Edited, Row
        <5> QED
          BY <3>2, <5>1 DEF NewEntry
      <4>3. w = Pending(docs[d], Edited(r, p, docs[d], docs[d]), n,
                        Entry(p, p, TRUE))
        BY <4>1, <4>2 DEF Records, Pending
      <4> QED
        BY <1>6, <1>8, <3>2, <4>1, <4>3 DEF PendingWrites, Engaged
    <3>3. CASE r.op = "snapshot"
      <4>1. work[p] = Pending(docs[d], Absent, 0, NoEntry)
        BY <1>1, <3>3 DEF CallInv, PendingWrites
      <4>2. NewEntry(p) = Entry(docs[d].content, p, FALSE)
        BY <3>3, <4>1 DEF NewEntry, Pending
      <4>3. w = Pending(docs[d], Absent, n, Entry(docs[d].content, p, FALSE))
        BY <4>1, <4>2 DEF Records, Pending
      <4> QED
        BY <1>6, <1>8, <3>3, <4>3 DEF PendingWrites, Engaged
    <3> QED
      BY <1>1, <3>1, <3>2, <3>3
  <2> QED
    BY <2>1, <2>2, <2>3 DEF CallInv
<1>9. OwnLocks(p)
  BY <1>4 DEF OwnLocks
<1> HIDE DEF w, step
<1> QED
  BY <1>4, <1>5, <1>7, <1>8, <1>9, ContinueKeepsIndInv

LEMMA BumpVersionKeeps ==
    ASSUME IndInv, NEW p \in Calls, BumpVersion(p)
    PROVE  IndInv'
<1> DEFINE d == target[p]
           n == docs[d].version + 1
           w == Pending(docs[d], Numbered(docs[d], n), n,
                        Entry(docs[d].content, p, FALSE))
<1>1. /\ pc[p] = "bump" /\ CallInv(p) /\ call[p].op = "snapshot"
      /\ work[p] = Pending(docs[d], Absent, n,
                           Entry(docs[d].content, p, FALSE))
  BY DEF BumpVersion, IndInv, TransactionsIsolated, CallInv, RequestAgrees,
         PendingWrites
<1>2. /\ d \in Docs /\ docs[d] \in Rows
      /\ lock[d] = p /\ Live(d, call[p].tenant)
  BY <1>1, OwnedTarget DEF Engaged
<1>3. /\ TakeLock(p, d) /\ Continue(p, "commit")
      /\ work' = [work EXCEPT ![p] = Writes(@, Numbered(docs[d], @.number))]
  BY DEF BumpVersion
<1>4. work' = [work EXCEPT ![p] = w]
  BY <1>1, <1>3 DEF Writes, Pending
<1>5. w \in Work
  BY <1>2 DEF Pending, Work, Numbered, Row, Rows, Entry, Entries
<1>6. lock'[d] = p
  BY <1>2, <1>3 DEF TakeLock, IndInv, TypeOK
<1>7. UNCHANGED <<docs, call, target, outbox>>
  BY <1>3 DEF Continue, tables
<1>8. ASSUME pc'[p] = "commit", work'[p] = w PROVE CallInv(p)'
  <2>1. RequestAgrees(p)'
    BY <1>1, <1>7, <1>8 DEF CallInv, RequestAgrees
  <2>2. OwnsTarget(p)'
    BY <1>1, <1>2, <1>6, <1>7, <1>8 DEF OwnsTarget, Live
  <2>3. PendingWrites(p)'
    BY <1>1, <1>7, <1>8 DEF PendingWrites, Engaged
  <2> QED
    BY <2>1, <2>2, <2>3 DEF CallInv
<1>9. OwnLocks(p)
  BY <1>2, <1>3 DEF OwnLocks
<1> HIDE DEF w
<1> QED
  BY <1>3, <1>4, <1>5, <1>8, <1>9, ContinueKeepsIndInv DEF PCs

LEMMA DeleteDocumentKeeps ==
    ASSUME IndInv, NEW p \in Calls, DeleteDocument(p)
    PROVE  IndInv'
<1> DEFINE d == target[p]
           w == Pending(Absent, Removed(docs[d]), 0, NoEntry)
<1>1. /\ pc[p] = "delete" /\ CallInv(p) /\ call[p].op = "delete"
      /\ work[p] = NoWork
  BY DEF DeleteDocument, IndInv, TransactionsIsolated, CallInv, RequestAgrees,
         PendingWrites, Engaged
<1>2. d \in Docs /\ docs[d] \in Rows
  BY <1>1, RequestFields DEF CallInv, RequestAgrees, IndInv, TypeOK
<1>3. CASE Fail(p, "not_found")
  BY <1>1, <1>3, FailKeepsIndInv DEF Codes
<1>4. CASE /\ Live(d, call[p].tenant) /\ TakeLock(p, d) /\ Continue(p, "commit")
           /\ work' = [work EXCEPT ![p] = Writes(@, Removed(docs[d]))]
  <2>1. work' = [work EXCEPT ![p] = w]
    BY <1>1, <1>4 DEF Writes, Pending, NoWork
  <2>2. w \in Work
    BY <1>2, AbsentIsARow DEF Pending, Work, Removed, Row, Rows, Statuses
  <2>3. lock'[d] = p
    BY <1>2, <1>4 DEF TakeLock, IndInv, TypeOK
  <2>4. UNCHANGED <<docs, call, target, outbox>>
    BY <1>4 DEF Continue, tables
  <2>5. ASSUME pc'[p] = "commit", work'[p] = w PROVE CallInv(p)'
    <3>1. RequestAgrees(p)'
      BY <1>1, <2>4, <2>5 DEF CallInv, RequestAgrees
    <3>2. OwnsTarget(p)'
      BY <1>1, <1>2, <1>4, <2>3, <2>4, <2>5 DEF OwnsTarget, Live
    <3>3. PendingWrites(p)'
      BY <1>1, <2>4, <2>5 DEF PendingWrites, Engaged
    <3> QED
      BY <3>1, <3>2, <3>3 DEF CallInv
  <2>6. OwnLocks(p)
    BY <1>2, <1>4 DEF OwnLocks
  <2> HIDE DEF w
  <2> QED
    BY <1>4, <2>1, <2>2, <2>5, <2>6, ContinueKeepsIndInv DEF PCs
<1> QED
  BY <1>3, <1>4, Zenon DEF DeleteDocument

\* A call that is answered and leaves the tables, the locks and what it had
\* written alone.
LEMMA AnswerKeepsIndInv ==
    ASSUME IndInv, NEW p \in Calls,
           pc[p] \in {"read", "fetch"},
           NEW a \in [code: Codes, version: Nat, body: Texts,
                      rows: SUBSET (Nat \ {0})],
           Respond(p, a),
           UNCHANGED <<tables, lock, call, target, began, work, outbox, bus>>
    PROVE  IndInv'
<1>1. TypeOK /\ CallInv(p)
  BY DEF IndInv, TransactionsIsolated, CallInv
<1>2. /\ pc' = [pc EXCEPT ![p] = "done"]
      /\ reply' = [reply EXCEPT ![p] = a]
      /\ UNCHANGED <<docs, versions, lock, call, target, began, work, outbox, bus>>
  BY DEF Respond, Goto, tables
<1>3. OnlyCall(p) /\ OwnLocks(p)
  BY <1>1, <1>2 DEF OnlyCall, OwnLocks, TypeOK
<1>4. TypeOK'
  BY <1>1, <1>2 DEF TypeOK, PCs
<1>5. pc'[p] = "done"
  BY <1>1, <1>2 DEF TypeOK
<1>6. CallInv(p)'
  BY <1>1, <1>2, <1>5
     DEF CallInv, RequestAgrees, OwnsTarget, PendingWrites, Engaged
<1> QED
  BY <1>2, <1>3, <1>4, <1>6, LocalStep

LEMMA ReadDocumentKeeps ==
    ASSUME IndInv, NEW p \in Calls, ReadDocument(p)
    PROVE  IndInv'
<1> DEFINE d == target[p]
           a == Answer("ok", docs[d].version, docs[d].content, {})
<1>1. /\ pc[p] = "read" /\ CallInv(p) /\ call[p].op = "get"
  BY DEF ReadDocument, IndInv, TransactionsIsolated, CallInv, RequestAgrees
<1>2. d \in Docs /\ docs[d] \in Rows
  BY <1>1, RequestFields DEF CallInv, RequestAgrees, IndInv, TypeOK
<1>3. CASE Fail(p, "not_found")
  BY <1>1, <1>3, FailKeepsIndInv DEF Codes
<1>4. CASE /\ Respond(p, a)
           /\ UNCHANGED <<tables, lock, call, target, began, work, outbox, bus>>
  <2>1. a \in [code: Codes, version: Nat, body: Texts, rows: SUBSET (Nat \ {0})]
    BY <1>2 DEF Answer, Codes, Rows
  <2> QED
    BY <1>1, <1>4, <2>1, AnswerKeepsIndInv
<1> QED
  BY <1>3, <1>4, Zenon DEF ReadDocument

LEMMA CheckLiveKeeps ==
    ASSUME IndInv, NEW p \in Calls, CheckLive(p)
    PROVE  IndInv'
<1>1. /\ pc[p] = "check" /\ CallInv(p)
      /\ call[p].op \in {"list_versions", "get_version"}
  BY DEF CheckLive, IndInv, TransactionsIsolated, CallInv, RequestAgrees
<1>2. CASE Fail(p, "not_found")
  BY <1>1, <1>2, FailKeepsIndInv DEF Codes
<1>3. CASE Continue(p, "fetch") /\ UNCHANGED <<lock, work>>
  <2>1. ASSUME pc'[p] = "fetch", work'[p] = work[p] PROVE CallInv(p)'
    BY <1>1, <1>3, <2>1
       DEF CallInv, RequestAgrees, OwnsTarget, PendingWrites, Engaged,
           Continue, tables
  <2> QED
    BY <1>3, <2>1, WorkIsTyped, ContinueKeepsIndInv DEF PCs, OwnLocks
<1> QED
  BY <1>2, <1>3, Zenon DEF CheckLive

LEMMA FetchHistoryKeeps ==
    ASSUME IndInv, NEW p \in Calls, FetchHistory(p)
    PROVE  IndInv'
<1> DEFINE d == target[p]
           h == versions[d]
           n == call[p].version
           type == [code: Codes, version: Nat, body: Texts,
                    rows: SUBSET (Nat \ {0})]
<1>1. /\ pc[p] = "fetch" /\ CallInv(p)
      /\ call[p].op \in {"list_versions", "get_version"}
      /\ call[p] \in Requests /\ d = call[p].doc
  BY DEF FetchHistory, IndInv, TransactionsIsolated, CallInv, RequestAgrees
<1>2. /\ d \in Docs /\ docs[d].version \in Nat
      /\ DOMAIN h = 1..docs[d].version /\ h \in [DOMAIN h -> Entries]
  BY <1>1, RequestFields DEF IndInv, TypeOK, HistoryComplete, Rows
<1>3. UNCHANGED <<tables, lock, call, target, began, work, outbox, bus>>
  BY DEF FetchHistory
<1>4. CASE Respond(p, Answer("ok", Cardinality(DOMAIN h), "empty", DOMAIN h))
  <2>1. Cardinality(DOMAIN h) \in Nat
    <3>1. IsFiniteSet(1..docs[d].version)
      BY <1>2, FS_Interval
    <3> QED
      BY <1>2, <3>1, FS_CardinalityType
  <2>2. DOMAIN h \subseteq Nat \ {0}
    BY <1>2
  <2> HIDE DEF h
  <2>3. Answer("ok", Cardinality(DOMAIN h), "empty", DOMAIN h) \in type
    BY <2>1, <2>2 DEF Answer, Codes, Texts
  <2> QED
    BY <1>1, <1>3, <1>4, <2>3, AnswerKeepsIndInv
<1>5. CASE n \in DOMAIN h /\ Respond(p, Answer("ok", n, h[n].content, {}))
  <2>1. n \in Nat /\ h[n].content \in Texts
    BY <1>2, <1>5 DEF Entries
  <2> HIDE DEF h, n
  <2>2. Answer("ok", n, h[n].content, {}) \in type
    BY <2>1 DEF Answer, Codes
  <2> QED
    BY <1>1, <1>3, <1>5, <2>2, AnswerKeepsIndInv
<1>6. CASE Respond(p, Failure("not_found"))
  <2>1. Failure("not_found") \in type
    BY DEF Failure, Answer, Codes, Texts
  <2> QED
    BY <1>1, <1>3, <1>6, <2>1, AnswerKeepsIndInv
<1> QED
  BY <1>4, <1>5, <1>6, Zenon DEF FetchHistory

LEMMA PublishKeeps ==
    ASSUME IndInv, NEW p \in Calls, Publish(p)
    PROVE  IndInv'
<1> DEFINE o == outbox[p]
           step == IF Len(o) = 1 THEN "done" ELSE "publish"
<1>1. /\ pc[p] = "publish" /\ CallInv(p) /\ TypeOK
      /\ o \in Seq(Events) /\ o # <<>>
  BY DEF Publish, IndInv, TransactionsIsolated, CallInv, RequestAgrees, TypeOK
<1>2. /\ pc' = [pc EXCEPT ![p] = step]
      /\ outbox' = [outbox EXCEPT ![p] = Tail(o)]
      /\ UNCHANGED <<docs, versions, lock, call, target, began, work, reply>>
      /\ bus' = Append(bus, Head(o)) \/ bus' = bus
  BY DEF Publish, Goto, tables
<1>3. /\ Tail(o) \in Seq(Events) /\ Head(o) \in Events
      /\ Len(o) # 1 => Tail(o) # <<>>
  <2>1. Tail(o) \in Seq(Events) /\ Head(o) \in Events
    BY <1>1, HeadTailProperties
  <2>2. Len(o) \in Nat \ {0} /\ Len(Tail(o)) = Len(o) - 1
    BY <1>1, HeadTailProperties, EmptySeq
  <2>3. Tail(o) = <<>> => Len(Tail(o)) = 0
    BY EmptySeq
  <2> QED
    BY <2>1, <2>2, <2>3
<1>4. bus' \in Seq(Events)
  <2>1. bus \in Seq(Events)
    BY <1>1 DEF TypeOK
  <2>2. CASE bus' = Append(bus, Head(o))
    BY <1>3, <2>1, <2>2, AppendProperties
  <2> QED
    BY <1>2, <2>1, <2>2
<1>5. /\ pc'[p] = step /\ outbox'[p] = Tail(o)
  BY <1>1, <1>2 DEF TypeOK
<1>6. OnlyCall(p) /\ OwnLocks(p)
  BY <1>1, <1>2 DEF OnlyCall, OwnLocks, TypeOK
<1>7. TypeOK'
  <2>1. step \in PCs
    BY DEF PCs
  <2> HIDE DEF step
  <2>2. pc' \in [Calls -> PCs] /\ outbox' \in [Calls -> Seq(Events)]
    BY <1>1, <1>2, <1>3, <2>1 DEF TypeOK
  <2> QED
    BY <1>1, <1>2, <1>4, <2>2 DEF TypeOK
<1>8. CallInv(p)'
  <2>1. \/ pc'[p] = "done"
        \/ pc'[p] = "publish" /\ outbox'[p] # <<>>
    <3>1. CASE Len(o) = 1
      BY <1>5, <3>1, Zenon
    <3>2. CASE Len(o) # 1
      BY <1>3, <1>5, <3>2, Zenon
    <3> QED
      BY <3>1, <3>2, Zenon
  <2>2. UNCHANGED <<docs, lock, call, target, work>>
    BY <1>2
  <2>3. RequestAgrees(p)'
    BY <1>1, <2>1, <2>2 DEF CallInv, RequestAgrees
  <2>4. OwnsTarget(p)' /\ PendingWrites(p)'
    BY <1>1, <2>1, <2>2 DEF CallInv, OwnsTarget, PendingWrites, Engaged
  <2> QED
    BY <2>3, <2>4 DEF CallInv
<1> QED
  BY <1>2, <1>6, <1>7, <1>8, LocalStep

LEMMA PoolTimeoutKeeps ==
    ASSUME IndInv, NEW p \in Calls, PoolTimeout(p)
    PROVE  IndInv'
<1>1. pc[p] # "idle" /\ Fail(p, "internal")
  BY DEF PoolTimeout
<1> QED
  BY <1>1, FailKeepsIndInv DEF Codes

-----------------------------------------------------------------------------
(* COMMIT.                                                                 *)

\* What a call at its COMMIT is about to write: a row at the version the
\* document has, or one further together with that version's entry.
LEMMA PendingCommit ==
    ASSUME IndInv, NEW p \in Calls, pc[p] = "commit"
    PROVE  LET old == docs[target[p]]
               new == work[p].row
           IN
           /\ target[p] \in Docs /\ old \in Rows /\ new \in Rows
           /\ new.tenant = call[p].tenant /\ new # Absent
           /\ ~old.deleted
           /\ \/ /\ work[p].number = 0
                 /\ new.version = old.version /\ new.content = old.content
              \/ /\ work[p].number = old.version + 1
                 /\ new.version = old.version + 1
                 /\ work[p].entry \in Entries
                 /\ work[p].entry.content = new.content
           /\ old # Absent /\ new.status # old.status =>
                \/ CanTransition(old.status, new.status)
                \/ new.deleted /\ new.status = "archived"
<1> DEFINE d == target[p]
           r == call[p]
           old == docs[d]
           new == work[p].row
<1>1. /\ d \in Docs /\ old \in Rows /\ r \in Requests
      /\ r.op \in {"create", "update", "snapshot", "delete"}
      /\ r.op # "create" => Live(d, r.tenant)
      /\ r.op = "create" => old = Absent
      /\ r.tenant \in Tenants
      /\ PendingWrites(p)
  BY OwnedTarget, RequestFields DEF Engaged, IndInv, TransactionsIsolated
<1>2. ASSUME new.tenant = r.tenant PROVE new # Absent
  BY <1>1, <1>2, NoTenantAssumption DEF Absent, Row
<1>3. CASE r.op = "create"
  <2> DEFINE body == CreatedBody(r, p)
  <2>1. work[p] = Pending(Absent, NewRow(r.tenant, p, body), 1,
                          Entry(body, p, TRUE))
    BY <1>1, <1>3 DEF PendingWrites
  <2>2. /\ new = NewRow(r.tenant, p, body) /\ work[p].number = 1
        /\ work[p].entry = Entry(body, p, TRUE)
    BY <2>1 DEF Pending
  <2>3. body \in Texts
    BY DEF CreatedBody, Texts
  <2> HIDE DEF body
  <2>4. new \in Rows
    BY <1>1, <2>2, NewRowType DEF body
  <2>5. /\ work[p].entry \in Entries /\ work[p].entry.content = new.content
        /\ new.version = 1 /\ new.tenant = r.tenant
    BY <2>2, <2>3 DEF Entry, Entries, NewRow, Row
  <2>6. old = Absent /\ old.version = 0 /\ ~old.deleted
    BY <1>1, <1>3 DEF Absent, Row
  <2>7. /\ new.version = old.version + 1 /\ work[p].number = old.version + 1
    BY <2>2, <2>5, <2>6
  <2> QED
    BY <1>1, <1>2, <2>4, <2>5, <2>6, <2>7, Zenon
<1>4. CASE r.op = "update" /\ r.body = "fits"
  <2>1. /\ work[p] = Pending(old, Edited(r, p, old, old), old.version + 1,
                            Entry(p, p, TRUE))
        /\ StatusAccepted(r, old.status)
    BY <1>1, <1>4 DEF PendingWrites
  <2>2. /\ new = Edited(r, p, old, old) /\ work[p].number = old.version + 1
        /\ work[p].entry = Entry(p, p, TRUE)
    BY <2>1 DEF Pending
  <2>3. new \in Rows
    BY <1>1, <1>4, <2>1, <2>2, EditedType
  <2>4. new.status # old.status => CanTransition(old.status, new.status)
    <3>1. new.status = IF r.status = "absent" THEN old.status ELSE r.status
      BY <2>2 DEF Edited, Row
    <3> QED
      BY <2>1, <3>1, Zenon DEF StatusAccepted
  <2>5. /\ new.tenant = old.tenant /\ new.version = old.version + 1
        /\ new.content = p
    BY <1>4, <2>2 DEF Edited, Row
  <2> QED
    BY <1>1, <1>2, <1>4, <2>2, <2>3, <2>4, <2>5
       DEF Live, Entry, Entries, Texts
<1>5. CASE r.op = "update" /\ r.body # "fits"
  <2>1. /\ work[p] = Pending(old, Edited(r, p, old, old), 0, NoEntry)
        /\ StatusAccepted(r, old.status)
    BY <1>1, <1>5 DEF PendingWrites
  <2>2. new = Edited(r, p, old, old) /\ work[p].number = 0
    BY <2>1 DEF Pending
  <2>3. new \in Rows
    BY <1>1, <1>5, <2>1, <2>2, EditedType
  <2>4. /\ new.tenant = old.tenant /\ new.version = old.version
        /\ new.content = old.content
        /\ new.status # old.status => CanTransition(old.status, new.status)
    BY <1>5, <2>1, <2>2 DEF Edited, Row, StatusAccepted
  <2> QED
    BY <1>1, <1>2, <1>5, <2>2, <2>3, <2>4 DEF Live
<1>6. CASE r.op = "snapshot"
  <2>1. work[p] = Pending(old, Numbered(old, old.version + 1),
                          old.version + 1, Entry(old.content, p, FALSE))
    BY <1>1, <1>6 DEF PendingWrites
  <2>2. /\ new = Numbered(old, old.version + 1)
        /\ work[p].number = old.version + 1
        /\ work[p].entry = Entry(old.content, p, FALSE)
    BY <2>1 DEF Pending
  <2>3. /\ new \in Rows /\ new.tenant = old.tenant
        /\ new.version = old.version + 1 /\ new.content = old.content
        /\ new.status = old.status
    BY <1>1, <2>2 DEF Numbered, Row, Rows
  <2> QED
    BY <1>1, <1>2, <1>6, <2>2, <2>3 DEF Live, Entry, Entries, Rows
<1>7. CASE r.op = "delete"
  <2>1. work[p] = Pending(Absent, Removed(old), 0, NoEntry)
    BY <1>1, <1>7 DEF PendingWrites
  <2>2. new = Removed(old) /\ work[p].number = 0
    BY <2>1 DEF Pending
  <2>3. /\ new \in Rows /\ new.tenant = old.tenant
        /\ new.version = old.version /\ new.content = old.content
        /\ new.status = "archived" /\ new.deleted
    BY <1>1, <2>2 DEF Removed, Row, Rows, Statuses
  <2> QED
    BY <1>1, <1>2, <1>7, <2>2, <2>3 DEF Live
<1> QED
  BY <1>1, <1>3, <1>4, <1>5, <1>6, <1>7

LEMMA WithEntryType ==
    ASSUME NEW n \in Nat, NEW h \in [1..n -> Entries], NEW e \in Entries
    PROVE  /\ DOMAIN WithEntry(h, n + 1, e) = 1..(n + 1)
           /\ WithEntry(h, n + 1, e) \in [1..(n + 1) -> Entries]
           /\ WithEntry(h, n + 1, e)[n + 1] = e
           /\ \A k \in 1..n : WithEntry(h, n + 1, e)[k] = h[k]
<1>1. DOMAIN h \cup {n + 1} = 1..(n + 1)
  OBVIOUS
<1>2. WithEntry(h, n + 1, e) =
        [k \in 1..(n + 1) |-> IF k = n + 1 THEN e ELSE h[k]]
  BY <1>1 DEF WithEntry
<1> QED
  BY <1>2

\* The two tables move together.
LEMMA CommittedTables ==
    ASSUME IndInv, NEW p \in Calls, pc[p] = "commit",
           docs' = DocsAfter(p), versions' = VersionsAfter(p)
    PROVE  /\ docs' \in [Docs -> Rows]
           /\ DOMAIN versions' = Docs
           /\ \A d \in Docs : /\ DOMAIN versions'[d] \subseteq Nat \ {0}
                              /\ versions'[d] \in [DOMAIN versions'[d] -> Entries]
           /\ HistoryComplete'
           /\ OnlyTarget(p)
           /\ docs'[target[p]] = work[p].row
           /\ \A d \in Docs \ {target[p]} : versions'[d] = versions[d]
<1> DEFINE t == target[p]
           n == docs[t].version
<1>1. /\ t \in Docs /\ docs \in [Docs -> Rows] /\ docs[t] \in Rows
      /\ work[p].row \in Rows /\ work[p].row # Absent
      /\ \/ work[p].number = 0 /\ work[p].row.version = n
         \/ /\ work[p].number = n + 1 /\ work[p].row.version = n + 1
            /\ work[p].entry \in Entries
      /\ DOMAIN versions = Docs
  BY PendingCommit DEF IndInv, TypeOK
<1>2. docs' = [docs EXCEPT ![t] = work[p].row]
  BY <1>1 DEF DocsAfter
<1>3. \A d \in Docs : /\ docs[d].version \in Nat
                      /\ DOMAIN versions[d] = 1..docs[d].version
                      /\ versions[d] \in [1..docs[d].version -> Entries]
  BY DEF IndInv, TypeOK, HistoryComplete, Rows
<1>4. docs' \in [Docs -> Rows] /\ docs'[t] = work[p].row /\ OnlyTarget(p)
  BY <1>1, <1>2 DEF OnlyTarget, Engaged
<1>5. CASE work[p].number = 0
  <2>1. versions' = versions
    BY <1>5 DEF VersionsAfter
  <2>2. \A d \in Docs : docs'[d].version = docs[d].version
    BY <1>1, <1>2, <1>3, <1>5
  <2>3. HistoryComplete'
    BY <1>3, <2>1, <2>2 DEF HistoryComplete
  <2>4. \A d \in Docs : /\ DOMAIN versions[d] \subseteq Nat \ {0}
                       /\ versions[d] \in [DOMAIN versions[d] -> Entries]
    BY DEF IndInv, TypeOK
  <2> QED
    BY <1>1, <1>4, <2>1, <2>3, <2>4, Zenon
<1>6. CASE work[p].number = n + 1 /\ n + 1 # 0
  <2> DEFINE h == WithEntry(versions[t], n + 1, work[p].entry)
  <2>1. n \in Nat /\ versions[t] \in [1..n -> Entries] /\ work[p].entry \in Entries
    BY <1>1, <1>3, <1>6
  <2>2. DOMAIN h = 1..(n + 1) /\ h \in [1..(n + 1) -> Entries]
    BY <2>1, WithEntryType
  <2>3. versions' = [versions EXCEPT ![t] = h]
    BY <1>6 DEF VersionsAfter
  <2> HIDE DEF h
  <2>4. \A d \in Docs \ {t} :
           versions'[d] = versions[d] /\ docs'[d] = docs[d]
    BY <1>2, <2>3
  <2>5. versions'[t] = h /\ DOMAIN versions' = Docs
    BY <1>1, <2>3
  <2>6. docs'[t].version = n + 1
    BY <1>1, <1>4, <1>6, <2>1
  <2>7. \A d \in Docs : DOMAIN versions'[d] = 1..docs'[d].version
    BY <1>3, <2>2, <2>4, <2>5, <2>6
  <2>8. \A d \in Docs : versions'[d] \in [DOMAIN versions'[d] -> Entries]
    BY <1>3, <2>2, <2>4, <2>5
  <2>9. \A d \in Docs : docs'[d].version \in Nat
    BY <1>4 DEF Rows
  <2>10. \A d \in Docs : DOMAIN versions'[d] \subseteq Nat \ {0}
    BY <2>7, <2>9
  <2> QED
    BY <1>4, <2>4, <2>5, <2>7, <2>8, <2>10 DEF HistoryComplete
<1>7. \/ work[p].number = 0
      \/ work[p].number = n + 1 /\ n + 1 # 0
  BY <1>1, <1>3
<1> QED
  BY <1>5, <1>6, <1>7, Zenon

LEMMA EventsTypes ==
    ASSUME IndInv, NEW p \in Calls, pc[p] = "commit"
    PROVE  EventsOf(p) \in Seq(Events)
<1> DEFINE v == work[p].row.version
           r == call[p]
<1>1. /\ target[p] \in Docs /\ v \in Nat /\ work[p].number \in Nat
      /\ r.op \in {"create", "update", "snapshot", "delete"}
  BY OwnedTarget, WorkIsTyped DEF Engaged, Work, Rows
<1> HIDE DEF v
<1>2. /\ Event(p, "created", v, FALSE) \in Events
      /\ Event(p, "version", v, TRUE) \in Events
      /\ Event(p, "published", v, FALSE) \in Events
      /\ Event(p, "updated", v, FALSE) \in Events
      /\ Event(p, "version", work[p].number, FALSE) \in Events
      /\ Event(p, "deleted", 0, FALSE) \in Events
  BY <1>1 DEF Event, Events
<1>3. ASSUME NEW e \in Events
      PROVE  /\ <<e>> \in Seq(Events)
             /\ \A f \in Events : <<e, f>> \in Seq(Events)
             /\ \A c : When(c, e) \in Seq(Events)
  BY DEF When
<1>4. CASE r.op = "create"
  <2>1. EventsOf(p) = <<Event(p, "created", v, FALSE),
                        Event(p, "version", v, TRUE)>>
    BY <1>4 DEF EventsOf, v
  <2> QED
    BY <1>2, <1>3, <2>1, Zenon
<1>5. CASE r.op = "update"
  <2>1. EventsOf(p) =
          When(r.body = "fits", Event(p, "version", v, TRUE))
          \o When(r.status = "published", Event(p, "published", v, FALSE))
          \o When(Changed(r), Event(p, "updated", v, FALSE))
    BY <1>5 DEF EventsOf, v
  <2>2. /\ When(r.body = "fits", Event(p, "version", v, TRUE)) \in Seq(Events)
        /\ When(r.status = "published", Event(p, "published", v, FALSE))
             \in Seq(Events)
        /\ When(Changed(r), Event(p, "updated", v, FALSE)) \in Seq(Events)
    BY <1>2, <1>3
  <2> DEFINE s1 == When(r.body = "fits", Event(p, "version", v, TRUE))
             s2 == When(r.status = "published", Event(p, "published", v, FALSE))
             s3 == When(Changed(r), Event(p, "updated", v, FALSE))
  <2>3. s1 \in Seq(Events) /\ s2 \in Seq(Events) /\ s3 \in Seq(Events)
    BY <2>2
  <2>4. EventsOf(p) = s1 \o s2 \o s3
    BY <2>1
  <2> HIDE DEF s1, s2, s3
  <2>5. s1 \o s2 \in Seq(Events)
    BY <2>3, ConcatProperties
  <2>6. (s1 \o s2) \o s3 \in Seq(Events)
    BY <2>3, <2>5, ConcatProperties
  <2> QED
    BY <2>4, <2>6
<1>6. CASE r.op = "snapshot"
  <2>1. EventsOf(p) = <<Event(p, "version", work[p].number, FALSE)>>
    BY <1>6 DEF EventsOf
  <2> QED
    BY <1>2, <1>3, <2>1, Zenon
<1>7. CASE r.op = "delete"
  <2>1. EventsOf(p) = <<Event(p, "deleted", 0, FALSE)>>
    BY <1>7 DEF EventsOf
  <2> QED
    BY <1>2, <1>3, <2>1, Zenon
<1> QED
  BY <1>1, <1>4, <1>5, <1>6, <1>7

\* The end of a transaction, whether or not its writes took effect.
LEMMA EndKeepsIndInv ==
    ASSUME IndInv, NEW p \in Calls, pc[p] # "idle",
           \/ UNCHANGED tables
           \/ /\ pc[p] = "commit"
              /\ docs' = DocsAfter(p) /\ versions' = VersionsAfter(p),
           EndTransaction(p),
           NEW step \in {"publish", "done", "lost"}, Goto(p, step),
           NEW events \in Seq(Events), step = "publish" => events # <<>>,
           outbox' = [outbox EXCEPT ![p] = events],
           NEW a \in [code: Codes, version: Nat, body: Texts,
                      rows: SUBSET (Nat \ {0})],
           reply' = [reply EXCEPT ![p] = a],
           UNCHANGED <<call, target, began, bus>>
    PROVE  IndInv'
<1>1. TypeOK /\ CallInv(p)
  BY DEF IndInv, TransactionsIsolated, CallInv
<1>2. /\ pc' = [pc EXCEPT ![p] = step] /\ lock' = Released(p)
      /\ work' = [work EXCEPT ![p] = NoWork]
  BY DEF Goto, EndTransaction
<1>3. /\ docs' \in [Docs -> Rows] /\ DOMAIN versions' = Docs
      /\ \A d \in Docs : /\ DOMAIN versions'[d] \subseteq Nat \ {0}
                         /\ versions'[d] \in [DOMAIN versions'[d] -> Entries]
      /\ HistoryComplete' /\ OnlyTarget(p)
  <2>1. CASE UNCHANGED tables
    BY <1>1, <2>1 DEF tables, TypeOK, IndInv, HistoryComplete, OnlyTarget
  <2>2. CASE /\ pc[p] = "commit"
             /\ docs' = DocsAfter(p) /\ versions' = VersionsAfter(p)
    BY <2>2, CommittedTables
  <2> QED
    BY <2>1, <2>2
<1>4. OnlyCall(p) /\ OwnLocks(p)
  BY <1>1, <1>2 DEF OnlyCall, OwnLocks, TypeOK
<1>5. TypeOK'
  <2>1. pc' \in [Calls -> PCs]
    BY <1>1, <1>2 DEF TypeOK, PCs
  <2>2. work' \in [Calls -> Work]
    BY <1>1, <1>2, NoWorkType DEF TypeOK, Work
  <2>3. lock' \in [Docs -> Calls \cup {NoCall}]
    BY <1>1, <1>4, LockTypes
  <2>4. /\ outbox' \in [Calls -> Seq(Events)]
        /\ reply' \in [Calls -> [code: Codes, version: Nat, body: Texts,
                                 rows: SUBSET (Nat \ {0})]]
    BY <1>1 DEF TypeOK
  <2> QED
    BY <1>1, <1>3, <2>1, <2>2, <2>3, <2>4 DEF TypeOK, Work
<1>6. /\ pc'[p] = step /\ work'[p] = NoWork /\ outbox'[p] = events
  BY <1>1, <1>2 DEF TypeOK
<1>7. CallInv(p)'
  BY <1>1, <1>6
     DEF CallInv, RequestAgrees, OwnsTarget, PendingWrites, Engaged
<1>8. \A q \in Calls : CallInv(q)'
  BY <1>3, <1>4, <1>7, OthersKept
<1>9. FreshIdentifiers'
  BY DEF IndInv, TransactionsIsolated, FreshIdentifiers
<1> QED
  BY <1>3, <1>5, <1>8, <1>9 DEF IndInv, TransactionsIsolated, CallInv

LEMMA CommitKeeps ==
    ASSUME IndInv, NEW p \in Calls, Commit(p)
    PROVE  IndInv'
<1> DEFINE events == EventsOf(p)
           step == IF events = <<>> THEN "done" ELSE "publish"
<1>1. /\ pc[p] = "commit" /\ docs' = DocsAfter(p) /\ versions' = VersionsAfter(p)
      /\ EndTransaction(p) /\ outbox' = [outbox EXCEPT ![p] = events]
      /\ reply' = [reply EXCEPT ![p] = Written(p)]
      /\ Goto(p, step) /\ UNCHANGED <<call, target, began, bus>>
  BY DEF Commit
<1>2. events \in Seq(Events)
  BY <1>1, EventsTypes
<1>3. work[p].row \in Rows
  BY WorkIsTyped DEF Work
<1>4. Written(p) \in [code: Codes, version: Nat, body: Texts,
                      rows: SUBSET (Nat \ {0})]
  BY <1>3 DEF Written, Answer, Codes, Rows
<1>5. /\ step \in {"publish", "done", "lost"}
      /\ step = "publish" => events # <<>>
  OBVIOUS
<1> HIDE DEF events, step
<1> QED
  BY <1>1, <1>2, <1>4, <1>5, EndKeepsIndInv

LEMMA CommitFailsKeeps ==
    ASSUME IndInv, NEW p \in Calls, CommitFails(p)
    PROVE  IndInv'
<1> DEFINE type == [code: Codes, version: Nat, body: Texts,
                    rows: SUBSET (Nat \ {0})]
<1>1. /\ pc[p] = "commit" /\ EndTransaction(p) /\ Goto(p, "done")
      /\ \/ UNCHANGED tables
         \/ docs' = DocsAfter(p) /\ versions' = VersionsAfter(p)
      /\ reply' = [reply EXCEPT ![p] = Failure("internal")]
      /\ UNCHANGED <<call, target, began, outbox, bus>>
  BY DEF CommitFails, Respond
<1>2. /\ outbox' = [outbox EXCEPT ![p] = outbox[p]]
      /\ outbox[p] \in Seq(Events)
  BY <1>1 DEF IndInv, TypeOK
<1>3. Failure("internal") \in type
  BY DEF Failure, Answer, Codes, Texts
<1> QED
  BY <1>1, <1>2, <1>3, EndKeepsIndInv

LEMMA CrashKeeps ==
    ASSUME IndInv, NEW p \in Calls, Crash(p)
    PROVE  IndInv'
<1>1. /\ pc[p] # "idle" /\ EndTransaction(p) /\ Goto(p, "lost")
      /\ \/ UNCHANGED tables
         \/ /\ pc[p] = "commit"
            /\ docs' = DocsAfter(p) /\ versions' = VersionsAfter(p)
      /\ outbox' = [outbox EXCEPT ![p] = <<>>]
      /\ UNCHANGED <<call, target, began, reply, bus>>
  BY DEF Crash
<1>2. reply' = [reply EXCEPT ![p] = reply[p]]
  BY <1>1 DEF IndInv, TypeOK
<1>3. reply[p] \in [code: Codes, version: Nat, body: Texts,
                    rows: SUBSET (Nat \ {0})]
  BY DEF IndInv, TypeOK
<1>4. <<>> \in Seq(Events)
  OBVIOUS
<1> QED
  BY <1>1, <1>2, <1>3, <1>4, EndKeepsIndInv

-----------------------------------------------------------------------------
(* Arrivals and creations, which choose a target.                          *)

\* A step of p that leaves the tables alone and gives p a target of its own.
LEMMA TargetingStep ==
    ASSUME IndInv, NEW p \in Calls, OnlyCall(p), OwnLocks(p),
           UNCHANGED <<docs, versions>>, TypeOK', CallInv(p)',
           call'[p].op = "create" /\ target'[p] \in Docs =>
                \A q \in Calls \ {p} : target[q] # target'[p]
    PROVE  IndInv'
<1>1. \A q \in Calls : CallInv(q)'
  BY OthersKept DEF OnlyTarget
<1>2. HistoryComplete'
  BY DEF IndInv, HistoryComplete
<1>3. FreshIdentifiers'
  BY DEF IndInv, TransactionsIsolated, FreshIdentifiers, OnlyCall
<1> QED
  BY <1>1, <1>2, <1>3 DEF IndInv, TransactionsIsolated, CallInv

LEMMA ArriveKeeps ==
    ASSUME IndInv, NEW p \in Calls, Arrive(p)
    PROVE  IndInv'
<1>1. pc[p] = "idle" /\ CallInv(p) /\ TypeOK
  BY DEF Arrive, IndInv, TransactionsIsolated, CallInv
<1>2. UNCHANGED <<docs, versions, lock, work, outbox, bus>>
  BY DEF Arrive, tables
<1>3. PICK r \in Menu :
        /\ call' = [call EXCEPT ![p] = r]
        /\ IF r.op = "create"
           THEN UNCHANGED <<target, began>>
           ELSE /\ target' = [target EXCEPT ![p] = r.doc]
                /\ began' = [began EXCEPT
                     ![p] = [version |-> docs[r.doc].version,
                             deleted |-> docs[r.doc].deleted]]
        /\ IF Refusal(r) # "none"
           THEN Respond(p, Failure(Refusal(r)))
           ELSE /\ Goto(p, IF FromTemplate(r) THEN "template" ELSE "connect")
                /\ UNCHANGED reply
  BY DEF Arrive
<1>4. r \in Requests /\ (r.op # "create" => r.doc \in Docs)
  BY ConstantsAssumption, RequestFields
<1>5. /\ target \in [Calls -> Docs \cup {NoDoc}]
      /\ target' \in [Calls -> Docs \cup {NoDoc}]
      /\ \A q \in Calls \ {p} : target'[q] = target[q]
      /\ r.op = "create" => target'[p] = NoDoc
      /\ r.op # "create" => target'[p] = r.doc
  BY <1>1, <1>3, <1>4 DEF TypeOK, CallInv, RequestAgrees
<1>6. began' \in [Calls -> [version: Nat, deleted: BOOLEAN]]
  <2>1. r.op # "create" => docs[r.doc] \in Rows
    BY <1>1, <1>4 DEF TypeOK
  <2>2. began \in [Calls -> [version: Nat, deleted: BOOLEAN]]
    BY <1>1 DEF TypeOK
  <2> QED
    BY <1>3, <2>1, <2>2 DEF Rows
<1>7. /\ call' \in [Calls -> Requests \cup {NoRequest}]
      /\ call'[p] = r /\ \A q \in Calls \ {p} : call'[q] = call[q]
  BY <1>1, <1>3, <1>4 DEF TypeOK
<1>8. PICK step \in {"done", "template", "connect"} :
        /\ pc' = [pc EXCEPT ![p] = step]
        /\ step = "template" => r.op = "create"
  BY <1>3 DEF Respond, Goto, FromTemplate
<1>9. /\ pc' \in [Calls -> PCs] /\ pc'[p] = step
      /\ \A q \in Calls \ {p} : pc'[q] = pc[q]
  BY <1>1, <1>8 DEF TypeOK, PCs
<1>10. reply' \in [Calls -> [code: Codes, version: Nat, body: Texts,
                             rows: SUBSET (Nat \ {0})]]
  <2>1. Failure(Refusal(r)) \in [code: Codes, version: Nat, body: Texts,
                                 rows: SUBSET (Nat \ {0})]
    BY DEF Failure, Answer, Refusal, Codes, Texts
  <2>2. reply' = [reply EXCEPT ![p] = Failure(Refusal(r))] \/ reply' = reply
    BY <1>3 DEF Respond
  <2> QED
    BY <1>1, <2>1, <2>2 DEF TypeOK
<1>11. TypeOK'
  BY <1>1, <1>2, <1>5, <1>6, <1>7, <1>9, <1>10 DEF TypeOK
<1>12. OnlyCall(p) /\ OwnLocks(p)
  BY <1>2, <1>5, <1>7, <1>9 DEF OnlyCall, OwnLocks
<1>13. CallInv(p)'
  <2>1. work'[p] = NoWork
    BY <1>1, <1>2 DEF CallInv, PendingWrites, Engaged
  <2>2. RequestAgrees(p)'
    BY <1>4, <1>5, <1>7, <1>8, <1>9 DEF RequestAgrees
  <2>3. OwnsTarget(p)' /\ PendingWrites(p)'
    BY <1>9, <2>1 DEF OwnsTarget, PendingWrites, Engaged
  <2> QED
    BY <2>2, <2>3 DEF CallInv
<1> QED
  BY <1>2, <1>5, <1>7, <1>11, <1>12, <1>13, TargetingStep, ConstantsAssumption

LEMMA InsertDocumentKeeps ==
    ASSUME IndInv, NEW p \in Calls, InsertDocument(p)
    PROVE  IndInv'
<1> DEFINE row == NewRow(call[p].tenant, p, CreatedBody(call[p], p))
           w == Pending(Absent, row, 0, NoEntry)
<1>1. /\ pc[p] = "insert_document" /\ CallInv(p) /\ TypeOK
      /\ call[p].op = "create" /\ call[p] \in Requests /\ work[p] = NoWork
  BY DEF InsertDocument, IndInv, TransactionsIsolated, CallInv, RequestAgrees,
         PendingWrites, Engaged
<1>2. PICK d \in Docs :
        /\ docs[d] = Absent /\ \A q \in Calls : target[q] # d
        /\ target' = [target EXCEPT ![p] = d]
        /\ work' = [work EXCEPT ![p] = Writes(@, row)]
  BY DEF InsertDocument
<1>3. /\ pc' = [pc EXCEPT ![p] = "insert_version"]
      /\ UNCHANGED <<docs, versions, lock, call, began, reply, outbox, bus>>
  BY DEF InsertDocument, Goto, tables
<1>4. work' = [work EXCEPT ![p] = w]
  BY <1>1, <1>2 DEF Writes, Pending, NoWork
<1>5. w \in Work
  BY <1>1, NewRowType, AbsentIsARow DEF Pending, Work
<1>6. pc'[p] = "insert_version" /\ target'[p] = d /\ work'[p] = w
  BY <1>1, <1>2, <1>3, <1>4 DEF TypeOK
<1>7. CallInv(p)'
  <2>1. RequestAgrees(p)'
    BY <1>1, <1>3, <1>6 DEF CallInv, RequestAgrees
  <2>2. OwnsTarget(p)'
    BY <1>1, <1>2, <1>3, <1>6 DEF OwnsTarget
  <2>3. PendingWrites(p)'
    BY <1>1, <1>3, <1>6 DEF PendingWrites, Engaged
  <2> QED
    BY <2>1, <2>2, <2>3 DEF CallInv
<1> HIDE DEF w
<1>8. TypeOK'
  BY <1>1, <1>2, <1>3, <1>4, <1>5 DEF TypeOK, Work, PCs
<1>9. OnlyCall(p) /\ OwnLocks(p)
  BY <1>1, <1>2, <1>3, <1>4 DEF OnlyCall, OwnLocks, TypeOK
<1> QED
  BY <1>2, <1>3, <1>6, <1>7, <1>8, <1>9, TargetingStep

-----------------------------------------------------------------------------
(* The theorems.                                                           *)

LEMMA NextKeepsIndInv ==
    ASSUME IndInv, [Next]_vars
    PROVE  IndInv'
<1>1. ASSUME UNCHANGED vars PROVE IndInv'
  <2>1. UNCHANGED <<docs, versions, lock, pc, call, target, began, work, reply,
                    outbox, bus>>
    BY <1>1 DEF vars
  <2>2. TypeOK' /\ HistoryComplete' /\ FreshIdentifiers'
    BY <2>1
       DEF IndInv, TransactionsIsolated, TypeOK, HistoryComplete, FreshIdentifiers
  <2>3. \A p \in Calls : CallInv(p)'
    <3> TAKE p \in Calls
    <3>1. CallInv(p)
      BY DEF IndInv, TransactionsIsolated, CallInv
    <3> QED
      BY <2>1, <3>1, OthersUndisturbed
  <2> QED
    BY <2>2, <2>3 DEF IndInv, TransactionsIsolated, CallInv
<1>2. ASSUME NEW p \in Calls, Step(p) PROVE IndInv'
  BY <1>2, FetchTemplateKeeps, ConnectKeeps, InsertDocumentKeeps,
     SelectForUpdateKeeps, RefuseTransitionKeeps, UpdateDocumentKeeps,
     InsertVersionKeeps, BumpVersionKeeps, DeleteDocumentKeeps, CommitKeeps,
     PublishKeeps, ReadDocumentKeeps, CheckLiveKeeps, FetchHistoryKeeps
     DEF Step
<1>3. ASSUME NEW p \in Calls, Fault(p) PROVE IndInv'
  BY <1>3, CommitFailsKeeps, CrashKeeps, PoolTimeoutKeeps DEF Fault
<1> QED
  BY <1>1, <1>2, <1>3, ArriveKeeps DEF Next

LEMMA AlwaysIndInv == Spec => []IndInv
<1>1. IndInv /\ [Next]_vars => IndInv'
  BY NextKeepsIndInv
<1> QED
  BY <1>1, InitIndInv, PTL DEF Spec

\* Every variable keeps its type, whatever calls race or fail.
THEOREM TypeCorrect == Spec => []TypeOK
<1>1. IndInv => TypeOK
  BY DEF IndInv
<1> QED
  BY <1>1, AlwaysIndInv, PTL

\* Version numbers of a document have no gap and no duplicate: the numbering
\* done in the service under FOR UPDATE (document_repo.rs, version_repo.rs).
THEOREM HistoryIsAlwaysComplete == Spec => []HistoryComplete
<1>1. IndInv => HistoryComplete
  BY DEF IndInv
<1> QED
  BY <1>1, AlwaysIndInv, PTL

\* What a writing transaction will commit follows from the row it locked.
THEOREM TransactionsAlwaysIsolated == Spec => []TransactionsIsolated
<1>1. IndInv => TransactionsIsolated
  BY DEF IndInv
<1> QED
  BY <1>1, AlwaysIndInv, PTL

\* The tables change by commits alone.
LEMMA TablesChangeByCommit ==
    ASSUME IndInv, [Next]_vars
    PROVE  \/ docs' = docs /\ versions' = versions
           \/ \E p \in Calls : /\ pc[p] = "commit"
                             /\ docs' = DocsAfter(p)
                             /\ versions' = VersionsAfter(p)
<1>1. CASE UNCHANGED vars
  BY <1>1 DEF vars
<1>2. ASSUME NEW p \in Calls, Arrive(p) PROVE docs' = docs /\ versions' = versions
  BY <1>2 DEF Arrive, tables
<1>3. ASSUME NEW p \in Calls, Step(p), ~Commit(p)
      PROVE  docs' = docs /\ versions' = versions
  BY <1>3, Zenon
     DEF Step, FetchTemplate, Connect, InsertDocument, SelectForUpdate,
         RefuseTransition, UpdateDocument, InsertVersion, BumpVersion,
         DeleteDocument, Publish, ReadDocument, CheckLive, FetchHistory,
         Continue, Fail, tables
<1>4. ASSUME NEW p \in Calls, Commit(p)
      PROVE  pc[p] = "commit" /\ docs' = DocsAfter(p) /\ versions' = VersionsAfter(p)
  BY <1>4 DEF Commit
<1>5. ASSUME NEW p \in Calls, Fault(p)
      PROVE  \/ docs' = docs /\ versions' = versions
             \/ /\ pc[p] = "commit"
                /\ docs' = DocsAfter(p) /\ versions' = VersionsAfter(p)
  BY <1>5 DEF Fault, CommitFails, Crash, PoolTimeout, Fail, tables
<1>6. CASE Quiet /\ UNCHANGED vars
  BY <1>6 DEF vars
<1> QED
  BY <1>1, <1>2, <1>3, <1>4, <1>5, <1>6, Zenon DEF Next

\* A deleted document is frozen, history included: no writer that was waiting
\* for its row lock brings it back (the live predicate of every statement).
THEOREM DeletedStaysDeleted == Spec => DeletedIsFinal
<1> DEFINE Frozen == \A d \in Docs : docs[d].deleted =>
                        /\ docs'[d] = docs[d]
                        /\ versions'[d] = versions[d]
<1>1. ASSUME IndInv, [Next]_vars PROVE Frozen
  <2>1. CASE docs' = docs /\ versions' = versions
    BY <2>1
  <2>2. ASSUME NEW p \in Calls, pc[p] = "commit",
               docs' = DocsAfter(p), versions' = VersionsAfter(p)
        PROVE  Frozen
    <3>1. ~docs[target[p]].deleted
      BY <1>1, <2>2, PendingCommit
    <3>2. \A d \in Docs \ {target[p]} :
            docs'[d] = docs[d] /\ versions'[d] = versions[d]
      BY <1>1, <2>2, CommittedTables DEF OnlyTarget
    <3> QED
      BY <3>1, <3>2
  <2> QED
    BY <1>1, <2>1, <2>2, TablesChangeByCommit
<1>2. IndInv /\ [Next]_vars => [Frozen]_vars
  BY <1>1
<1> QED
  BY <1>2, AlwaysIndInv, PTL DEF Spec, DeletedIsFinal

\* A status only moves towards archived: the transition checked on the row
\* read under FOR UPDATE still holds of the row the COMMIT replaces.
THEOREM StatusAlwaysAdvances == Spec => StatusOnlyAdvances
<1> DEFINE Advances == \A d \in Docs :
             docs[d].version > 0 /\ docs'[d].status # docs[d].status =>
                Stage(docs[d].status) < Stage(docs'[d].status)
<1>1. ASSUME IndInv, [Next]_vars PROVE Advances
  <2>1. CASE docs' = docs
    BY <2>1
  <2>2. ASSUME NEW p \in Calls, pc[p] = "commit",
               docs' = DocsAfter(p), versions' = VersionsAfter(p)
        PROVE  Advances
    <3> DEFINE old == docs[target[p]]
               new == work[p].row
    <3>1. /\ docs'[target[p]] = new
          /\ \A d \in Docs \ {target[p]} : docs'[d] = docs[d]
      BY <1>1, <2>2, CommittedTables DEF OnlyTarget
    <3>2. old.version > 0 => old # Absent
      BY DEF Absent, Row
    <3>3. /\ old.status \in Statuses /\ new.status \in Statuses
          /\ old # Absent /\ new.status # old.status =>
                CanTransition(old.status, new.status) \/ new.status = "archived"
      BY <1>1, <2>2, PendingCommit DEF Rows
    <3> HIDE DEF old, new
    <3>4. old.version > 0 /\ new.status # old.status =>
            Stage(old.status) < Stage(new.status)
      BY <3>2, <3>3 DEF Stage, CanTransition, Statuses
    <3> QED
      BY <3>1, <3>4 DEF old
  <2> QED
    BY <1>1, <2>1, <2>2, TablesChangeByCommit
<1>2. IndInv /\ [Next]_vars => [Advances]_vars
  BY <1>1
<1> QED
  BY <1>2, AlwaysIndInv, PTL DEF Spec, StatusOnlyAdvances

\* The body a document shows is that of its newest version: no save is lost
\* under a writer that read the row before it.
THEOREM HeadIsAlwaysNewest == Spec => []HeadIsNewest
<1>1. Init => HeadIsNewest
  BY ConstantsAssumption DEF Init, HeadIsNewest, NewRow, Row, Entry
<1>2. ASSUME IndInv, HeadIsNewest, [Next]_vars PROVE HeadIsNewest'
  <2>1. CASE docs' = docs /\ versions' = versions
    BY <1>2, <2>1 DEF HeadIsNewest
  <2>2. ASSUME NEW p \in Calls, pc[p] = "commit",
               docs' = DocsAfter(p), versions' = VersionsAfter(p)
        PROVE  HeadIsNewest'
    <3> DEFINE t == target[p]
               n == docs[t].version
               new == work[p].row
    <3>1. /\ docs'[t] = new /\ DOMAIN versions = Docs
          /\ \A d \in Docs \ {t} :
                docs'[d] = docs[d] /\ versions'[d] = versions[d]
      BY <1>2, <2>2, CommittedTables DEF OnlyTarget, IndInv, TypeOK
    <3>2. t \in Docs /\ n \in Nat /\ versions[t] \in [1..n -> Entries]
      BY <1>2, <2>2, PendingCommit DEF IndInv, TypeOK, HistoryComplete, Rows
    <3>3. \/ /\ work[p].number = 0
             /\ new.version = n /\ new.content = docs[t].content
          \/ /\ work[p].number = n + 1 /\ new.version = n + 1
             /\ work[p].entry \in Entries
             /\ work[p].entry.content = new.content
      BY <1>2, <2>2, PendingCommit
    <3>4. CASE work[p].number = 0
      BY <1>2, <2>2, <3>1, <3>2, <3>3, <3>4 DEF HeadIsNewest, VersionsAfter
    <3>5. CASE work[p].number # 0
      <4>1. versions'[t] = WithEntry(versions[t], n + 1, work[p].entry)
        BY <2>2, <3>1, <3>2, <3>3, <3>5 DEF VersionsAfter
      <4>2. versions'[t][new.version].content = new.content
        <5>1. WithEntry(versions[t], n + 1, work[p].entry)[n + 1] = work[p].entry
          BY <3>2, <3>3, <3>5, WithEntryType
        <5> QED
          BY <3>3, <3>5, <4>1, <5>1
      <4> QED
        BY <1>2, <3>1, <4>2 DEF HeadIsNewest
    <3> QED
      BY <3>4, <3>5
  <2> QED
    BY <1>2, <2>1, <2>2, TablesChangeByCommit
<1> QED
  BY <1>1, <1>2, AlwaysIndInv, PTL DEF Spec

\* When nothing fails, losing a race never costs a call a 500: the number
\* computed under FOR UPDATE is never a duplicate (tests/concurrency_test.rs).
THEOREM RacesCostNothing == Spec => []NoCallLosesARace
<1>1. Init => NoCallLosesARace
  <2>1. NoAnswer.code = "none"
    BY DEF NoAnswer, Failure, Answer
  <2>2. Init => \A p \in Calls : reply[p] = NoAnswer
    BY DEF Init
  <2> QED
    BY <2>1, <2>2 DEF NoCallLosesARace
<1>2. ASSUME IndInv, NoCallLosesARace, [Next]_vars PROVE NoCallLosesARace'
  <2> SUFFICES ASSUME Faults = {} PROVE \A q \in Calls : reply'[q].code # "internal"
    BY DEF NoCallLosesARace
  <2>1. \A q \in Calls : reply[q].code # "internal"
    BY <1>2 DEF NoCallLosesARace
  <2>2. ASSUME reply' = reply PROVE \A q \in Calls : reply'[q].code # "internal"
    BY <2>1, <2>2
  <2>3. ASSUME NEW p \in Calls, NEW a, a.code # "internal",
               reply' = [reply EXCEPT ![p] = a]
        PROVE  \A q \in Calls : reply'[q].code # "internal"
    BY <1>2, <2>1, <2>3 DEF IndInv, TypeOK
  <2>4. ASSUME NEW p \in Calls, NEW code, code # "internal",
               Fail(p, code) \/ Respond(p, Failure(code))
        PROVE  \A q \in Calls : reply'[q].code # "internal"
    BY <2>3, <2>4 DEF Fail, Respond, Failure, Answer
  <2>5. ASSUME NEW p \in Calls, Arrive(p)
        PROVE  \A q \in Calls : reply'[q].code # "internal"
    <3>1. PICK r \in Menu : Respond(p, Failure(Refusal(r))) \/ reply' = reply
      BY <2>5, Zenon DEF Arrive
    <3>2. Refusal(r) # "internal"
      BY DEF Refusal
    <3> QED
      BY <2>2, <2>4, <3>1, <3>2
  <2>6. ASSUME NEW p \in Calls, InsertVersion(p)
        PROVE  reply' = reply
    <3>1. NextVersion(p) \notin DOMAIN versions[target[p]]
      BY <1>2, <2>6, NextVersionIsFree DEF InsertVersion
    <3> QED
      BY <2>6, <3>1, Zenon DEF InsertVersion, Continue
  <2>7. ASSUME NEW p \in Calls,
               \/ FetchTemplate(p) \/ RefuseTransition(p) \/ SelectForUpdate(p)
               \/ UpdateDocument(p) \/ DeleteDocument(p) \/ CheckLive(p)
        PROVE  \A q \in Calls : reply'[q].code # "internal"
    <3>1. \/ reply' = reply
          \/ \E code \in Codes \ {"internal"} : Fail(p, code)
      BY <2>7, Zenon
         DEF FetchTemplate, RefuseTransition, SelectForUpdate, UpdateDocument,
             DeleteDocument, CheckLive, Continue, Codes
    <3> QED
      BY <2>2, <2>4, <3>1
  <2>8. ASSUME NEW p \in Calls, ReadDocument(p) \/ FetchHistory(p)
        PROVE  \A q \in Calls : reply'[q].code # "internal"
    <3>1. \/ Fail(p, "not_found") \/ Respond(p, Failure("not_found"))
          \/ \E n, body, rows : Respond(p, Answer("ok", n, body, rows))
      BY <2>8, Zenon DEF ReadDocument, FetchHistory
    <3>2. ASSUME NEW n, NEW body, NEW rows,
                 Respond(p, Answer("ok", n, body, rows))
          PROVE  \A q \in Calls : reply'[q].code # "internal"
      BY <2>3, <3>2 DEF Respond, Answer
    <3> QED
      BY <2>4, <3>1, <3>2
  <2>9. ASSUME NEW p \in Calls, Commit(p)
        PROVE  \A q \in Calls : reply'[q].code # "internal"
    BY <2>3, <2>9 DEF Commit, Written, Answer
  <2>10. ASSUME NEW p \in Calls,
                \/ Connect(p) \/ InsertDocument(p) \/ BumpVersion(p) \/ Publish(p)
         PROVE  reply' = reply
    BY <2>10, Zenon DEF Connect, InsertDocument, BumpVersion, Publish, Continue
  <2>11. ASSUME NEW p \in Calls, Fault(p)
         PROVE  \A q \in Calls : reply'[q].code # "internal"
    BY <2>2, <2>11 DEF Fault, CommitFails, Crash, PoolTimeout
  <2>12. ASSUME UNCHANGED vars PROVE reply' = reply
    BY <2>12 DEF vars
  <2> QED
    BY <1>2, <2>2, <2>5, <2>6, <2>7, <2>8, <2>9, <2>10, <2>11, <2>12, Zenon
       DEF Next, Step
<1> QED
  BY <1>1, <1>2, AlwaysIndInv, PTL DEF Spec
=============================================================================
