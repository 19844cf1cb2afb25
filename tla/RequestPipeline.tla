--------------------------- MODULE RequestPipeline ---------------------------
(***************************************************************************)
(* The way of a request through the process: the correlation middleware,   *)
(* the extractors in the order of the handlers' parameters, the bounds of  *)
(* Admission, the store, and the events that the answer leaves behind.     *)
(*                                                                         *)
(* The tasks of several requests share a worker thread.  One action is one *)
(* poll of a task, from the moment the worker takes it up to its next      *)
(* await; the correlation id is a task-local, which the runtime swaps in   *)
(* for the length of a poll.  What the store does is one step here and     *)
(* DocumentStore's subject.                                                *)
(***************************************************************************)
EXTENDS Admission

CONSTANTS
    Procs,          \* requests in progress
    Sends,          \* Sends[p]: what p may be
    Ids,            \* correlation ids that clients choose
    Sizes,          \* the settings of MAX_DOCUMENT_SIZE_MB that boot
    Pieces,         \* how much of a body may arrive at a time, or all of it
    TemplateBodies,
    Faults,         \* {"database"}, or none
    NoId, Nobody,
    Blank           \* a header of which nothing is left once trimmed

Requests == RequestsWith(Ids \cup {NoId, Blank})

ASSUME RequestAssumption ==
    /\ \A p \in Procs : \A r \in Sends[p] : r \in Requests
    /\ \A s \in Sizes : SizeMb(s) \in Nat \ {0}
    /\ \A t \in TemplateBodies : t \in Texts
    /\ \A n \in Pieces : n \in Nat \ {0}
    /\ Nobody \notin Procs
    /\ NoId \notin Ids \cup Procs

VARIABLES
    size,           \* MAX_DOCUMENT_SIZE_MB
    request,
    phase,          \* what p's task awaits
    id,             \* the correlation id of p; a minted one is p itself
    read,           \* bytes of the payload that are buffered
    body,           \* the content that p will store
    failed,         \* history: the database failed p
    answer,         \* the status, and the id that the response echoes
    running,        \* the task that the worker is polling
    slot,           \* CORRELATION_ID, as the running code sees it
    rows,           \* what was stored
    outbox,         \* the tasks that a transport spawned, with their event
    bus

vars == <<size, request, phase, id, read, body, failed, answer, running, slot,
          rows, outbox, bus>>

\* Zero: no answer yet.
Codes == {0, 200, 201, 204, 400, 401, 404, 413, 422, 500, 503}
Unanswered == [code |-> 0, id |-> NoId]

Ceiling == MaxDocumentBytes(size)

Init ==
    /\ size \in Sizes
    /\ request \in [Procs -> UNION {Sends[p] : p \in Procs}]
    /\ \A p \in Procs : request[p] \in Sends[p]
    /\ phase = [p \in Procs |-> "new"]
    /\ id = [p \in Procs |-> NoId]
    /\ read = [p \in Procs |-> 0]
    /\ body = [p \in Procs |-> NoText]
    /\ failed = {}
    /\ answer = [p \in Procs |-> Unanswered]
    /\ running = Nobody
    /\ slot = NoId
    /\ rows = {}
    /\ outbox = {}
    /\ bus = {}

-----------------------------------------------------------------------------
\* Broken variant: the scope is entered once, by a poll that has returned.
ResumeOnce(p) ==
    /\ running = Nobody /\ phase[p] # "answered"
    /\ running' = p
    /\ UNCHANGED <<size, request, phase, id, read, body, failed, answer, slot,
                   rows, outbox, bus>>

\* The worker polls p; scope() swaps its id in.
Resume(p) ==
    /\ running = Nobody /\ phase[p] # "answered"
    /\ running' = p
    /\ slot' = id[p]
    /\ UNCHANGED <<size, request, phase, id, read, body, failed, answer, rows,
                   outbox, bus>>

\* The end of every poll, which swaps the id out.
Suspend ==
    /\ running' = Nobody
    /\ slot' = NoId
    /\ UNCHANGED <<size, request>>

Await(p, next) == phase' = [phase EXCEPT ![p] = next]

\* correlate() echoes the id of the request whatever the answer is.
Respond(p, code) ==
    /\ Await(p, "answered")
    /\ answer' = [answer EXCEPT ![p] = [code |-> code, id |-> id[p]]]

\* Broken variant: whatever the header holds is adopted.
HeaderAsSent(p) == IF request[p].header = NoId THEN p ELSE request[p].header

\* A header that is blank, or not ASCII, counts as absent.
HeaderOrMinted(p) == IF request[p].header \in Ids THEN request[p].header ELSE p

\* correlate()
Correlate(p) ==
    /\ running = p /\ phase[p] = "new"
    /\ id' = [id EXCEPT ![p] = HeaderOrMinted(p)]
    /\ Await(p, "routed")
    /\ Suspend
    /\ UNCHANGED <<read, body, failed, answer, rows, outbox, bus>>

\* Broken variant: the body is extracted before the caller is known.
RefusalAfterTheBody(r) ==
    IF r.kind = "unrouted" THEN 404
    ELSE IF r.kind \in Written /\ ~r.media THEN 400 ELSE 0

\* What is refused before a byte of the body is read, in the order of the
\* parameters AuthUser, Path, Json; 0 when nothing is.
Refusal(r) ==
    IF r.kind = "unrouted" THEN 404
    ELSE IF r.kind \in Open THEN 0
    ELSE IF r.token # "valid" THEN 401
    ELSE IF ~r.path THEN 404
    ELSE IF r.kind \notin Written THEN 0
    ELSE IF ~r.media THEN 400
    ELSE IF r.declared /\ WireSize(r) > PayloadCeiling(Ceiling) THEN 413 ELSE 0

Dispatch(p) ==
    LET r == request[p] IN
    /\ running = p /\ phase[p] = "routed"
    /\ IF Refusal(r) # 0 THEN Respond(p, Refusal(r))
       ELSE IF r.kind = "health" THEN Respond(p, 200)
       ELSE /\ Await(p, IF r.kind = "ready" THEN "pinging"
                        ELSE IF r.kind \in Written THEN "reading" ELSE "storing")
            /\ UNCHANGED answer
    /\ Suspend
    /\ UNCHANGED <<id, read, body, failed, rows, outbox, bus>>

\* Json: one more piece of the body, which is buffered unless it would pass
\* the ceiling.
ReadPiece(p) ==
    LET rest == WireSize(request[p]) - read[p] IN
    /\ running = p /\ phase[p] = "reading" /\ rest > 0
    /\ \E n \in Pieces \cup {rest} :
        /\ n <= rest
        /\ IF read[p] + n > PayloadCeiling(Ceiling)
           THEN Respond(p, 413) /\ UNCHANGED read
           ELSE /\ read' = [read EXCEPT ![p] = read[p] + n]
                /\ UNCHANGED <<phase, answer>>
    /\ Suspend
    /\ UNCHANGED <<id, body, failed, rows, outbox, bus>>

\* The body is complete: it is parsed and checked.
Admit(p) ==
    LET r == request[p]
        verdict == Verdict(r, Ceiling)
    IN
    /\ running = p /\ phase[p] = "reading" /\ read[p] = WireSize(r)
    /\ \/ Malformed(r) /\ Respond(p, 400) /\ UNCHANGED body
       \/ /\ ~Malformed(r) /\ verdict \in {"invalid", "bad"}
          /\ Respond(p, Code(verdict))
          /\ UNCHANGED body
       \/ /\ ~Malformed(r) /\ verdict = "template"
          /\ Await(p, "templating")
          /\ UNCHANGED <<answer, body>>
       \/ /\ ~Malformed(r) /\ verdict = "sound"
          /\ Await(p, "storing")
          /\ body' = [body EXCEPT ![p] = r.content]
          /\ UNCHANGED answer
    /\ Suspend
    /\ UNCHANGED <<id, read, failed, rows, outbox, bus>>

\* The database fails a query of p: 500, and 503 for /ready.
Fail(p) ==
    /\ running = p /\ phase[p] \in {"templating", "pinging", "storing"}
    /\ "database" \in Faults
    /\ failed' = failed \cup {p}
    /\ Respond(p, IF phase[p] = "pinging" THEN 503 ELSE 500)
    /\ Suspend
    /\ UNCHANGED <<id, read, body, rows, outbox, bus>>

\* ready()
Ping(p) ==
    /\ running = p /\ phase[p] = "pinging"
    /\ Respond(p, 200)
    /\ Suspend
    /\ UNCHANGED <<id, read, body, failed, rows, outbox, bus>>

\* get_template, and the bound on the body it gives.
Fetch(p) ==
    /\ running = p /\ phase[p] = "templating"
    /\ \/ Respond(p, 404) /\ UNCHANGED body
       \/ \E t \in TemplateBodies :
            IF ContentFits(t, Ceiling)
            THEN /\ Await(p, "storing")
                 /\ body' = [body EXCEPT ![p] = t]
                 /\ UNCHANGED answer
            ELSE Respond(p, 422) /\ UNCHANGED body
    /\ Suspend
    /\ UNCHANGED <<id, read, failed, rows, outbox, bus>>

-----------------------------------------------------------------------------
\* PostgreSQL refuses a NUL, and a title or a comment longer than its column:
\* a text it was sent without being checked is a database error, that is a 500.
HasNul(r) == r.title.nul + r.content.nul + r.comment.nul > 0 \/ r.metadata.nul

\* VARCHAR(500) of editor.documents, and of editor.document_versions.
TitleColumn(r) == Chars(StoredTitle(r.title)) <= MaxTitle
CommentColumn(r) == Chars(r.comment) <= MaxTitle

Storable(p) ==
    ~HasNul(request[p]) /\ TitleColumn(request[p]) /\ CommentColumn(request[p])

Row(p) == [title    |-> StoredTitle(request[p].title), content |-> body[p],
           comment  |-> request[p].comment,
           metadata |-> request[p].metadata]

\* Whether the service announces what r did.
Announces(r) == r.kind # "look" /\ (r.kind = "update" => r.gives # {})

\* DocumentService::publish stamps the event with current().
Event(p) == [of |-> p, id |-> slot]

\* The store answers.  Whether the document exists is not the request's to
\* say.
Store(p) ==
    LET r == request[p] IN
    /\ running = p /\ phase[p] = "storing"
    /\ \/ r.kind # "create" /\ Respond(p, 404) /\ UNCHANGED <<rows, outbox>>
       \/ ~Storable(p) /\ Respond(p, 500) /\ UNCHANGED <<rows, outbox>>
       \/ /\ Storable(p)
          /\ Respond(p, IF r.kind \in {"create", "snapshot"} THEN 201
                        ELSE IF r.kind = "delete" THEN 204 ELSE 200)
          /\ rows' = IF r.kind \in Written THEN rows \cup {Row(p)} ELSE rows
          /\ outbox' = IF Announces(r) THEN outbox \cup {Event(p)} ELSE outbox
    /\ Suspend
    /\ UNCHANGED <<id, read, body, failed, bus>>

\* Broken variant: the spawned task reads the id where it runs.
DeliverStamping(e) ==
    /\ running = Nobody /\ e \in outbox
    /\ outbox' = outbox \ {e}
    /\ bus' = bus \cup {[e EXCEPT !.id = slot]}
    /\ UNCHANGED <<size, request, phase, id, read, body, failed, answer, running,
                   slot, rows>>

\* A spawned task runs on its own, outside every scope.
Deliver(e) ==
    /\ running = Nobody /\ e \in outbox
    /\ outbox' = outbox \ {e}
    /\ bus' = bus \cup {e}
    /\ UNCHANGED <<size, request, phase, id, read, body, failed, answer, running,
                   slot, rows>>

\* Every request is answered and every event is out.
Idle ==
    /\ \A p \in Procs : phase[p] = "answered"
    /\ outbox = {}
    /\ UNCHANGED vars

Poll(p) ==
    \/ Resume(p) \/ Correlate(p) \/ Dispatch(p) \/ ReadPiece(p) \/ Admit(p)
    \/ Fail(p) \/ Ping(p) \/ Fetch(p) \/ Store(p)

Next == (\E p \in Procs : Poll(p)) \/ (\E e \in outbox : Deliver(e)) \/ Idle

Spec == Init /\ [][Next]_vars

-----------------------------------------------------------------------------
Phases == {"new", "routed", "reading", "templating", "pinging", "storing",
           "answered"}

EventSet == [of: Procs, id: Ids \cup Procs \cup {NoId}]

TypeOK ==
    /\ size \in Sizes
    /\ \A p \in Procs : request[p] \in Sends[p]
    /\ phase \in [Procs -> Phases]
    /\ id \in [Procs -> Ids \cup Procs \cup {NoId}]
    /\ read \in [Procs -> Nat]
    /\ body \in [Procs -> Texts]
    /\ failed \subseteq Procs
    /\ answer \in [Procs -> [code: Codes, id: Ids \cup Procs \cup {NoId}]]
    /\ running \in Procs \cup {Nobody}
    /\ slot \in Ids \cup Procs \cup {NoId}
    /\ outbox \subseteq EventSet /\ bus \subseteq EventSet

\* The id that the client sent, or else one of p's own.
Adopted(p) == IF request[p].header \in Ids THEN request[p].header ELSE p

\* middleware.rs, "the caller can only join its own logs to ours if it learns
\* which id we used": a response and every event carry the id of the request
\* that caused them, whichever requests the worker served in between, and
\* however late the transport's task runs.
EventsCarryTheirRequest ==
    /\ \A e \in outbox \cup bus : e.id = Adopted(e.of)
    /\ \A p \in Procs : answer[p].code # 0 => answer[p].id = Adopted(p)

\* A request that the contract promises to take: a body that the operator's
\* setting allows, and an envelope within its bounds.
Promised(p) ==
    LET r == request[p] IN
    /\ r.kind \in Written /\ r.token = "valid" /\ r.path /\ r.media
    /\ ~Malformed(r) /\ "template" \notin r.gives
    /\ Bytes(r.content) <= SizeMb(size) * BytesPerMb
    /\ Chars(r.title) <= MaxTitle
    /\ r.kind = "create" \/ Gives(r, "title") => Chars(Trimmed(r.title)) > 0
    /\ Gives(r, "metadata") => MetadataFits(r.metadata)
    /\ Chars(r.comment) <= MaxTitle
    /\ WireSize(r) <= MaxUsize

\* One that payload.rs reckons with: text without control characters, written
\* with no escape but those that JSON demands.
Sound(p) ==
    /\ Promised(p)
    /\ request[p].encoding = "minimal"
    /\ request[p].content.control = 0 /\ request[p].content.nul = 0

\* payload_ceiling, "the worst case of JSON string escaping for text": written
\* with the escapes that JSON demands, no document of text that fits
\* MAX_DOCUMENT_SIZE_MB is refused for its size, all of it quotes and with the
\* largest envelope, and however large the operator's number is: what a sound
\* request is answered, the store answers.
TextIsCarryable ==
    \A p \in Procs : Sound(p) => answer[p].code \in {0, 200, 201, 404, 500}

\* openapi.yaml, "a body of exactly the maximum is accepted whatever JSON
\* escaping does to its size": no promised request is refused as too long to
\* read, in any encoding that JSON has.
DocumentsAreCarryable == \A p \in Procs : Promised(p) => answer[p].code # 413

\* text.rs, "a 500 for the caller": the checks leave nothing for the database
\* to refuse but a NUL, so that no other request is answered 500 while the
\* database works.
OnlyTheDatabaseFails ==
    \A p \in Procs : answer[p].code = 500 => p \in failed \/ HasNul(request[p])

\* Whatever way a value came in (a body, a template, an update), what is
\* stored is within the bounds: "a limit at depth 1 is not a limit".
RowsKeepTheirBounds ==
    \A row \in rows :
        /\ Bytes(row.content) <= Ceiling
        /\ Chars(row.title) <= MaxTitle /\ Chars(row.comment) <= MaxTitle
        /\ row.metadata.bytes <= MaxMetadataBytes
        /\ row.metadata.keys <= MaxMetadataKeys
        /\ row.metadata.longest <= MaxMetadataValue
        /\ row.metadata.deepest <= MaxMetadataValue

\* No byte of a body is buffered for a caller without a valid token, nor for
\* a route that does not exist, and never more than the ceiling.
StrangersAreNotRead ==
    \A p \in Procs : read[p] > 0 =>
        /\ request[p].token = "valid" /\ request[p].path
        /\ request[p].kind \in Written
        /\ read[p] <= PayloadCeiling(Ceiling)
=============================================================================
