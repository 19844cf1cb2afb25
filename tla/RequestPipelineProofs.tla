------------------------ MODULE RequestPipelineProofs ------------------------
(* That the bounds of a request fit together, for any ceiling, any          *)
(* operator's setting and any number of requests, and that each event       *)
(* carries the correlation id of the request that caused it.                *)
EXTENDS RequestPipeline, TLAPS

-----------------------------------------------------------------------------
(* The bounds.                                                              *)

LEMMA TextSizes ==
    ASSUME NEW t \in Texts
    PROVE  /\ Chars(t) \in Nat /\ Bytes(t) \in Nat
           /\ Trimmed(t) \in Texts /\ Chars(Trimmed(t)) <= Chars(t)
BY DEF Texts, Chars, Bytes, Trimmed

\* However it is written, a text costs no more than six bytes a character and
\* no less than it holds; with no escape but those demanded, a text without
\* control characters costs no more than twice what it holds.
LEMMA WireSizes ==
    ASSUME NEW t \in Texts, NEW e \in Encodings
    PROVE  /\ Wire(t, e) \in Nat
           /\ Wire(t, e) <= 6 * Chars(t)
           /\ Bytes(t) <= Wire(t, e)
           /\ e = "minimal" /\ t.control = 0 /\ t.nul = 0 => Wire(t, e) <= 2 * Bytes(t)
<1>1. CASE e = "minimal"
  BY <1>1 DEF Texts, Chars, Bytes, Wire
<1>2. CASE e = "ascii"
  BY <1>2 DEF Texts, Chars, Bytes, Wire
<1>3. CASE e = "escaped"
  BY <1>3 DEF Texts, Chars, Bytes, Wire
<1> QED BY <1>1, <1>2, <1>3 DEF Encodings

LEMMA NoTextIsText ==
    /\ NoText \in Texts /\ Chars(NoText) = 0 /\ Bytes(NoText) = 0
    /\ Chars(Trimmed(NoText)) = 0 /\ NoText.nul = 0
    /\ \A e \in Encodings : Wire(NoText, e) = 0
<1>1. /\ NoText \in Texts /\ Chars(NoText) = 0 /\ Bytes(NoText) = 0
      /\ Chars(Trimmed(NoText)) = 0 /\ NoText.nul = 0
  BY DEF NoText, Texts, Chars, Bytes, Trimmed
<1>2. ASSUME NEW e \in Encodings PROVE Wire(NoText, e) = 0
  BY <1>1, WireSizes
<1> QED BY <1>1, <1>2

LEMMA NoMetadataFits == NoMetadata \in Metadata /\ MetadataFits(NoMetadata)
BY AdmissionAssumption DEF NoMetadata, Metadata, MetadataFits

LEMMA CeilingIsNat ==
    ASSUME NEW s \in Sizes
    PROVE  /\ SizeMb(s) * BytesPerMb \in Nat
           /\ MaxDocumentBytes(s) \in Nat
           /\ MaxDocumentBytes(s) = IF SizeMb(s) * BytesPerMb > MaxUsize
                                    THEN MaxUsize ELSE SizeMb(s) * BytesPerMb
<1>1. SizeMb(s) \in Nat /\ BytesPerMb \in Nat /\ MaxUsize \in Nat
  BY RequestAssumption, ConfigurationAssumption
<1>2. SizeMb(s) * BytesPerMb \in Nat
  BY <1>1
<1> QED BY <1>1, <1>2 DEF MaxDocumentBytes, Saturated

\* The least room that a payload has: the saturation leaves it no smaller
\* than a usize, or than what the body and the envelope take.
LEMMA PayloadRoom ==
    ASSUME NEW c \in Nat, c <= MaxUsize
    PROVE  /\ PayloadCeiling(c) \in Nat
           /\ PayloadCeiling(c) = MaxUsize \/ PayloadCeiling(c) >= 2 * c + Allowance
           /\ PayloadCeiling(c) <= MaxUsize
BY AdmissionAssumption, ConfigurationAssumption DEF PayloadCeiling, Saturated

LEMMA RequestTypes ==
    ASSUME NEW r \in Requests
    PROVE  /\ r.title \in Texts /\ r.content \in Texts /\ r.comment \in Texts
           /\ r.metadata \in Metadata /\ r.metadata.bytes \in Nat
           /\ r.kind \in Kinds /\ r.header \in Ids \cup {NoId, Blank}
           /\ r.encoding \in Encodings
           /\ WireSize(r) \in Nat
<1>1. /\ r.title \in Texts /\ r.content \in Texts /\ r.comment \in Texts
      /\ r.metadata \in Metadata /\ r.encoding \in Encodings
      /\ r.kind \in Kinds /\ r.header \in Ids \cup {NoId, Blank}
  BY DEF Requests, RequestsWith
<1>2. r.metadata.bytes \in Nat
  BY <1>1 DEF Metadata
<1>3. /\ Wire(r.title, r.encoding) \in Nat /\ Wire(r.content, r.encoding) \in Nat
      /\ Wire(r.comment, r.encoding) \in Nat
  BY <1>1, WireSizes
<1> QED BY <1>1, <1>2, <1>3, AdmissionAssumption DEF WireSize

\* The envelope: everything of a request but its content.
Envelope == 6 * MaxTitle + MaxMetadataBytes + Punctuation

LEMMA EnvelopeBounds ==
    ASSUME NEW r \in Requests, r.kind \in Written,
           Chars(r.title) <= MaxTitle, Chars(r.comment) <= MaxTitle,
           Gives(r, "metadata") => MetadataFits(r.metadata)
    PROVE  WireSize(r) <= Wire(r.content, r.encoding) + Envelope
<1>1. Wire(r.title, r.encoding) + Wire(r.comment, r.encoding) <= 6 * MaxTitle
  <2>1. r.title = NoText \/ r.comment = NoText
    BY DEF Requests, RequestsWith, Fields, Gives, Written
  <2>2. /\ Wire(r.title, r.encoding) <= 6 * Chars(r.title)
        /\ Wire(r.comment, r.encoding) <= 6 * Chars(r.comment)
        /\ Chars(r.title) \in Nat /\ Chars(r.comment) \in Nat
        /\ Wire(r.title, r.encoding) \in Nat /\ Wire(r.comment, r.encoding) \in Nat
    BY RequestTypes, TextSizes, WireSizes
  <2>3. Wire(NoText, r.encoding) = 0
    BY RequestTypes, NoTextIsText
  <2> QED BY <2>1, <2>2, <2>3, AdmissionAssumption
<1>2. (IF Gives(r, "metadata") THEN r.metadata.bytes ELSE 0) <= MaxMetadataBytes
  BY AdmissionAssumption DEF MetadataFits
<1>3. /\ Wire(r.title, r.encoding) \in Nat /\ Wire(r.content, r.encoding) \in Nat
      /\ Wire(r.comment, r.encoding) \in Nat /\ r.metadata.bytes \in Nat
  BY RequestTypes, WireSizes
<1> QED BY <1>1, <1>2, <1>3, AdmissionAssumption DEF WireSize, Envelope

\* A sound request passes each of the checks on its way to the store.
LEMMA SoundIsAdmitted ==
    ASSUME NEW p \in Procs, request[p] \in Requests, size \in Sizes, Sound(p)
    PROVE  /\ Refusal(request[p]) = 0
           /\ WireSize(request[p]) <= PayloadCeiling(Ceiling)
           /\ Verdict(request[p], Ceiling) = "sound"
           /\ request[p].kind \in Written /\ ~Malformed(request[p])
<1> DEFINE r == request[p]
<1>1. /\ r.kind \in Written /\ r.token = "valid" /\ r.path /\ r.media
      /\ ~Malformed(r) /\ "template" \notin r.gives
      /\ Bytes(r.content) <= SizeMb(size) * BytesPerMb
      /\ r.encoding = "minimal" /\ r.content.control = 0 /\ r.content.nul = 0
      /\ Chars(r.title) <= MaxTitle /\ Chars(r.comment) <= MaxTitle
      /\ r.kind = "create" \/ Gives(r, "title") => Chars(Trimmed(r.title)) > 0
      /\ Gives(r, "metadata") => MetadataFits(r.metadata)
      /\ WireSize(r) <= MaxUsize
  BY DEF Sound, Promised
<1>2. /\ Ceiling \in Nat /\ Ceiling <= MaxUsize
      /\ SizeMb(size) * BytesPerMb \in Nat
      /\ Ceiling = MaxUsize \/ Ceiling = SizeMb(size) * BytesPerMb
  BY CeilingIsNat, ConfigurationAssumption DEF Ceiling
<1>3. /\ Bytes(r.content) \in Nat /\ Wire(r.content, r.encoding) <= 2 * Bytes(r.content)
      /\ Bytes(r.content) <= Wire(r.content, r.encoding)
      /\ Wire(r.content, r.encoding) \in Nat /\ WireSize(r) \in Nat
  BY <1>1, RequestTypes, TextSizes, WireSizes
<1>4. Wire(r.content, r.encoding) <= WireSize(r)
  <2>1. /\ Wire(r.title, r.encoding) \in Nat /\ Wire(r.comment, r.encoding) \in Nat
        /\ r.metadata.bytes \in Nat
    BY RequestTypes, WireSizes
  <2> QED BY <2>1, <1>3, AdmissionAssumption DEF WireSize
<1>5. Bytes(r.content) <= Ceiling
  BY <1>1, <1>2, <1>3, <1>4, ConfigurationAssumption
<1>6. WireSize(r) <= PayloadCeiling(Ceiling)
  <2>1. WireSize(r) <= 2 * Ceiling + Envelope
    BY <1>1, <1>2, <1>3, <1>5, EnvelopeBounds, AdmissionAssumption DEF Envelope
  <2> QED BY <2>1, <1>1, <1>2, <1>3, PayloadRoom, AdmissionAssumption,
             ConfigurationAssumption DEF Envelope
<1>7. Refusal(r) = 0
  <2>1. PayloadCeiling(Ceiling) \in Nat
    BY <1>2, PayloadRoom
  <2> QED BY <2>1, <1>1, <1>3, <1>6 DEF Refusal, Written, Open
<1>8. TitleFits(r.title) \/ (r.kind # "create" /\ ~Gives(r, "title"))
  <2>1. Chars(Trimmed(r.title)) \in Nat /\ Chars(Trimmed(r.title)) <= Chars(r.title)
        /\ Chars(r.title) \in Nat
    BY RequestTypes, TextSizes
  <2> QED BY <2>1, <1>1, AdmissionAssumption DEF TitleFits
<1>9. Verdict(r, Ceiling) = "sound"
  <2>1. CASE r.kind = "create"
    BY <2>1, <1>1, <1>5, <1>8 DEF Verdict, CreateVerdict, ContentFits, Gives
  <2>2. CASE r.kind = "update"
    BY <2>2, <1>1, <1>5, <1>8 DEF Verdict, UpdateVerdict, ContentFits, Gives
  <2>3. CASE r.kind = "snapshot"
    BY <2>3, <1>1 DEF Verdict, CommentFits
  <2> QED BY <2>1, <2>2, <2>3, <1>1 DEF Written
<1> QED BY <1>1, <1>6, <1>7, <1>9

\* What is within the bounds of the columns.
WithinBounds(r) ==
    /\ Chars(StoredTitle(r.title)) <= MaxTitle /\ Chars(r.comment) <= MaxTitle
    /\ r.metadata.bytes <= MaxMetadataBytes
    /\ r.metadata.keys <= MaxMetadataKeys
    /\ r.metadata.longest <= MaxMetadataValue
    /\ r.metadata.deepest <= MaxMetadataValue

\* What passes the checks is within them, and so is what gives nothing.
LEMMA AdmittedIsWithinBounds ==
    ASSUME NEW r \in Requests, NEW c \in Nat,
           r.kind \in Written => Verdict(r, c) \in {"sound", "template"}
    PROVE  /\ WithinBounds(r)
           /\ r.kind \in Written /\ Verdict(r, c) = "template" => r.kind = "create"
           /\ r.kind \in Written /\ Verdict(r, c) = "sound" => Bytes(r.content) <= c
<1>1. ~Gives(r, "title") => r.title = NoText
  BY DEF Requests, RequestsWith
<1>2. ~Gives(r, "comment") => r.comment = NoText
  BY DEF Requests, RequestsWith
<1>3. ~Gives(r, "metadata") => r.metadata = NoMetadata
  BY DEF Requests, RequestsWith
<1>4. ~Gives(r, "content") => r.content = NoText
  BY DEF Requests, RequestsWith
<1>5. r.gives \subseteq Fields(r.kind) /\ r.kind \in Kinds
  BY DEF Requests, RequestsWith
<1>6. /\ Chars(Trimmed(NoText)) <= MaxTitle /\ Chars(NoText) <= MaxTitle
      /\ Bytes(NoText) <= c /\ MetadataFits(NoMetadata)
  BY NoTextIsText, NoMetadataFits, AdmissionAssumption
<1>7. Chars(Trimmed(r.title)) \in Nat
  BY RequestTypes, TextSizes
<1>8. TitleFits(r.title) => Chars(Trimmed(r.title)) <= MaxTitle
  BY <1>7, AdmissionAssumption DEF TitleFits
<1>9. MetadataFits(r.metadata) /\ Chars(Trimmed(r.title)) <= MaxTitle
      /\ Chars(r.comment) <= MaxTitle => WithinBounds(r)
  BY DEF WithinBounds, MetadataFits, StoredTitle
<1>10. CASE r.kind = "create"
  <2>1. ~Gives(r, "comment")
    BY <1>5, <1>10 DEF Fields, Gives
  <2>3. Verdict(r, c) = CreateVerdict(r, c) /\ Verdict(r, c) \in {"sound", "template"}
    BY <1>10 DEF Verdict, Written
  <2>4. /\ Gives(r, "metadata") => MetadataFits(r.metadata)
        /\ TitleFits(r.title)
        /\ Verdict(r, c) = "sound" => ContentFits(r.content, c)
    BY <2>3 DEF CreateVerdict
  <2>2. /\ MetadataFits(r.metadata) /\ TitleFits(r.title)
        /\ Verdict(r, c) = "sound" => ContentFits(r.content, c)
    BY <1>3, <1>6, <2>4
  <2> QED BY <1>2, <1>6, <1>8, <1>9, <1>10, <2>1, <2>2 DEF ContentFits
<1>11. CASE r.kind = "update"
  <2>1. ~Gives(r, "comment")
    BY <1>5, <1>11 DEF Fields, Gives
  <2>2. Verdict(r, c) = "sound"
    BY <1>11 DEF Verdict, UpdateVerdict, Written
  <2>3. /\ Gives(r, "title") => TitleFits(r.title)
        /\ Gives(r, "metadata") => MetadataFits(r.metadata)
        /\ Gives(r, "content") => ContentFits(r.content, c)
    BY <2>2, <1>11 DEF Verdict, UpdateVerdict
  <2> QED BY <1>1, <1>2, <1>3, <1>4, <1>6, <1>8, <1>9, <2>1, <2>2, <2>3 DEF ContentFits
<1>12. CASE r.kind = "snapshot"
  <2>1. ~Gives(r, "title") /\ ~Gives(r, "metadata") /\ ~Gives(r, "content")
    BY <1>5, <1>12 DEF Fields, Gives
  <2>2. Verdict(r, c) = "sound" /\ CommentFits(r.comment)
    BY <1>12 DEF Verdict, Written
  <2> QED BY <1>1, <1>3, <1>4, <1>6, <1>9, <2>1, <2>2 DEF CommentFits
<1>13. CASE r.kind \notin Written
  <2>1. r.gives = {}
    BY <1>5, <1>13 DEF Fields, Written, Kinds, Open
  <2> QED BY <1>1, <1>2, <1>3, <1>6, <1>9, <1>13, <2>1 DEF Gives
<1> QED BY <1>10, <1>11, <1>12, <1>13 DEF Written

-----------------------------------------------------------------------------
(* The way of a request.                                                    *)

\* What holds of p wherever it is.
Journey(p) ==
    /\ phase[p] # "new" => id[p] = Adopted(p)
    /\ answer[p].code # 0 => answer[p].id = Adopted(p)
    /\ phase[p] \in {"new", "routed"} => body[p] = NoText
    /\ phase[p] = "reading" => /\ request[p].kind \in Written
                              /\ request[p].token = "valid" /\ request[p].path
    /\ phase[p] = "templating" => request[p].kind = "create"
    /\ phase[p] \in {"templating", "storing"} => WithinBounds(request[p])
    /\ phase[p] = "storing" => Bytes(body[p]) <= Ceiling
    /\ read[p] > 0 => /\ request[p].kind \in Written
                      /\ request[p].token = "valid" /\ request[p].path
                      /\ read[p] <= PayloadCeiling(Ceiling)
    /\ Sound(p) => /\ phase[p] \notin {"templating", "pinging"}
                   /\ answer[p].code \in {0, 200, 201, 404, 500}
    /\ answer[p].code = 500 => p \in failed \/ HasNul(request[p])

\* The worker runs p with p's own id.
InScope == running # Nobody => slot = id[running]

EventsTrue == \A e \in outbox \cup bus : e.id = Adopted(e.of)

Inv ==
    /\ TypeOK
    /\ \A p \in Procs : Journey(p)
    /\ InScope
    /\ EventsTrue
    /\ RowsKeepTheirBounds

LEMMA Typed ==
    ASSUME TypeOK, NEW p \in Procs
    PROVE  /\ request[p] \in Requests /\ size \in Sizes
           /\ Ceiling \in Nat /\ Ceiling <= MaxUsize
           /\ PayloadCeiling(Ceiling) \in Nat
           /\ WireSize(request[p]) \in Nat
<1>1. request[p] \in Requests /\ size \in Sizes
  BY RequestAssumption DEF TypeOK
<1>2. Ceiling \in Nat /\ Ceiling <= MaxUsize
  BY <1>1, CeilingIsNat, ConfigurationAssumption DEF Ceiling
<1> QED BY <1>1, <1>2, PayloadRoom, RequestTypes

LEMMA InvAtFirst == Init => Inv
<1> SUFFICES ASSUME Init PROVE Inv
  OBVIOUS
<1>1. TypeOK
  <2>1. body \in [Procs -> Texts]
    BY NoTextIsText DEF Init
  <2> QED BY <2>1 DEF Init, TypeOK, Unanswered, Phases, Codes, EventSet
<1>2. ASSUME NEW p \in Procs PROVE Journey(p)
  BY DEF Init, Journey, Unanswered
<1>3. InScope /\ EventsTrue /\ RowsKeepTheirBounds
  BY DEF Init, InScope, EventsTrue, RowsKeepTheirBounds
<1> QED BY <1>1, <1>2, <1>3 DEF Inv

\* What others see of p.
At(p) == <<phase[p], id[p], read[p], body[p], answer[p]>>

LEMMA OthersUnmoved ==
    ASSUME TypeOK, NEW p \in Procs, Poll(p), NEW q \in Procs, q # p
    PROVE  At(q)' = At(q)
<1> USE DEF At, TypeOK
<1>1. CASE Resume(p) BY <1>1 DEF Resume
<1>2. CASE Correlate(p) BY <1>2 DEF Correlate, Await
<1>3. CASE Dispatch(p) BY <1>3 DEF Dispatch, Await, Respond
<1>4. CASE ReadPiece(p) BY <1>4 DEF ReadPiece, Await, Respond
<1>5. CASE Admit(p) BY <1>5 DEF Admit, Await, Respond
<1>6. CASE Fail(p) BY <1>6 DEF Fail, Await, Respond
<1>7. CASE Ping(p) BY <1>7 DEF Ping, Await, Respond
<1>8. CASE Fetch(p) BY <1>8 DEF Fetch, Await, Respond
<1>9. CASE Store(p) BY <1>9 DEF Store, Await, Respond
<1> QED BY <1>1, <1>2, <1>3, <1>4, <1>5, <1>6, <1>7, <1>8, <1>9 DEF Poll

LEMMA StepsKeep ==
    ASSUME NEW p \in Procs, Poll(p)
    PROVE  UNCHANGED <<size, request, bus>> /\ failed \subseteq failed'
BY DEF Poll, Resume, Correlate, Dispatch, ReadPiece, Admit, Fail, Ping, Fetch, Store,
       Suspend

LEMMA JourneyUnmoved ==
    ASSUME NEW q \in Procs, Journey(q), At(q)' = At(q),
           UNCHANGED <<size, request>>, failed \subseteq failed'
    PROVE  Journey(q)'
<1>1. /\ phase'[q] = phase[q] /\ id'[q] = id[q] /\ read'[q] = read[q]
      /\ body'[q] = body[q] /\ answer'[q] = answer[q] /\ request' = request
      /\ size' = size
  BY DEF At
<1>2. /\ Adopted(q)' = Adopted(q) /\ Ceiling' = Ceiling
      /\ WithinBounds(request[q])' = WithinBounds(request[q])
      /\ HasNul(request[q])' = HasNul(request[q])
      /\ Sound(q)' = Sound(q)
      /\ PayloadCeiling(Ceiling)' = PayloadCeiling(Ceiling)
      /\ Bytes(body[q])' = Bytes(body[q])
  BY <1>1 DEF Adopted, Ceiling, WithinBounds, HasNul, Sound, Promised
<1> QED BY <1>1, <1>2 DEF Journey

-----------------------------------------------------------------------------
(* Each poll keeps the types, and what holds of its own request.            *)

LEMMA PollKeepsTypes ==
    ASSUME TypeOK, NEW p \in Procs, Poll(p)
    PROVE  TypeOK'
<1>1. /\ request[p] \in Requests /\ request[p].content \in Texts
      /\ request[p].header \in Ids \cup {NoId, Blank}
  BY Typed, RequestTypes
<1>2. id[p] \in Ids \cup Procs \cup {NoId}
  BY DEF TypeOK
<1>3. size' = size /\ request' = request /\ bus' = bus
  BY StepsKeep
<1>4. CASE Resume(p)
  BY <1>2, <1>3, <1>4 DEF TypeOK, Resume
<1>5. CASE Correlate(p)
  <2>1. HeaderOrMinted(p) \in Ids \cup Procs \cup {NoId}
    BY DEF HeaderOrMinted
  <2> QED BY <1>3, <1>5, <2>1 DEF TypeOK, Correlate, Await, Suspend, Phases
<1>6. CASE Dispatch(p)
  <2>1. Refusal(request[p]) \in Codes
    BY DEF Refusal, Codes
  <2> QED BY <1>2, <1>3, <1>6, <2>1
          DEF TypeOK, Dispatch, Await, Respond, Suspend, Phases, Codes
<1>7. CASE ReadPiece(p)
  <2>1. PICK n \in Pieces \cup {WireSize(request[p]) - read[p]} :
          IF read[p] + n > PayloadCeiling(Ceiling)
          THEN Respond(p, 413) /\ UNCHANGED read
          ELSE read' = [read EXCEPT ![p] = read[p] + n] /\ UNCHANGED <<phase, answer>>
    BY <1>7 DEF ReadPiece
  <2>2. n \in Nat /\ read[p] \in Nat
    BY <1>7, <2>1, Typed, RequestAssumption DEF ReadPiece, TypeOK
  <2>3. read' \in [Procs -> Nat]
    BY <2>1, <2>2 DEF TypeOK
  <2> QED BY <1>2, <1>3, <1>7, <2>1, <2>3
          DEF TypeOK, ReadPiece, Await, Respond, Suspend, Phases, Codes
<1>8. CASE Admit(p)
  BY <1>1, <1>2, <1>3, <1>8 DEF TypeOK, Admit, Await, Respond, Suspend, Phases, Codes, Code
<1>9. CASE Fail(p)
  BY <1>2, <1>3, <1>9 DEF TypeOK, Fail, Await, Respond, Suspend, Phases, Codes
<1>10. CASE Ping(p)
  BY <1>2, <1>3, <1>10 DEF TypeOK, Ping, Await, Respond, Suspend, Phases, Codes
<1>11. CASE Fetch(p)
  <2>1. body' \in [Procs -> Texts]
    BY <1>11, RequestAssumption DEF TypeOK, Fetch
  <2>2. phase' \in [Procs -> Phases]
    BY <1>11 DEF TypeOK, Fetch, Respond, Await, Phases
  <2>3. answer' \in [Procs -> [code: Codes, id: Ids \cup Procs \cup {NoId}]]
    BY <1>2, <1>11 DEF TypeOK, Fetch, Respond, Codes
  <2> QED BY <1>3, <1>11, <2>1, <2>2, <2>3 DEF TypeOK, Fetch, Suspend
<1>12. CASE Store(p)
  <2>1. outbox' \subseteq EventSet
    BY <1>12 DEF TypeOK, Store, Event, EventSet
  <2>2. phase' \in [Procs -> Phases]
    BY <1>12 DEF TypeOK, Store, Respond, Await, Phases
  <2>3. answer' \in [Procs -> [code: Codes, id: Ids \cup Procs \cup {NoId}]]
    BY <1>2, <1>12 DEF TypeOK, Store, Respond, Codes
  <2> QED BY <1>3, <1>12, <2>1, <2>2, <2>3 DEF TypeOK, Store, Suspend
<1> QED BY <1>4, <1>5, <1>6, <1>7, <1>8, <1>9, <1>10, <1>11, <1>12 DEF Poll

\* What Journey says of p is about its own fields, the rest being unchanged.
LEMMA Constants ==
    ASSUME NEW p \in Procs, UNCHANGED <<size, request>>
    PROVE  /\ Ceiling' = Ceiling /\ Adopted(p)' = Adopted(p)
           /\ PayloadCeiling(Ceiling)' = PayloadCeiling(Ceiling)
           /\ Sound(p)' = Sound(p)
BY DEF Ceiling, Adopted, Sound, Promised

LEMMA PollKeepsJourney ==
    ASSUME Inv, NEW p \in Procs, Poll(p)
    PROVE  Journey(p)'
<1>1. size' = size /\ request' = request /\ failed \subseteq failed'
  BY StepsKeep
<1>2. /\ Ceiling' = Ceiling /\ Adopted(p)' = Adopted(p)
      /\ PayloadCeiling(Ceiling)' = PayloadCeiling(Ceiling)
      /\ Sound(p)' = Sound(p)
  BY <1>1, Constants
<1>3. TypeOK /\ Journey(p)
  BY DEF Inv
<1>4. request[p] \in Requests /\ Ceiling \in Nat /\ PayloadCeiling(Ceiling) \in Nat
      /\ WireSize(request[p]) \in Nat
  BY <1>3, Typed
<1>5. Sound(p) => /\ Refusal(request[p]) = 0
                  /\ WireSize(request[p]) <= PayloadCeiling(Ceiling)
                  /\ Verdict(request[p], Ceiling) = "sound"
                  /\ request[p].kind \in Written /\ ~Malformed(request[p])
  BY <1>3, <1>4, SoundIsAdmitted, Typed
<1>6. CASE Resume(p)
  <2>1. At(p)' = At(p)
    BY <1>6 DEF Resume, At
  <2> QED BY <1>1, <1>3, <2>1, JourneyUnmoved
<1>7. CASE Correlate(p)
  <2>1. id'[p] = Adopted(p)
    BY <1>3, <1>7 DEF Correlate, HeaderOrMinted, Adopted, TypeOK
  <2>2. /\ phase'[p] = "routed" /\ body' = body /\ read' = read /\ answer' = answer
        /\ phase[p] = "new" /\ failed' = failed
    BY <1>3, <1>7 DEF Correlate, Await, TypeOK
  <2> QED BY <1>1, <1>2, <1>3, <2>1, <2>2 DEF Journey
<1>8. CASE Dispatch(p)
  <2>1. /\ phase[p] = "routed" /\ body' = body /\ read' = read /\ id' = id
        /\ failed' = failed
    BY <1>8 DEF Dispatch
  <2>2. CASE Refusal(request[p]) # 0
    <3>1. phase'[p] = "answered"
          /\ answer'[p] = [code |-> Refusal(request[p]), id |-> id[p]]
      BY <1>3, <1>8, <2>2 DEF Dispatch, Respond, Await, TypeOK
    <3>2. Refusal(request[p]) # 500
      BY DEF Refusal
    <3> QED BY <1>1, <1>2, <1>3, <1>5, <2>1, <2>2, <3>1, <3>2 DEF Journey
  <2>3. CASE Refusal(request[p]) = 0 /\ request[p].kind = "health"
    <3>1. phase'[p] = "answered" /\ answer'[p] = [code |-> 200, id |-> id[p]]
      BY <1>3, <1>8, <2>3 DEF Dispatch, Respond, Await, TypeOK
    <3> QED BY <1>1, <1>2, <1>3, <2>1, <3>1 DEF Journey
  <2>4. CASE Refusal(request[p]) = 0 /\ request[p].kind # "health"
    <3>1. /\ answer' = answer
          /\ phase'[p] = IF request[p].kind = "ready" THEN "pinging"
                         ELSE IF request[p].kind \in Written THEN "reading" ELSE "storing"
      BY <1>3, <1>8, <2>4 DEF Dispatch, Await, TypeOK
    <3>2. request[p].kind \in Written => request[p].token = "valid" /\ request[p].path
      BY <2>4 DEF Refusal, Open, Written
    <3>3. request[p].kind \notin Written => WithinBounds(request[p])
      BY <1>4, AdmittedIsWithinBounds
    <3>4. body[p] = NoText /\ Bytes(NoText) <= Ceiling
      BY <1>3, <1>4, <2>1, NoTextIsText DEF Journey
    <3>5. Sound(p) => phase'[p] = "reading"
      BY <1>5, <3>1 DEF Written
    <3>6. phase'[p] = "reading" => request[p].kind \in Written
      BY <3>1
    <3>7. phase'[p] = "storing" => request[p].kind \notin Written
      BY <3>1 DEF Written
    <3>8. phase'[p] \in {"pinging", "reading", "storing"}
      BY <3>1
    <3>9. id[p] = Adopted(p)
      BY <1>3, <2>1 DEF Journey
    <3> QED BY <1>1, <1>2, <1>3, <2>1, <3>1, <3>2, <3>3, <3>4, <3>5, <3>6, <3>7, <3>8,
               <3>9 DEF Journey
  <2> QED BY <2>2, <2>3, <2>4
<1>9. CASE ReadPiece(p)
  <2>1. PICK n \in Pieces \cup {WireSize(request[p]) - read[p]} :
          /\ n <= WireSize(request[p]) - read[p]
          /\ IF read[p] + n > PayloadCeiling(Ceiling)
             THEN Respond(p, 413) /\ UNCHANGED read
             ELSE read' = [read EXCEPT ![p] = read[p] + n] /\ UNCHANGED <<phase, answer>>
    BY <1>9 DEF ReadPiece
  <2>2. n \in Nat /\ read[p] \in Nat
    BY <1>3, <1>4, <1>9, <2>1, RequestAssumption DEF ReadPiece, TypeOK
  <2>3. phase[p] = "reading" /\ body' = body /\ id' = id /\ failed' = failed
    BY <1>9 DEF ReadPiece
  <2>4. CASE read[p] + n > PayloadCeiling(Ceiling)
    <3>1. phase'[p] = "answered" /\ answer'[p] = [code |-> 413, id |-> id[p]]
          /\ read' = read
      BY <1>3, <2>1, <2>4 DEF Respond, Await, TypeOK
    <3>2. ~Sound(p)
      BY <1>4, <1>5, <2>1, <2>2, <2>4
    <3> QED BY <1>1, <1>2, <1>3, <2>3, <3>1, <3>2 DEF Journey
  <2>5. CASE ~(read[p] + n > PayloadCeiling(Ceiling))
    <3>1. phase' = phase /\ answer' = answer /\ read'[p] = read[p] + n
      BY <1>3, <2>1, <2>5 DEF TypeOK
    <3>2. read'[p] <= PayloadCeiling(Ceiling)
      BY <1>4, <2>2, <2>5, <3>1
    <3> QED BY <1>1, <1>2, <1>3, <2>3, <3>1, <3>2 DEF Journey
  <2> QED BY <2>4, <2>5
<1>10. CASE Admit(p)
  <2>1. phase[p] = "reading" /\ read' = read /\ id' = id /\ failed' = failed
    BY <1>10 DEF Admit
  <2>2. request[p].kind \in Written /\ id[p] = Adopted(p)
    BY <1>3, <2>1 DEF Journey
  <2>3. CASE \E code \in {400, 422} : Respond(p, code) /\ UNCHANGED body /\ ~Sound(p)
    <3>1. PICK code \in {400, 422} : Respond(p, code) /\ UNCHANGED body /\ ~Sound(p)
      BY <2>3
    <3>2. phase'[p] = "answered" /\ answer'[p] = [code |-> code, id |-> id[p]]
      BY <1>3, <3>1 DEF Respond, Await, TypeOK
    <3> QED BY <1>1, <1>2, <1>3, <2>1, <2>2, <3>1, <3>2 DEF Journey
  <2>4. CASE /\ Verdict(request[p], Ceiling) = "template" /\ ~Malformed(request[p])
             /\ Await(p, "templating") /\ UNCHANGED <<answer, body>>
    <3>1. phase'[p] = "templating"
      BY <1>3, <2>4 DEF Await, TypeOK
    <3>2. WithinBounds(request[p]) /\ request[p].kind = "create" /\ ~Sound(p)
      BY <1>4, <1>5, <2>2, <2>4, AdmittedIsWithinBounds
    <3> QED BY <1>1, <1>2, <1>3, <2>1, <2>2, <2>4, <3>1, <3>2 DEF Journey
  <2>5. CASE /\ Verdict(request[p], Ceiling) = "sound" /\ Await(p, "storing")
             /\ body' = [body EXCEPT ![p] = request[p].content] /\ UNCHANGED answer
    <3>1. phase'[p] = "storing" /\ body'[p] = request[p].content
      BY <1>3, <2>5 DEF Await, TypeOK
    <3>2. WithinBounds(request[p]) /\ Bytes(request[p].content) <= Ceiling
      BY <1>4, <2>2, <2>5, AdmittedIsWithinBounds
    <3> QED BY <1>1, <1>2, <1>3, <2>1, <2>2, <2>5, <3>1, <3>2 DEF Journey
  <2> QED BY <1>5, <1>10, <2>3, <2>4, <2>5 DEF Admit, Code
<1>11. CASE Fail(p)
  <2>1. /\ phase[p] \in {"templating", "pinging", "storing"} /\ read' = read /\ id' = id
        /\ body' = body /\ p \in failed'
    BY <1>11 DEF Fail
  <2>2. /\ phase'[p] = "answered"
        /\ answer'[p] = [code |-> IF phase[p] = "pinging" THEN 503 ELSE 500, id |-> id[p]]
    BY <1>3, <1>11 DEF Fail, Respond, Await, TypeOK
  <2> QED BY <1>1, <1>2, <1>3, <2>1, <2>2 DEF Journey
<1>12. CASE Ping(p)
  <2>1. /\ phase[p] = "pinging" /\ read' = read /\ id' = id /\ body' = body
        /\ phase'[p] = "answered" /\ answer'[p] = [code |-> 200, id |-> id[p]]
    BY <1>3, <1>12 DEF Ping, Respond, Await, TypeOK
  <2> QED BY <1>1, <1>2, <1>3, <2>1 DEF Journey
<1>13. CASE Fetch(p)
  <2>1. phase[p] = "templating" /\ read' = read /\ id' = id /\ failed' = failed
    BY <1>13 DEF Fetch
  <2>2. id[p] = Adopted(p) /\ ~Sound(p) /\ WithinBounds(request[p])
    BY <1>3, <2>1 DEF Journey
  <2>3. CASE \E code \in {404, 422} : Respond(p, code) /\ UNCHANGED body
    <3>1. PICK code \in {404, 422} : Respond(p, code) /\ UNCHANGED body
      BY <2>3
    <3>2. phase'[p] = "answered" /\ answer'[p] = [code |-> code, id |-> id[p]]
      BY <1>3, <3>1 DEF Respond, Await, TypeOK
    <3> QED BY <1>1, <1>2, <1>3, <2>1, <2>2, <3>1, <3>2 DEF Journey
  <2>4. CASE \E t \in TemplateBodies :
               /\ ContentFits(t, Ceiling) /\ Await(p, "storing")
               /\ body' = [body EXCEPT ![p] = t] /\ UNCHANGED answer
    <3>1. PICK t \in TemplateBodies :
               /\ ContentFits(t, Ceiling) /\ Await(p, "storing")
               /\ body' = [body EXCEPT ![p] = t] /\ UNCHANGED answer
      BY <2>4
    <3>2. phase'[p] = "storing" /\ body'[p] = t /\ Bytes(t) <= Ceiling /\ answer' = answer
      BY <1>3, <3>1 DEF Await, TypeOK, ContentFits
    <3> QED BY <1>1, <1>2, <1>3, <2>1, <2>2, <3>2 DEF Journey
  <2> QED BY <1>13, <2>3, <2>4 DEF Fetch
<1>14. CASE Store(p)
  <2>1. /\ phase[p] = "storing" /\ read' = read /\ id' = id /\ body' = body
        /\ failed' = failed
    BY <1>14 DEF Store
  <2>2. WithinBounds(request[p]) /\ id[p] = Adopted(p)
    BY <1>3, <2>1 DEF Journey
  <2>3. ~Storable(p) => HasNul(request[p])
    BY <2>2 DEF Storable, TitleColumn, CommentColumn, WithinBounds
  <2>4. PICK code \in {200, 201, 204, 404, 500} :
          /\ Respond(p, code)
          /\ code = 500 => ~Storable(p)
          /\ code = 204 => request[p].kind = "delete"
    BY <1>14 DEF Store
  <2>5. phase'[p] = "answered" /\ answer'[p] = [code |-> code, id |-> id[p]]
    BY <1>3, <2>4 DEF Respond, Await, TypeOK
  <2>6. Sound(p) => code # 204
    BY <1>5, <2>4 DEF Written
  <2> QED BY <1>1, <1>2, <1>3, <2>1, <2>2, <2>3, <2>4, <2>5, <2>6 DEF Journey
<1> QED BY <1>6, <1>7, <1>8, <1>9, <1>10, <1>11, <1>12, <1>13, <1>14 DEF Poll

-----------------------------------------------------------------------------
(* The events, the rows, and the theorems.                                  *)

\* Whose task runs, with which id.
LEMMA PollKeepsScope ==
    ASSUME Inv, NEW p \in Procs, Poll(p)
    PROVE  InScope'
<1>1. CASE Resume(p)
  BY <1>1 DEF Resume, InScope
<1>2. CASE ~Resume(p)
  <2>1. running' = Nobody
    BY <1>2 DEF Poll, Correlate, Dispatch, ReadPiece, Admit, Fail, Ping, Fetch, Store,
                Suspend
  <2> QED BY <2>1 DEF InScope
<1> QED BY <1>1, <1>2

LEMMA PollKeepsEvents ==
    ASSUME Inv, NEW p \in Procs, Poll(p)
    PROVE  EventsTrue'
<1>1. request' = request /\ bus' = bus
  BY StepsKeep
<1>2. CASE Store(p)
  <2>1. running = p /\ phase[p] = "storing"
    BY <1>2 DEF Store
  <2>2. slot = Adopted(p)
    BY <2>1, RequestAssumption DEF Inv, InScope, Journey
  <2>3. outbox' \subseteq outbox \cup {Event(p)}
    BY <1>2 DEF Store
  <2>4. Event(p).id = Adopted(p) /\ Event(p).of = p
    BY <2>2 DEF Event
  <2> QED BY <1>1, <2>3, <2>4 DEF Inv, EventsTrue, Adopted
<1>3. CASE ~Store(p)
  <2>1. outbox' = outbox
    BY <1>3 DEF Poll, Resume, Correlate, Dispatch, ReadPiece, Admit, Fail, Ping, Fetch
  <2> QED BY <1>1, <2>1 DEF Inv, EventsTrue, Adopted
<1> QED BY <1>2, <1>3

LEMMA PollKeepsRows ==
    ASSUME Inv, NEW p \in Procs, Poll(p)
    PROVE  RowsKeepTheirBounds'
<1>1. Ceiling' = Ceiling
  BY StepsKeep, Constants
<1>2. CASE Store(p)
  <2>1. phase[p] = "storing"
    BY <1>2 DEF Store
  <2>2. WithinBounds(request[p]) /\ Bytes(body[p]) <= Ceiling
    BY <2>1 DEF Inv, Journey
  <2>3. rows' \subseteq rows \cup {Row(p)}
    BY <1>2 DEF Store
  <2> QED BY <1>1, <2>2, <2>3 DEF Inv, RowsKeepTheirBounds, Row, WithinBounds
<1>3. CASE ~Store(p)
  <2>1. rows' = rows
    BY <1>3 DEF Poll, Resume, Correlate, Dispatch, ReadPiece, Admit, Fail, Ping, Fetch
  <2> QED BY <1>1, <2>1 DEF Inv, RowsKeepTheirBounds
<1> QED BY <1>2, <1>3

LEMMA NextKeepsInv == Inv /\ [Next]_vars => Inv'
<1> SUFFICES ASSUME Inv, [Next]_vars PROVE Inv'
  OBVIOUS
<1>1. ASSUME NEW p \in Procs, Poll(p) PROVE Inv'
  <2>1. ASSUME NEW q \in Procs PROVE Journey(q)'
    <3>1. CASE q = p
      BY <1>1, <3>1, PollKeepsJourney
    <3>2. CASE q # p
      BY <1>1, <3>2, OthersUnmoved, JourneyUnmoved, StepsKeep DEF Inv
    <3> QED BY <3>1, <3>2
  <2> QED BY <1>1, <2>1, PollKeepsTypes, PollKeepsScope, PollKeepsEvents, PollKeepsRows
          DEF Inv
<1>2. ASSUME NEW e \in outbox, Deliver(e) PROVE Inv'
  <2>1. /\ UNCHANGED <<size, request, phase, id, read, body, failed, answer, running,
                      slot, rows>>
        /\ outbox' \subseteq outbox /\ bus' = bus \cup {e}
    BY <1>2 DEF Deliver
  <2>2. ASSUME NEW q \in Procs PROVE Journey(q)'
    <3>1. At(q)' = At(q)
      BY <2>1 DEF At
    <3> QED BY <2>1, <3>1, JourneyUnmoved DEF Inv
  <2>3. TypeOK'
    BY <2>1 DEF Inv, TypeOK
  <2>4. InScope' /\ EventsTrue'
    BY <2>1 DEF Inv, InScope, EventsTrue, Adopted
  <2>5. RowsKeepTheirBounds'
    BY <2>1 DEF Inv, RowsKeepTheirBounds, Ceiling
  <2> QED BY <2>2, <2>3, <2>4, <2>5 DEF Inv
<1>3. CASE UNCHANGED vars
  <2>1. ASSUME NEW q \in Procs PROVE Journey(q)'
    <3>1. At(q)' = At(q) /\ UNCHANGED <<size, request>> /\ failed \subseteq failed'
      BY <1>3 DEF vars, At
    <3> QED BY <3>1, JourneyUnmoved DEF Inv
  <2>2. TypeOK'
    BY <1>3 DEF Inv, TypeOK, vars
  <2>3. InScope' /\ EventsTrue' /\ RowsKeepTheirBounds'
    BY <1>3 DEF Inv, InScope, EventsTrue, Adopted, RowsKeepTheirBounds, Ceiling, vars
  <2> QED BY <2>1, <2>2, <2>3 DEF Inv
<1> QED BY <1>1, <1>2, <1>3 DEF Next, Idle

\* The inductive invariant that the theorems below follow from.
THEOREM InvHolds == Spec => []Inv
<1> QED BY InvAtFirst, NextKeepsInv, PTL DEF Spec

\* Every variable of the request pipeline keeps its type.
THEOREM RequestTypesHold == Spec => []TypeOK
<1>1. Inv => TypeOK
  BY DEF Inv
<1> QED BY <1>1, InvHolds, PTL

\* Whatever the operator's setting, the ceilings and the sizes, a document of
\* text without control characters that fits MAX_DOCUMENT_SIZE_MB, written with
\* no escape but those that JSON demands (payload_ceiling), reaches the store.
THEOREM MinimalTextIsCarryable == Spec => []TextIsCarryable
<1>1. Inv => TextIsCarryable
  BY DEF Inv, Journey, TextIsCarryable
<1> QED BY <1>1, InvHolds, PTL

\* An event, and a response, carries the id of its own request, whatever the
\* worker ran in between.
THEOREM EventsAlwaysCarryTheirRequest == Spec => []EventsCarryTheirRequest
<1>1. Inv => EventsCarryTheirRequest
  BY DEF Inv, EventsTrue, Journey, EventsCarryTheirRequest
<1> QED BY <1>1, InvHolds, PTL

\* A 500 is the database's, or a NUL's.
THEOREM NothingElseFails == Spec => []OnlyTheDatabaseFails
<1>1. Inv => OnlyTheDatabaseFails
  BY DEF Inv, Journey, OnlyTheDatabaseFails
<1> QED BY <1>1, InvHolds, PTL

\* What is stored is within the bounds, whichever way it came.
THEOREM RowsAlwaysKeepTheirBounds == Spec => []RowsKeepTheirBounds
<1>1. Inv => RowsKeepTheirBounds
  BY DEF Inv
<1> QED BY <1>1, InvHolds, PTL

\* No more is buffered than the ceiling, and nothing for a stranger.
THEOREM StrangersAreNeverRead == Spec => []StrangersAreNotRead
<1>1. Inv => StrangersAreNotRead
  BY DEF Inv, Journey, StrangersAreNotRead
<1> QED BY <1>1, InvHolds, PTL
=============================================================================
