------------------------------ MODULE Admission ------------------------------
(***************************************************************************)
(* What a request may carry: the bounds on a title, a comment, metadata    *)
(* and a body (domain/text.rs, domain/metadata.rs, DocumentService), and   *)
(* the ceiling on the payload that carries them (api/payload.rs).  The     *)
(* first count characters or bytes, the last counts what arrives.          *)
(***************************************************************************)
EXTENDS Configuration, FiniteSets

CONSTANTS
    MaxTitle,           \* MAX_TITLE_CHARS, MAX_COMMENT_CHARS; the columns too
    MaxMetadataBytes, MaxMetadataKeys, MaxMetadataValue,
    Allowance,          \* ENVELOPE_ALLOWANCE_BYTES
    Punctuation         \* field names, braces and a template's id

\* The test of payload.rs: the allowance exceeds the largest envelope, whose
\* title costs at most six bytes a character.
ASSUME AdmissionAssumption ==
    /\ MaxTitle \in Nat /\ MaxMetadataBytes \in Nat /\ MaxMetadataKeys \in Nat
    /\ MaxMetadataValue \in Nat /\ Allowance \in Nat /\ Punctuation \in Nat
    /\ MaxMetadataBytes >= 2
    /\ Allowance > 6 * MaxTitle + MaxMetadataBytes + Punctuation

-----------------------------------------------------------------------------
(* A text is how many characters of each kind it has: blanks around it;    *)
(* one byte of UTF-8 that JSON leaves alone, or that it escapes with a     *)
(* backslash (newlines among them); two bytes; control characters, and NUL *)
(* among them, one byte each that takes six to write.                      *)

Texts == [blanks: Nat, plain: Nat, quoted: Nat, accented: Nat, control: Nat,
          nul: Nat]

Chars(t) == t.blanks + t.plain + t.quoted + t.accented + t.control + t.nul
Bytes(t) == Chars(t) + t.accented

\* How a client may write a string: what JSON makes it escape, as serde_json
\* and JSON.stringify do; all that is not ASCII as \uXXXX besides; everything.
Encodings == {"minimal", "ascii", "escaped"}

Wire(t, encoding) ==
    LET minimal == Bytes(t) + t.quoted + 5 * (t.control + t.nul) IN
    CASE encoding = "minimal" -> minimal
      [] encoding = "ascii"   -> minimal + 4 * t.accented
      [] encoding = "escaped" -> 6 * Chars(t)

Trimmed(t) == [t EXCEPT !.blanks = 0]

\* Broken variant: a bound on bytes, where the contract counts characters.
TitleFitsBytes(t) == Bytes(Trimmed(t)) \in 1..MaxTitle

\* Title::parse
TitleFits(t) == Chars(Trimmed(t)) \in 1..MaxTitle

\* Broken variant: the title of an update until Title was a type, checked
\* trimmed and stored as it came.
StoredTitleAsSent(t) == t

StoredTitle(t) == Trimmed(t)

\* Comment::parse: not trimmed.
CommentFits(t) == Chars(t) <= MaxTitle

\* Metadata: whether it is an object, its keys and whether all are names, the
\* longest of its strings at the top and further down, its size as serde_json
\* writes it, and whether a NUL is among its characters.
Metadata == [object: BOOLEAN, keys: Nat, named: BOOLEAN, longest: Nat,
             deepest: Nat, bytes: Nat, nul: BOOLEAN]

\* Broken variant: the code until 2026-09-14, which bounded neither the size
\* of the object nor the strings further down.
MetadataFitsAtTheTop(m) ==
    /\ m.object
    /\ m.keys <= MaxMetadataKeys
    /\ m.named
    /\ m.longest <= MaxMetadataValue

\* Metadata::parse
MetadataFits(m) ==
    /\ m.object
    /\ m.bytes <= MaxMetadataBytes
    /\ m.keys <= MaxMetadataKeys
    /\ m.named
    /\ m.longest <= MaxMetadataValue /\ m.deepest <= MaxMetadataValue

-----------------------------------------------------------------------------
\* Broken variants: one ceiling for both, and arithmetic that wraps.
PayloadCeilingOfBody(ceiling) == ceiling
PayloadCeilingWrapping(ceiling) == (2 * ceiling + Allowance) % (MaxUsize + 1)

\* payload_ceiling
PayloadCeiling(ceiling) == Saturated(Saturated(2 * ceiling) + Allowance)

\* validate_content
ContentFits(t, ceiling) == Bytes(t) <= ceiling

-----------------------------------------------------------------------------
(* A request.  Its kinds are those the boundary tells apart: "look" stands *)
(* for every read (get, list and the history).  gives names the fields of  *)
(* its body that are present; a status among them is a known one.          *)

Written == {"create", "update", "snapshot"}
Open    == {"health", "ready", "unrouted"}
Kinds   == Written \cup Open \cup {"look", "delete"}

\* The Authorization header: none, one without Bearer, a token that decode
\* refuses, one whose claims hold no identifier, a valid one.
Tokens == {"none", "unprefixed", "refused", "nobody", "valid"}

NoText == [blanks |-> 0, plain |-> 0, quoted |-> 0, accented |-> 0,
           control |-> 0, nul |-> 0]

\* Metadata::empty
NoMetadata == [object |-> TRUE, keys |-> 0, named |-> TRUE, longest |-> 0,
               deepest |-> 0, bytes |-> 2, nul |-> FALSE]

\* The fields that a body of each kind may have.
Fields(kind) ==
    CASE kind = "create"   -> {"title", "content", "template", "metadata"}
      [] kind = "update"   -> {"title", "content", "status", "metadata"}
      [] kind = "snapshot" -> {"comment"}
      [] OTHER             -> {}

Gives(r, field) == field \in r.gives

\* What serde refuses: a body that is no JSON of its type, and a document to
\* create that has no title, the one field that is not optional.
Malformed(r) == r.garbled \/ (r.kind = "create" /\ ~Gives(r, "title"))

\* What a client sends, with nothing where it gives nothing; header is the
\* correlation id, one of headers, and encoding how its texts are written.
RequestsWith(headers) ==
    {r \in [kind: Kinds, token: Tokens, path: BOOLEAN, media: BOOLEAN,
            declared: BOOLEAN, garbled: BOOLEAN, encoding: Encodings,
            header: headers,
            gives: SUBSET {"title", "content", "template", "metadata", "status",
                           "comment"},
            title: Texts, content: Texts, comment: Texts, metadata: Metadata] :
        /\ r.gives \subseteq Fields(r.kind)
        /\ ~Gives(r, "title") => r.title = NoText
        /\ ~Gives(r, "content") => r.content = NoText
        /\ ~Gives(r, "comment") => r.comment = NoText
        /\ ~Gives(r, "metadata") => r.metadata = NoMetadata}

\* What of the body arrives: a document, or a comment.  Metadata is bounded as
\* serde_json writes it, and arrives so.
WireSize(r) ==
    Wire(r.title, r.encoding) + Wire(r.content, r.encoding)
    + Wire(r.comment, r.encoding) + Punctuation
    + IF Gives(r, "metadata") THEN r.metadata.bytes ELSE 0

\* The checks of the handlers and the service, in their order; "template"
\* says that the body is to be fetched.  Of requests that are not Malformed.
CreateVerdict(r, ceiling) ==
    IF \/ Gives(r, "metadata") /\ ~MetadataFits(r.metadata)
       \/ ~TitleFits(r.title)
    THEN "invalid"
    ELSE IF {"content", "template"} \subseteq r.gives THEN "bad"
    ELSE IF Gives(r, "template") THEN "template"
    ELSE IF ContentFits(r.content, ceiling) THEN "sound" ELSE "invalid"

UpdateVerdict(r, ceiling) ==
    IF \/ Gives(r, "title") /\ ~TitleFits(r.title)
       \/ Gives(r, "metadata") /\ ~MetadataFits(r.metadata)
       \/ Gives(r, "content") /\ ~ContentFits(r.content, ceiling)
    THEN "invalid" ELSE "sound"

Verdict(r, ceiling) ==
    IF r.kind = "create" THEN CreateVerdict(r, ceiling)
    ELSE IF r.kind = "update" THEN UpdateVerdict(r, ceiling)
    ELSE IF CommentFits(r.comment) THEN "sound" ELSE "invalid"

\* as_app_error and AppError::error_response, for what the boundary refuses.
Code(verdict) == IF verdict = "invalid" THEN 422 ELSE 400
=============================================================================
