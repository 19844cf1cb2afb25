-------------------------- MODULE MCRequestPipeline --------------------------
(* An instance of RequestPipeline small enough for TLC. *)
EXTENDS RequestPipeline, TLC

CONSTANTS p1, p2, c1

Settings == {SizeSetting("unset", 0)} \cup {SizeSetting("number", n) : n \in {1, 3, 9}}

Plain(n)    == [NoText EXCEPT !.plain = n]
Quoted(n)   == [NoText EXCEPT !.quoted = n]
Accented(n) == [NoText EXCEPT !.accented = n]
Control(n)  == [NoText EXCEPT !.control = n]
Nul         == [Plain(1) EXCEPT !.nul = 1]

Usual == [kind |-> "look", token |-> "valid", path |-> TRUE, media |-> TRUE,
          declared |-> TRUE, garbled |-> FALSE, encoding |-> "minimal",
          header |-> c1, gives |-> {},
          title |-> NoText, content |-> NoText, comment |-> NoText,
          metadata |-> NoMetadata]

Creation == [Usual EXCEPT !.kind = "create", !.gives = {"title", "content"},
                          !.title = Plain(1), !.content = Plain(8)]
Update   == [Creation EXCEPT !.kind = "update"]
Snapshot == [Usual EXCEPT !.kind = "snapshot", !.gives = {"comment"},
                          !.comment = Plain(1)]

Titles == {NoText, Plain(2), Plain(3), Accented(2), Control(2), Nul,
           [Plain(2) EXCEPT !.blanks = 1], [NoText EXCEPT !.blanks = 2]}

\* At, and one past, each ceiling; at its worst to escape; past the payload's.
Contents == {Plain(n) : n \in {0, 8, 9, 16, 17, 24, 25, 40}} \cup {Control(7), Nul}
            \cup {Quoted(8), Quoted(16), Quoted(24), Accented(8)}

Labels == {[NoMetadata EXCEPT !.keys = 1, !.longest = 1, !.bytes = 3],
           [NoMetadata EXCEPT !.object = FALSE], [NoMetadata EXCEPT !.keys = 2],
           [NoMetadata EXCEPT !.named = FALSE], [NoMetadata EXCEPT !.longest = 2],
           [NoMetadata EXCEPT !.keys = 1, !.deepest = 2],
           [NoMetadata EXCEPT !.bytes = 4], [NoMetadata EXCEPT !.nul = TRUE]}

\* Bodies of templates, stored before the ceiling was what it is.
Bodies == {Plain(8), Plain(17), Plain(40)}

Written1 ==
    {[r EXCEPT !.title = t] : r \in {Creation, Update}, t \in Titles}
    \cup {[r EXCEPT !.content = t, !.declared = d] :
            r \in {Creation, Update}, t \in Contents, d \in BOOLEAN}
    \cup {[r EXCEPT !.metadata = m, !.gives = @ \cup {"metadata"}] :
            r \in {Creation, Update}, m \in Labels}
    \cup {[Snapshot EXCEPT !.comment = t] : t \in Titles}
    \cup {[Creation EXCEPT !.gives = @ \cup {"template"}],
          [Creation EXCEPT !.gives = {"title", "template"}, !.content = NoText],
          [Usual EXCEPT !.kind = "update"],
          \* No title.
          [Creation EXCEPT !.gives = {"content"}, !.title = NoText],
          \* The largest envelope around the largest body.
          [Creation EXCEPT !.title = Control(2), !.content = Quoted(16),
                           !.gives = @ \cup {"metadata"},
                           !.metadata = [NoMetadata EXCEPT !.bytes = 3]]}
    \cup {[Update EXCEPT !.content = t, !.encoding = e] :
            t \in {Plain(8), Accented(4), Accented(8)}, e \in Encodings}

\* Bodies of at most the default maximum, in every encoding.
EscapedSent ==
    [p \in Procs |->
       {[r EXCEPT !.content = t, !.encoding = e] :
          r \in {Creation, Update}, t \in {Plain(16), Quoted(16), Accented(8)},
          e \in Encodings}]

Boundary1 ==
    {[r EXCEPT !.token = t, !.path = h] :
        r \in {Creation, Update, Usual}, t \in Tokens, h \in BOOLEAN}
    \cup {[Update EXCEPT !.media = m, !.declared = d, !.garbled = g, !.content = Plain(t)] :
            m \in BOOLEAN, d \in BOOLEAN, g \in BOOLEAN, t \in {8, 40}}
    \cup {[Usual EXCEPT !.kind = k, !.header = h] :
            k \in Open \cup {"look", "delete"}, h \in {c1, NoId, Blank}}

Sent == [p \in Procs |->
           IF p = p1 THEN Written1 \cup Boundary1
           ELSE {[Creation EXCEPT !.header = NoId], [Update EXCEPT !.gives = {"title"}, !.content = NoText],
                 Snapshot}]
=============================================================================
