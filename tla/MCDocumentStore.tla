--------------------------- MODULE MCDocumentStore ---------------------------
(* Instances of DocumentStore small enough for TLC. *)
EXTENDS DocumentProperties, TLC

CONSTANTS c1, c2, c3, d1, d2, d3, d4, t1, t2

TwoCalls   == {c1, c2}
ThreeCalls == {c1, c2, c3}

OneSeeded == d1 :> t1

CallSymmetry == Permutations(Calls)

Update(d, body, title, status) ==
    [op |-> "update", tenant |-> t1, doc |-> d, body |-> body,
     title |-> title, status |-> status]
Target(op, d) == [op |-> op, tenant |-> t1, doc |-> d]
Version(d, n) == [op |-> "get_version", tenant |-> t1, doc |-> d, version |-> n]

\* Every request of one tenant, about the seeded document or a new one, and
\* another tenant's requests about the first one's document.
EveryRequest ==
    [op: {"create"}, tenant: {t1}, body: Sizes,
     template: {"none", "own", "system", "foreign", "huge"}]
    \cup {r \in Updates : r.tenant = t1 /\ r.doc = d1}
    \cup {r \in Targeted : r.doc = d1}
    \cup {Version(d1, n) : n \in 1..3}
    \cup [op: {"update"}, tenant: {t2}, doc: {d1}, body: {"fits"},
          title: {TRUE}, status: {"published"}]
    \cup [op: {"get_version"}, tenant: {t2}, doc: {d1}, version: {1}]

Save    == Update(d1, "fits", FALSE, "absent")
Rename  == Update(d1, "absent", TRUE, "absent")
Publish1 == Update(d1, "absent", FALSE, "published")
SaveAndPublish == Update(d1, "fits", FALSE, "published")
Archive == Update(d1, "absent", FALSE, "archived")

\* The writers of one document, and the two reads of its history.
WritersAndReaders ==
    {Save, Rename, Publish1, SaveAndPublish, Archive, Target("delete", d1),
     Target("snapshot", d1), Target("list_versions", d1), Version(d1, 2)}

\* For liveness: each way to take, wait for and give up a lock or a connection.
Contenders ==
    {Save, Publish1, Target("snapshot", d1)}
    \cup [op: {"create"}, tenant: {t1}, body: {"absent"}, template: {"own"}]
=============================================================================
