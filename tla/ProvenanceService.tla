------------------------- MODULE ProvenanceService --------------------------
(***************************************************************************)
(* What the service promises, with no seeding loop, no raw store and no    *)
(* tables in it: a process that was started on some files either ends, or  *)
(* publishes at one instant the evidence of all of them, and then answers  *)
(* from that. Pipeline, the model of the code, is shown to implement it.   *)
(***************************************************************************)
EXTENDS Corpus, Functions

VARIABLES
    phase,         \* "down", "seeding" or "serving"
    bundle_paths,  \* the files of the process
    published,     \* published[d]: the evidence for d, None before there is any
    root,          \* the trust root of now
    response       \* the last answer

vars == <<phase, bundle_paths, published, root, response>>

Init ==
    /\ phase = "down" /\ bundle_paths = <<>> /\ published = None
    /\ root = 1 /\ response = NoResponse

Start ==
    /\ phase = "down"
    /\ phase' = "seeding"
    /\ bundle_paths' \in PathLists
    /\ UNCHANGED <<published, root, response>>

\* Killed, or an exception. Nothing is left of it.
Stop ==
    /\ phase # "down"
    /\ phase' = "down" /\ bundle_paths' = <<>> /\ published' = None
    /\ response' = NoResponse
    /\ UNCHANGED root

-----------------------------------------------------------------------------

Content(i) == File[bundle_paths[i]]

\* What every stage can read.
Fit(b) == b # Absent /\ Malformed \notin {Parsed[b], Normalized[b], Subjects[b]}

\* Equal bytes have one item, of the last time that they are checked.
LastCheck(i, roots) ==
    roots[CHOOSE j \in DOMAIN bundle_paths :
            /\ Content(j) = Content(i)
            /\ \A k \in DOMAIN bundle_paths : Content(k) = Content(i) => k <= j]

ItemOf(i, roots) ==
    EvidenceItem(digest_of[Content(i)], Content(i), LastCheck(i, roots))

\* Where the files list d: the pairs of a file and a subject of its statement.
Listings(d) ==
    {p \in (DOMAIN bundle_paths) \X (1..MaxSubjects) : p[2] \in Listed(Content(p[1]), d)}

\* The listings of d in the order of the files.
Orders(d) ==
    {from \in Bijection(1..Cardinality(Listings(d)), Listings(d)) :
        \A k, l \in DOMAIN from : k <= l => from[k][1] <= from[l][1]}

\* The evidence for d when file i was checked against roots[i]: for each time
\* that a file lists d the item of that file, in the order of the files.
EvidenceOf(d, roots) ==
    {[k \in DOMAIN from |-> ItemOf(from[k][1], roots)] : from \in Orders(d)}

\* The files are checked in their order, while the root may move on.
Publish ==
    /\ phase = "seeding"
    /\ \A i \in DOMAIN bundle_paths : Fit(Content(i))
    /\ phase' = "serving"
    /\ \E roots \in [DOMAIN bundle_paths -> 1..root] :
         /\ \A i, j \in DOMAIN bundle_paths : i <= j => roots[i] <= roots[j]
         /\ published' \in [SubjectDigests -> UNION {EvidenceOf(d, roots) : d \in SubjectDigests}]
         /\ \A d \in SubjectDigests : published'[d] \in EvidenceOf(d, roots)
    /\ UNCHANGED <<bundle_paths, root, response>>

GetProvenance(t, d) ==
    /\ phase = "serving"
    /\ response' = Answer(t, d, published[d])
    /\ UNCHANGED <<phase, bundle_paths, published, root>>

RotateRoot ==
    /\ root' = root + 1
    /\ UNCHANGED <<phase, bundle_paths, published, response>>

Next ==
    \/ Start \/ Stop \/ Publish \/ RotateRoot
    \/ \E t \in Tenants, d \in SubjectDigests : GetProvenance(t, d)

Spec == Init /\ [][Next]_vars

=============================================================================
