------------------------------- MODULE Corpus -------------------------------
(***************************************************************************)
(* What is given before a process starts: the bundle files and what their  *)
(* bytes hold for each stage that decodes them, and the artifacts of the   *)
(* tenants; and the answer of the route to given evidence.                 *)
(***************************************************************************)
EXTENDS Policy, Normalize, FiniteSets

CONSTANTS
    Bytes, Digests, digest_of, Absent,   \* as in ContentStore
    Paths,          \* the files that a run may be started with
    PathLists,      \* the argument bundle_paths: a set of sequences of Paths
    File,           \* File[p]: the bytes of file p, Absent if there is no such file
    Parsed,         \* Parsed[b]: the bundle [cert, verifies_under] in the bytes b,
                    \* Malformed if sigstore cannot parse it
    Envelope,       \* Envelope[b]: the bytes b as NORMALISE decodes them
    Subjects,       \* Subjects[b]: the digests [sha256, sha1] of the statement's
                    \* subjects, in order, Malformed if one of them is no object
    MaxSubjects,    \* bound: how many subjects a statement has
    SubjectDigests,
    Tenants,
    StubArtifacts   \* the (tenant, digest) pairs that name an artifact

ASSUME CorpusAssumption ==
    /\ digest_of \in [Bytes -> Digests]
    /\ \A b1, b2 \in Bytes : digest_of[b1] = digest_of[b2] => b1 = b2
    /\ PathLists \subseteq Seq(Paths)
    /\ File \in [Paths -> Bytes \cup {Absent}]
    /\ StubArtifacts \subseteq Tenants \X SubjectDigests
    /\ Absent \notin Bytes
    /\ MaxSubjects \in Nat
    /\ \A b \in Bytes :
          Subjects[b] # Malformed => \E n \in 0..MaxSubjects : DOMAIN Subjects[b] = 1..n

-----------------------------------------------------------------------------

\* normalize_from_raw of each b, as far as EVALUATE reads it.
Normalized ==
    [b \in Bytes |->
        LET provenance == NormalizeFromRaw(Envelope[b])
        IN  IF provenance = Malformed THEN Malformed ELSE Facts(provenance)]

\* mutant: a sha1 will do where there is no sha256
ListedWeakly(b, d) ==
    {j \in DOMAIN Subjects[b] : d \in {Subjects[b][j].sha256, Subjects[b][j].sha1}}

\* Where the statement of b lists d: as a sha256, and by no other algorithm.
Listed(b, d) == {j \in DOMAIN Subjects[b] : Subjects[b][j].sha256 = d}

\* The evidence item of the bytes b under the digest d, checked against root.
EvidenceItem(d, b, root) ==
    [raw_digest |-> d, verification |-> VerifyFromRaw(Parsed[b], d, root),
     provenance |-> Normalized[b]]

NoResponse == [status |-> 0, tenant |-> None, digest |-> None,
               evidence |-> <<>>, decision |-> None]

\* associate(): the stub table has an artifact of this tenant with this digest.
Associate(d, t) == <<t, d>> \in StubArtifacts

\* What get_provenance makes of the evidence for d, None where a record is
\* missing: 404 without an artifact, 500 when a record is missing or evaluate()
\* raises, else the records and the decision.
Answer(t, d, evidence) ==
    LET Reply(status, shown, decision) ==
            [status |-> status, tenant |-> t, digest |-> d,
             evidence |-> shown, decision |-> decision]
    IN  IF ~Associate(d, t) THEN Reply(404, <<>>, None)
        ELSE IF None \in ItemsOf(evidence) \/ Evaluate(evidence) = "AttributeError"
        THEN Reply(500, <<>>, None)
        ELSE Reply(200, evidence, Evaluate(evidence))

=============================================================================
