------------------------------ MODULE Pipeline ------------------------------
(***************************************************************************)
(* The service from bundle files to answers: api/demo_bootstrap.py seeds   *)
(* one bundle after the other through the raw store, VERIFY and NORMALISE, *)
(* and api/app.py answers queries from what was seeded, by associate.py    *)
(* and the policy.                                                         *)
(*                                                                         *)
(* The seeder is one thread, and the raw store is the atomic one of        *)
(* ContentStore, which RawStore implements for one writer. Around the      *)
(* seeder, the trust root that sigstore fetches anew for each bundle may   *)
(* rotate, the fetch may fail, a bundle may be one that the code cannot    *)
(* read, and the process may be killed and started again.                  *)
(***************************************************************************)
EXTENDS Corpus

CONSTANT MaxRoot    \* bound: how many trust roots there are in succession

\* None, where there is no record, is none itself.
ASSUME PipelineAssumption ==
    /\ MaxRoot \in Nat \ {0}
    /\ \A d \in Digests, b \in Bytes, r \in 1..MaxRoot :
          Malformed \notin {Parsed[b], Normalized[b]} => EvidenceItem(d, b, r) # None

VARIABLES
    phase,         \* "down", "seeding" or "serving"
    bundle_paths,  \* the argument of seed_from_fixtures
    at,            \* the position of the loop in bundle_paths
    step,          \* the next call in the body of the loop
    raw_bytes,     \* the caller-held copy of the file
    store, call,   \* the raw store, and the result of the last call to it
    verification,  \* the record VERIFY has made, before it has its provenance
    records_by_raw_digest,
    subject_index,
    root,          \* the trust root that a fetch gets now
    checked,       \* history: the root that each raw digest was checked against
    response       \* the last answer of the route

seeding == <<at, step, raw_bytes, store, call, verification,
             records_by_raw_digest, subject_index, checked>>

\* What the body of the loop leaves alone, and what it leaves behind.
around == <<phase, bundle_paths, root, response>>
facts  == <<records_by_raw_digest, subject_index>>

vars == <<around, seeding>>

-----------------------------------------------------------------------------

Seeder == "seeder"

Store == INSTANCE ContentStore
            WITH Callers <- {Seeder}, records <- store, result <- call

\* The variables raw_digest and stored of the loop: what the store answered.
RawDigest == call[Seeder].digest
StoredBytes == call[Seeder].value

\* What a fresh process holds: an empty store in a new temporary directory,
\* and nothing in memory.
EmptyStore == [d \in Digests |-> Absent]
NoCall     == [c \in {Seeder} |-> Store!NoResult]
NoRecords  == [d \in Digests |-> None]
NoIndex    == [d \in SubjectDigests |-> <<>>]

Init ==
    /\ phase = "down"
    /\ bundle_paths = <<>>
    /\ at = 1 /\ step = "read" /\ raw_bytes = Absent
    /\ store = EmptyStore /\ call = NoCall
    /\ verification = None
    /\ records_by_raw_digest = NoRecords /\ subject_index = NoIndex
    /\ checked = NoRecords
    /\ root = 1
    /\ response = NoResponse

\* The process starts on some list of files.
Start(paths) ==
    /\ phase = "down"
    /\ phase' = "seeding"
    /\ bundle_paths' = paths
    /\ UNCHANGED <<seeding, root, response>>

\* The process ends, by an exception out of seed_from_fixtures or because it
\* is killed. What it seeded is lost: no later process looks into its
\* temporary directory.
Exit ==
    /\ phase' = "down"
    /\ bundle_paths' = <<>>
    /\ at' = 1 /\ step' = "read" /\ raw_bytes' = Absent
    /\ store' = EmptyStore /\ call' = NoCall
    /\ verification' = None
    /\ records_by_raw_digest' = NoRecords /\ subject_index' = NoIndex
    /\ checked' = NoRecords
    /\ response' = NoResponse
    /\ UNCHANGED root

-----------------------------------------------------------------------------
(* seed_from_fixtures, one bundle at a time *)

Seeding(s) ==
    /\ phase = "seeding"
    /\ at <= Len(bundle_paths)
    /\ step = s

\* raw_bytes = path.read_bytes()
ReadFile ==
    /\ Seeding("read")
    /\ File[bundle_paths[at]] # Absent
    /\ raw_bytes' = File[bundle_paths[at]]
    /\ step' = "put"
    /\ UNCHANGED <<around, at, store, call, verification, checked, facts>>

FileMissing ==
    /\ Seeding("read")
    /\ File[bundle_paths[at]] = Absent
    /\ Exit

\* raw_digest = store.put(raw_bytes)
PutRaw ==
    /\ Seeding("put")
    /\ Store!Put(Seeder, raw_bytes)
    /\ step' = "get"
    /\ UNCHANGED <<around, at, raw_bytes, verification, checked, facts>>

\* stored = store.get(raw_digest)
GetStored ==
    /\ Seeding("get")
    /\ Store!Get(Seeder, RawDigest)
    /\ step' = "verify"
    /\ UNCHANGED <<around, at, raw_bytes, verification, checked, facts>>

\* verify_from_raw(stored, raw_digest=raw_digest), against the root of now. A
\* signature that fails is a result like any other.
Verify ==
    /\ Seeding("verify")
    /\ Parsed[StoredBytes] # Malformed
    /\ verification' = VerifyFromRaw(Parsed[StoredBytes], RawDigest, root)
    /\ checked' = [checked EXCEPT ![RawDigest] = root]
    /\ step' = "normalize"
    /\ UNCHANGED <<around, at, raw_bytes, store, call, facts>>

\* mutant: a verification that raises is tried again, without end
VerifyRetries ==
    /\ Seeding("verify")
    /\ UNCHANGED vars

\* The trust root cannot be fetched, or the bundle cannot be parsed.
VerifyRaises ==
    /\ Seeding("verify")
    /\ Exit

\* What normalize_from_raw adds to the verification record.
Item == [raw_digest |-> RawDigest, verification |-> verification,
         provenance |-> Normalized[StoredBytes]]

\* mutant: a bundle that cannot be normalised is skipped, and indexed
NormalizeSwallows ==
    /\ Seeding("normalize")
    /\ records_by_raw_digest' =
         IF Normalized[StoredBytes] = Malformed THEN records_by_raw_digest
         ELSE [records_by_raw_digest EXCEPT ![RawDigest] = Item]
    /\ step' = "index"
    /\ UNCHANGED <<around, at, raw_bytes, store, call, verification, subject_index, checked>>

\* mutant: a raw digest that is known keeps the item it has
NormalizeOnce ==
    /\ Seeding("normalize")
    /\ Normalized[StoredBytes] # Malformed
    /\ records_by_raw_digest' =
         IF records_by_raw_digest[RawDigest] # None THEN records_by_raw_digest
         ELSE [records_by_raw_digest EXCEPT ![RawDigest] = Item]
    /\ step' = "index"
    /\ UNCHANGED <<around, at, raw_bytes, store, call, verification, subject_index, checked>>

\* provenance=normalize_from_raw(stored): the item is complete, and replaces
\* the one that an earlier file with the same bytes left.
Normalize ==
    /\ Seeding("normalize")
    /\ Normalized[StoredBytes] # Malformed
    /\ records_by_raw_digest' = [records_by_raw_digest EXCEPT ![RawDigest] = Item]
    /\ step' = "index"
    /\ UNCHANGED <<around, at, raw_bytes, store, call, verification, subject_index, checked>>

NormalizeRaises ==
    /\ Seeding("normalize")
    /\ Normalized[StoredBytes] = Malformed
    /\ Exit

\* mutant: the latest bundle takes the place of the others
IndexedLast(d) ==
    IF Listed(StoredBytes, d) = {} THEN subject_index[d] ELSE <<RawDigest>>

\* mutant: the index names the file, and not what the store made of it
IndexedByPath(d) ==
    subject_index[d]
        \o [i \in 1..Cardinality(Listed(StoredBytes, d)) |-> bundle_paths[at]]

\* mutant: the newest bundle comes first
IndexedNewestFirst(d) ==
    [i \in 1..Cardinality(Listed(StoredBytes, d)) |-> RawDigest] \o subject_index[d]

\* One more entry for each time that the statement lists d.
Indexed(d) ==
    subject_index[d]
        \o [i \in 1..Cardinality(Listed(StoredBytes, d)) |-> RawDigest]

IndexRaises ==
    /\ Seeding("index")
    /\ Subjects[StoredBytes] = Malformed
    /\ Exit

\* for subject in statement["subject"]: index it; then the next bundle
Index ==
    /\ Seeding("index")
    /\ Subjects[StoredBytes] # Malformed
    /\ subject_index' = [d \in SubjectDigests |-> Indexed(d)]
    /\ at' = at + 1
    /\ step' = "read"
    /\ UNCHANGED <<around, raw_bytes, store, call, verification, records_by_raw_digest, checked>>

\* return DemoData(...): create_app takes it, and serves.
Serve ==
    /\ phase = "seeding"
    /\ at > Len(bundle_paths)
    /\ phase' = "serving"
    /\ UNCHANGED <<bundle_paths, seeding, root, response>>

-----------------------------------------------------------------------------
(* The route, the process and its surroundings *)

\* The evidence set of the route, None where a raw digest has no record.
EvidenceFor(d) ==
    [i \in DOMAIN subject_index[d] |-> records_by_raw_digest[subject_index[d][i]]]

\* get_provenance(tenant_id, digest), from the tables that seeding has left.
GetProvenance(t, d) ==
    /\ phase = "serving"
    /\ response' = Answer(t, d, EvidenceFor(d))
    /\ UNCHANGED <<phase, bundle_paths, seeding, root>>

\* The process is killed, while it seeds or while it serves.
Crash ==
    /\ phase # "down"
    /\ Exit

\* The next trust root replaces the current one in TUF.
RotateRoot ==
    /\ root < MaxRoot
    /\ root' = root + 1
    /\ UNCHANGED <<phase, bundle_paths, seeding, response>>

Seed ==
    \/ ReadFile \/ FileMissing
    \/ PutRaw \/ GetStored
    \/ Verify \/ VerifyRaises
    \/ Normalize \/ NormalizeRaises
    \/ Index \/ IndexRaises
    \/ Serve

Next ==
    \/ \E paths \in PathLists : Start(paths)
    \/ Seed
    \/ \E t \in Tenants, d \in SubjectDigests : GetProvenance(t, d)
    \/ Crash
    \/ RotateRoot

\* The seeder is one thread with a finite loop, whose calls return or raise.
Spec == Init /\ [][Next]_vars /\ WF_vars(Seed)

-----------------------------------------------------------------------------

Names(b, d) ==
    /\ Subjects[b] # Malformed
    /\ \E j \in DOMAIN Subjects[b] : Subjects[b][j].sha256 = d

\* The raw bytes that the run has been given about d.
BytesAbout(d) ==
    {b \in Bytes : Names(b, d) /\ \E i \in DOMAIN bundle_paths : File[bundle_paths[i]] = b}

TypeOK ==
    /\ phase \in {"down", "seeding", "serving"}
    /\ bundle_paths \in Seq(Paths)
    /\ at \in 1..(Len(bundle_paths) + 1)
    /\ step \in {"read", "put", "get", "verify", "normalize", "index"}
    /\ raw_bytes \in Bytes \cup {Absent}
    /\ store \in [Digests -> Bytes \cup {Absent}]
    /\ DOMAIN call = {Seeder}
    /\ DOMAIN records_by_raw_digest = Digests
    /\ subject_index \in [SubjectDigests -> Seq(Digests)]
    /\ root \in 1..MaxRoot
    /\ checked \in [Digests -> 1..MaxRoot \cup {None}]

\* Every raw digest in the index has its item: the route never meets a
\* KeyError, however seeding interleaves its two tables (app.py:33-36).
NoDanglingIndex ==
    \A d \in SubjectDigests : None \notin ItemsOf(EvidenceFor(d))

\* The facts that are cached are those of the bytes in the store, under the
\* root of their last check: "both must read from this store, never from
\* whatever the caller originally passed in" (store.py:8), also when a file
\* comes twice and the root has rotated in between.
FactsMatchStore ==
    \A d \in Digests :
        LET item == records_by_raw_digest[d] IN
        item # None =>
            /\ store[d] \in Bytes
            /\ digest_of[store[d]] = d
            /\ item.raw_digest = d
            /\ item.provenance = Normalized[store[d]]
            /\ (step = "normalize" /\ RawDigest = d)
                  \/ item.verification = VerifyFromRaw(Parsed[store[d]], d, checked[d])

\* A service that answers has indexed all that it was started with: for each
\* artifact, one entry per listing in a bundle, whichever bundle came first.
ServedIsComplete ==
    phase = "serving" =>
        \A d \in SubjectDigests :
            /\ {store[raw] : raw \in ItemsOf(subject_index[d])} = BytesAbout(d)
            /\ Len(subject_index[d]) =
                 Cardinality({p \in (DOMAIN bundle_paths) \X (1..MaxSubjects) :
                                LET subjects == Subjects[File[bundle_paths[p[1]]]]
                                IN  p[2] \in DOMAIN subjects /\ subjects[p[2]].sha256 = d})

\* ALLOW over the API, traced back past every cache: the tenant has the
\* artifact, some bundle is about it, and every bundle that is about it was
\* signed, by the root it was last checked against, with an acceptable issuer
\* and by a capable builder that names itself and is no reusable workflow.
AllowIsBackedByBundles ==
    response.decision = "ALLOW" =>
        /\ <<response.tenant, response.digest>> \in StubArtifacts
        /\ BytesAbout(response.digest) # {}
        /\ \A b \in BytesAbout(response.digest) :
              LET cert == Parsed[b].cert IN
              /\ checked[digest_of[b]] \in Parsed[b].verifies_under
              /\ cert.ext[8] \in AcceptableIssuers
              /\ cert.san # <<>>
              /\ cert.san[1] \in DOMAIN BuilderAllowlist
              /\ BuilderAllowlist[cert.san[1]] >= RequiredLevel
              /\ Normalized[b].builder_id = cert.san[1]
              /\ \/ cert.ext[9] \in {None, Malformed, cert.ext[18]}
                 \/ cert.ext[18] \in {None, Malformed}

\* What an answer shows is evidence about the artifact it was asked for: the
\* bytes stored under each raw digest name its sha256, and the tenant has it.
EvidenceIsAboutTheArtifact ==
    response.status = 200 =>
        /\ <<response.tenant, response.digest>> \in StubArtifacts
        /\ \A item \in ItemsOf(response.evidence) :
              Names(store[item.raw_digest], response.digest)

\* A request fails (500) on one thing only: a bundle about the artifact that is
\* signed, by the builder that it names, of the build type that evaluate() looks
\* into, and that has no object where the way to its runner goes on
\* (evaluate.py:156-164). No record is ever missing, and what no signer vouches
\* for makes no request fail.
FailureIsASignedPredicate ==
    response.status = 500 =>
        \E b \in BytesAbout(response.digest) :
            /\ checked[digest_of[b]] \in Parsed[b].verifies_under
            /\ Normalized[b] # Malformed
            /\ Normalized[b].builder_id = ExtractIdentity(Parsed[b].cert).identity
            /\ Normalized[b].build_type = GhaWorkflowBuildType
            /\ Normalized[b].runner_environment = Malformed

\* Two records with the same trust_root were checked against the same root:
\* "stamped with the trust_root it was checked against so a later re-check
\* doesn't silently use today's (rotated) root" (DESIGN.md:109).
TrustRootIsIdentified ==
    \A d, e \in Digests :
        LET one == records_by_raw_digest[d]
            two == records_by_raw_digest[e]
        IN  /\ one # None /\ two # None
            /\ step # "normalize"
            /\ one.verification.trust_root = two.verification.trust_root
            => checked[d] = checked[e]

\* The loop, the store and the two tables of the code seen as the service of
\* ProvenanceService: all the evidence is there at the instant that Serve
\* hands it over, and none before.
Service == INSTANCE ProvenanceService
              WITH published <- IF phase = "serving"
                                THEN [d \in SubjectDigests |-> EvidenceFor(d)] ELSE None

\* Whatever seeding has been through (files that come twice, a root that
\* rotates in between, exceptions, kills), what a process answers from is the
\* evidence of all its files, in their order, each item checked once.
ImplementsService == Service!Spec

\* Seeding ends: in a service that answers, or with the process gone.
SeedingEnds == phase = "seeding" ~> phase # "seeding"

=============================================================================
