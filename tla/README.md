# Verification of the provenance ingestion spike

TLA+ modules, TLC runs and TLAPS proofs about the program in `src/`: a service
that stores signed attestation bundles, verifies and normalises them, and
decides for a tenant's artifact whether its evidence earns ALLOW. File names
below are relative to `src/src/provenance/` unless they start with `src/`.

## The system

| component | state it keeps | operations | goes to |
|---|---|---|---|
| Raw store, `raw_store/store.py` | files `<dd>/<dd>/<sha256>.bin` under a root, and `.tmp` files on the way there | `put`, `get`, `exists` | the file system |
| VERIFY, `verify/verifier.py`, `models/verification.py` | none; the trust root is fetched by sigstore at every call | `verify_from_raw`, `fully_verified` | sigstore, TUF over the network |
| NORMALISE, `normalize/`, `models/provenance.py` | none | `normalize_from_raw`, `statement_from_raw`, one `adapt` per predicate version | - |
| Seeding (stands in for INGEST), `api/demo_bootstrap.py` | `records_by_raw_digest`, `subject_index`, in memory | `seed_from_fixtures` | raw store, VERIFY, NORMALISE, in that order, for each file |
| ASSOCIATE, `associate.py` | a constant table keyed by (tenant, digest) | `associate` | - |
| EVALUATE, `policy/` | a constant allowlist | `evaluate` | - |
| EXPOSE, `api/app.py`, `api/models.py` | what seeding returned, read only | one GET route | ASSOCIATE, then the two tables, then EVALUATE |
| Demo server, `src/scripts/run_demo_api.py` | none | seed, then serve | seeding, EXPOSE |
| Fixture fetcher, `src/scripts/fetch_github_attestation.py` | two files per fixture | `main` | GitHub, the file system |

SBOM evidence, corpus-wide policy, re-verification and late-binding association
are described in `src/DESIGN.md` as not built.

What is hard to test here:

- **The store has no lock.** `put` tests, makes a directory, opens a temporary
  file, writes it and renames it. Two writers of the same bytes use the *same*
  temporary name. Any step may fail, or be the last before a kill.
- **The policy has many cases that interact.** The outcome of verification,
  signer, calling workflow, runner (from the certificate or the predicate),
  source and builder decide together, and a set of attestations decides by all
  of its items.
- **Facts are cached.** What the route answers was computed while seeding, from
  bytes read back from the store, under whatever trust root the fetch of that
  moment delivered.
- **Seeding may stop anywhere.** A file may be missing, a bundle unparsable, a
  predicate unknown, a trust root out of reach; any of these raises through the
  loop that has already stored and indexed earlier bundles.
- **The fetcher writes in place.** It truncates the two files of a fixture and
  fills them one after the other; a run that is stopped leaves its files to the
  next one, and GitHub may answer that one differently.

What makes each part correct: the store is an atomic map that never loses or
changes an entry; a record claims verification only if it was earned; ALLOW
follows from the signer and not from the payload, and no further evidence turns
a denial; an answer is complete, is about the artifact asked for, and traces
back to bundles; a fixture is the attestation asked for, beside its own sidecar.
`PROJECT.json` lists the hazards line by line with the
properties that cover them.

## Modules

| module | what it is |
|---|---|
| `ContentStore` | abstract: the raw store as an atomic map from digest to bytes |
| `RawStore` | `store.py`, one action per file-system call, any number of callers |
| `RawStoreProofs` | theorems about `RawStore`, among them that it implements `ContentStore` |
| `Verification` | `verifier.py` as operators: the record made of one bundle |
| `Policy` (extends `Verification`) | `evaluate.py` as operators |
| `EvidenceSet` (extends `Policy`) | an evidence set that grows, with the decision at each moment |
| `EvidenceSetProofs` | theorems about the decision |
| `Values` | what an optional value may be besides present: `None`, `Malformed` |
| `Normalize` | `normalize/` as operators: envelope, dispatch, the two adapters |
| `Normalization` (extends `Normalize`, `Policy`) | one envelope of any shape, and what is made of it |
| `NormalizationProofs` | theorems about `Normalization` |
| `Corpus` (extends `Policy`, `Normalize`) | what is given before a process starts: files, bundles, artifacts; and the answer of the route to given evidence |
| `ProvenanceService` (extends `Corpus`) | abstract: a process that publishes the evidence of all its files at one instant, and answers from it |
| `Pipeline` (extends `Corpus`, instances `ContentStore` and `ProvenanceService`) | seeding, the route, the process and its surroundings |
| `PipelineProofs` | theorems about `Pipeline` |
| `ServiceProofs` (extends `PipelineProofs`) | the theorem that `Pipeline` implements `ProvenanceService` |
| `FetchFixture` | `fetch_github_attestation.py`, one action per call, run after run on one directory |
| `FetchFixtureProofs` | theorems about `FetchFixture` |
| `MCRawStore`, `MCEvidenceSet`, `MCNormalization`, `MCPipeline`, `MCFetchFixture` | values of the constants for TLC |

An operator whose comment begins with `mutant:` is a plausible bug in the
operator it is named after. It is used by nothing: put in the place of that
operator it makes a property fail, as `PROJECT.json` says which.

### RawStore

`fs` maps a file name `<<digest, "bin" or "tmp">>` to bytes, `Absent`, or `Torn`
(opened for writing, or written in part). `pc[c]` is the next file-system call of
caller `c`; `raw` and `digest` are its locals. `fd[c]` names the file that
`write_bytes` holds open. It is a descriptor, not a name: `Renamed` carries it
along when another caller renames the file, and leaves it `Unlinked` when its
file is replaced. `acked` remembers what `put` has returned.

`put` is `BeginPut`, then `PutExists` or `PutAbsent`, `MakeDir`, `OpenTmp`,
`WriteTmp`, and `Rename` or `RenameMissing`. `get` is `BeginGet`, then
`GetMissing` or `GetFound` and `ReadBytes`. `exists` is the operator `Exists`.
`Fails` is an OSError out of any of these calls, `path.exists()` among them;
`Crash` is a kill at any step. A new process finds the files as they are.

`Sharded` says that no two callers store the same bytes. The service does so
today, since one thread seeds. It is the precondition of the strongest results,
and the runs without it show why.

### Verification, Policy, EvidenceSet

A certificate is its list of SAN URIs and six Fulcio extensions, each a value,
`None` (absent) or `Malformed` (undecodable). Sigstore is external: a bundle has
the set of trust roots under which its signature holds. `Policy` follows
`evaluate.py` function by function; a reason to deny is a kind (`"issuer"`,
`"not the signer"`, ...). The predicate's runner may be `Malformed` (`null` or a
string where the code calls `.get`), and `Evaluate` is then `"AttributeError"`,
if the code looks there at all.

`EvidenceSet` has one variable, the list of items, and one action, the arrival
of one more. Its properties are stated from the documentation of `evaluate`,
by `Trusted`, `CertRefuses` and their parts, without using the reasons.

### Normalize, Normalization

A predicate is a JSON tree: a function from the paths of its leaves to their
values. On it, `Lookup` is a chain of `.get(key, {})`, with `None` for a missing
key and `Malformed` (an `AttributeError`) where a step on the way is no object;
`Subscript` is a chain of `[key]`; `WithoutPaths` is `without_paths`. A URI is its
parts: the prefix `git+`, the login in front of an `@` that is not the ref's
(`ssh://git`), the URL, the ref. `StripGitRef` cuts at the first `@`, so that of a
URI with a login only the login remains, the same for all repositories. `AdaptV02` and `AdaptV1`
follow the two `adapt` functions field by field; their result is `Malformed` if
any lookup or the validation of the model raises. `NormalizeFromRaw` is the
dispatch, an exact match of the predicate type.

`Normalization` has one action, which normalises whatever envelope there is. Its
properties look at the result from outside: through the policy, which compares
`source_repo` with the certificate and searches `raw_unmapped` for the runner, and
from the predicate, of which no leaf should get lost. The adapters and the policy
agree on paths only by convention, and that is what they are about. `Envelopes`,
`Uris` and `Urls` are any sets with `NormalizationAssumption`: keys are strings; where
an adapter reads a URI there is one of `Uris`, nothing, or something on which it raises;
and the login of a URI, having no host, is not the URL of a repository.

### Pipeline

`phase` is the process: down, seeding or serving. `bundle_paths`, `at` and `step`
are where the loop of `seed_from_fixtures` stands; `raw_bytes`, `call` and
`verification` are its locals; `store`, `records_by_raw_digest` and
`subject_index` are what it fills. Each call in the loop is an action, and each
that may raise has a second action that ends the process (`FileMissing`,
`VerifyRaises`, `NormalizeRaises`, `IndexRaises`). `Crash` ends it anywhere. Every start makes a
new temporary directory, so that nothing survives. `RotateRoot` replaces the
trust root at any time. `GetProvenance` is the whole route, one step, because
routes only read tables that no longer change.

The store in `Pipeline` is `ContentStore`. The seeder is the only writer, which
is the case in which `StoreIsAtomic` proves that `store.py` implements it.

What given bytes hold is constant (`Corpus`): `Parsed` is the bundle as VERIFY reads it,
`Envelope` as NORMALISE does, `Subjects` what its statement lists. `Normalized` is
what `Normalize` makes of the envelope, as far as EVALUATE reads it, and
`EvidenceItem` the whole item under a given trust root.

An answer of 500 has two causes in the code, a missing record (`KeyError`) and the
`AttributeError` of the runner lookup. `FailureIsASignedPredicate` says that the
first never happens, and the second only by a bundle about the artifact that is
verified, names its own signer as its builder, and is of the one build type that
the policy looks into. The signer is what `ExtractIdentity` makes of the certificate,
`None` for one without a SAN URI; a predicate that names no builder agrees with that.

### ProvenanceService

The service without its insides: no loop, no store, no tables. A process that was
started either stops, or performs `Publish` once, which says what the evidence for
each digest is from the list of files alone: in their order, one entry per listing,
equal bytes with the record of their last check, each checked under some root no
older than that of the file before it. `Publish` has no loop and no fold: the evidence for a
digest is a sequence in one-to-one correspondence with the places where the files
list it (`Listings`), in an order that follows the files (`Orders`). `Pipeline` implements it (`ImplementsService`)
with `published` as what the route would read in the phase "serving", and `None`
before. `Serve` is then `Publish`, `Exit` is `Stop`, every step of the loop is a
stutter. An entry that is lost, misplaced, doubled, taken from another bundle or
from a root that is no longer that of the last check is a step that the abstract
service does not have.

### FetchFixture

`pc` is the next call of `main`. `args`, `attestations` and `bundle` are its locals,
`bundle_json` and `meta_json` the two files: `Absent`, `Torn` (opened, or written in
part), or their content. `before` and `cut` are history variables, and `status` tells a
run that was stopped as it wrote from one that was stopped before its first `open`.
The sidecar has the repository and the digest, of which its endpoint is made, and
the predicate type. GitHub's answer to a repository and a digest is any of
`Responses`, so it may differ from run to run. `Chosen` is the list
comprehension; `Refuse` is the three early returns with 1; `Stop` is an exception
out of any call, or a kill. A digest on the command line has "sha256:" or not, and
`SubjectDigest` puts it there. An attestation that cannot be decoded makes every run that
meets it raise, chosen or not (`ChooseRaises`), since `statement_of` is applied to
all members of the answer before a file is opened.

## Runs

| run | result | shows |
|---|---|---|
| `store_sharded` | passes | one writer per byte string, and a reader, kills and OSErrors everywhere: `get` is verbatim, acknowledged records stay, records are immutable, the store implements `ContentStore`, and every call ends, whatever a killed one has left |
| `store_shared` | passes | three writers of the same bytes, without faults: files never hold bytes of another digest, and every record is whole once no file is open |
| `store_torn_get` | `GetIsVerbatim` fails | as `store_shared`: a second writer truncates the temporary file that a first renames, and a `get` reads less than was stored |
| `store_put_raises` | `PutNeverRaises` fails | as `store_shared`: the second rename finds no file and raises, where the docstring says "no-op" |
| `policy_evidence` | passes | `ALLOW` exactly for trusted items of one signer; no predicate makes up for a record that refuses; denials stick |
| `policy_predicate_alone` | fails | a certificate with `.9 = .18` and no `.11` leaves the runner to the predicate, which the module docstring excludes |
| `policy_undecided` | fails | `"internalParameters": null` raises out of `evaluate`: neither ALLOW nor DENY |
| `normalize` | passes | the policy finds the runner that the predicate names; a source that is another repository always contradicts the certificate, in every spelling, and the same one does not where it is spelled as expected; a v1 revision is the source's own |
| `normalize_unmapped` | fails | `configSource.entryPoint`, `workflow.path` and the like are in no field and not in `raw_unmapped` |
| `pipeline` | passes | no index entry without a record; cached facts are those of the stored bytes; a service that answers has indexed everything; ALLOW traces back to bundles; answers are about the artifact; a request fails on nothing but a signed predicate; seeding ends; the whole implements `ProvenanceService` |
| `pipeline_trust_root` | fails | two records with the label `"production"` were checked against different roots |
| `fetch` | passes | a run that saved has saved the one attestation asked for, with its sidecar, over whatever was there; a run touches the files only with the one selected attestation in hand, so one that refused or was stopped before leaves them; the two files go together unless a run was stopped as it wrote |

The six that fail are disagreements between the code and its own documentation;
`PROJECT.json` quotes both sides under "findings".

### Bounds, and why they are enough

- `store_sharded`: two callers with bytes of their own, each reading the other's
  too, with kills and OSErrors. Its safety properties are theorems for any number
  of callers; the run is there for `CallsReturn` and its mutants.
- The other `store_*`: three callers, two byte strings. The interference in `put` is
  between the holder of the temporary file and one that truncates or renames
  it, with a third to read or to write meanwhile. Different bytes share no file
  name, so a second byte string is there for mix-ups. Calls are not bounded: the
  state space is finite. They have no faults, because a kill with shared writers
  only repeats the torn record.
- `policy_*`: the first item is any of a product of all cases `evaluate` tells
  apart (five outcomes and issuers, seven pairs of signer and named builder,
  five shapes of the workflow claims, three runners, five predicates; and for
  one signer five shapes of the source claims); the second is one of seven that
  are trusted or denied for one reason each. Two items are what disagreement and
  ordering need; the theorems hold for any number.
- `normalize_*`: every part that an adapter looks at is present, missing, null or
  of the wrong shape. For v0.2 all parts vary together; for v1 the source and
  the dependencies do, and separately build type, internal parameters, builder
  and invocation, since nothing in the adapter relates the two groups. Two
  repositories, plain, with prefix and ref, or with a login as well, and up to two dependencies: the
  loop over them stops at the first match.
- `pipeline`: eight byte strings, one for each thing that can become of a
  bundle (trusted; valid under the first root only and listing its artifact
  twice; a predicate that raises in the policy; reusable workflow; no sha256
  subject; a statement with malformed subjects; not normalisable; not parsable), ten files with one duplicate and
  one missing, all lists of up to two files and the lists of three in which a
  file comes twice around the rotated one. Two trust roots (`MaxRoot`), two
  subjects per statement (`MaxSubjects`). Restarts are not bounded.
- `fetch`: two digests and two repositories; of the first repository, one digest has two attestations with a predicate type and one
  without, in answers of none, one or two; the other has one that can be decoded
  and one that cannot. The other repository, a fork, has one attestation of the first
  digest. Selectors that select one type, all types, or none given.
  Two attestations are what "several" needs, and two digests or repositories what a stale sidecar
  needs. The number of runs is not bounded.

`CHECK_DEADLOCK FALSE` is set where the feed of evidence runs out, and
where the one envelope is normalised. The other
systems never stop.

### Fairness

`SeedingEnds` needs weak fairness of `Seed`, the steps of the seeding thread: it is
one thread in a `for` loop over a finite sequence, without locks or waiting, and
each call returns or raises. This assumes that the fetch of the trust root ends.
Kills, queries and rotations have no fairness.

`CallsReturn` is checked under `FairSpec`, with weak fairness of `Continue(c)` for
each caller `c`: its next step inside a call that has begun. Nothing obliges a
caller to call, and nothing obliges a call to fail or a process to be killed. The
code justifies it since `put` and `get` have no loop, no lock and no wait, and the
operating system schedules every thread. What the property adds to that is that
no step is ever disabled by another caller or by a file that a dead one has left:
opening the temporary file exclusively, as one would to keep a second writer out,
makes it fail after the first kill.

Of the fetcher no liveness is claimed: it waits for a network without a timeout.

## Proofs

TLAPS checks these for every value of the constants, from the assumptions that
their modules state:

- `RawStoreAssumption`: sha256 is a function without collisions on the bytes that are
  ever stored, and `Absent` and `Torn` are no bytes;
- `FetchAssumption`: the answers of GitHub are sequences of attestations; `None`,
  `Absent` and `Torn` are none;
- `PolicyAssumption`, `FeedAssumption`: levels are numbers, `None` is no builder, no
  issuer, no check that passed and no decision, items are records with the fields of
  the code;
- `CorpusAssumption`: sha256 again; a run is started with a sequence of files; a
  statement has at most `MaxSubjects` subjects, any number;
- `PipelineAssumption`: there is some number `MaxRoot` of trust roots, and an evidence
  item is not `None`, which stands for a key that is missing;
- `NormalizationAssumption`: as said above under Normalization.

| theorem | states |
|---|---|
| `TypeCorrect` | `TypeOK` |
| `ContentIsAddressed` | `ContentAddressed`, with any sharing of bytes |
| `GetReturnsTheBytes`, `AckedIsDurable`, `RecordsAreImmutable` | `GetIsVerbatim`, `AckedReadable`, `Immutable`, if `Sharded` |
| `PutIsQuiet` | `PutNeverRaises`, if `Sharded` and no call fails |
| `StoreIsAtomic` | `ImplementsContentStore`, if `Sharded` |
| `QuiescentRecordsAreWhole` | `QuiescentVerbatim`, with any sharing of bytes, if no call fails and no caller is killed |
| `ItemVerdict` | no reason against an item exactly when it is `Trusted` |
| `AllowEarned`, `PredicateNeverBuysTrust`, `DenialSticks` | `AllowIsEarned`, `PredicateCannotBuyTrust`, `DenialIsSticky`, for evidence sets of any length |
| `SavedIsAsked`, `RefusalKeepsFiles`, `SidecarGoesWithBundle` | `SavedAsAsked`, `RefusalIsHarmless`, `SidecarDescribesBundle`, for any attestations, selectors, answers and runs |
| `FetchTypeCorrect` | `TypeOK` of the fetcher |
| `RunnerIsReached`, `SourceIsCompared`, `RevisionIsCommitOfTheSource` | `RunnerReachesPolicy`, `SourceIsCrossChecked`, `RevisionIsOfTheSource`, for predicates of any shape, any URIs and any number of dependencies |
| `PipelineInvariant` | `PipelineInv`, on which the next seven rest |
| `PipelineTypeCorrect`, `IndexNeverDangles`, `FactsAreOfTheStore`, `ServiceIsComplete` | `TypeOK`, `NoDanglingIndex`, `FactsMatchStore`, `ServedIsComplete`, for any files, lists of files, kills and roots |
| `AnswersAreAboutTheArtifact`, `AllowGoesBackToBundles`, `FailuresAreOfSignedPredicates` | `EvidenceIsAboutTheArtifact`, `AllowIsBackedByBundles`, `FailureIsASignedPredicate`, of every answer |
| `ServiceIsImplemented` | `ImplementsService` |

The argument for the store. `TypeOK` is not inductive on its own: a step reads
locals that exist only during a call, so `TypeInv` adds `CallOK`, which says for
each value of `pc` what the locals hold. `ContentAddressed` is inductive over
`TypeInv`, since a descriptor of `c` is always one of a file of `c`'s own digest.
The rest needs `ShardedInv`: a caller on the way from `open` to `rename` owns the
temporary file of its digest (`Owner`, `Known`), so no record is ever `Torn`
(`NoTorn`), from which verbatim reads, durability and immutability follow.
For `StoreIsAtomic`, `Rename` and `PutExists` map to `Put`, `ReadBytes` to `Get`,
`GetMissing` to `GetMissing`, failures to `Raise`, kills to `Die`, and every other
step to a stutter; the initial states map to initial states. For
`QuiescentRecordsAreWhole` the invariant is `TornIsOpen`: a file that lacks bytes is
open in some caller, through every rename of it. A failure or a kill would leave
one behind that nobody has open, hence the hypothesis; with shared writers a later
rename may then publish it.

The argument for the policy. `ItemVerdict` goes branch by branch through
`EvaluateItem`; typing of the evidence set lifts it from an item to the set; and
`DenialSticks` rests on `ReasonsGrow`: an arrival only adds reasons.

The argument for the fetcher. Its properties speak mostly of the idle program, so
none is inductive. `FetchInv` adds `RunOK`, which follows a run from call to call: up
to the first `open` the files are those from before, from `Choose` on the bundle is
the one selected from an answer to the digest asked for, and after its write the
file holds it. `WriteMeta` then makes the pair whole (`MetaDescribes`), and a `Stop`
either comes before the first open, or makes the run "cut off". What is selected
depends on the locals of `main` alone (`SelectedByLocals`), so that a run which has
ended still shows that it was right to open the files. A run that is cut off does
leave a pair that does not go together: the code writes in place and promises no more.

The argument for NORMALISE. A provenance is there or is not (`NormalizationInv`), so
the work is in the operators. `Above` is transitive, so a path with no mapped one above
it is looked up in `raw_unmapped` as in the predicate (`LookupIsKept`); no mapped path is
above the way to the runner (`RunnerIsNotMapped`).
A URI without a login strips to its URL (`PlainUri`); one with a login strips to
the login, which no certificate names: that is where the assumption on logins is needed. `SourceRevision` chooses the least matching
dependency, which exists by well-foundedness (`Least`).

The argument for seeding. What the properties speak of is the end of the loop or
the tables; none of them is inductive. `PipelineInv` says what each call of the loop
hands to the next (`LoopInv`: the digest is that of the bytes just read, the store
returned them, the verification is theirs), and what the passes so far have left:
a store of verbatim bytes (`StoreInv`), records made of them (`FactsInv`, which between
`Verify` and `Normalize` of bytes that come again must allow the record to be older
than `checked`), every file that is done in store and records (`SeededInv`), and an
index whose entries correspond one to one, in order, to the listings of those files
(`IndexInv`). Counting alone would not be inductive, as it could not tell an entry
that is missing from one that is doubled elsewhere. `Index` extends the
correspondence by the new listings, all of which are those of the file at hand.
Answers are given from tables that no longer change (`ResponseInv`), so
what the policy says of an answer is pulled back through `EvidenceFor`, the records
and the store to the bundles.

The argument for the refinement. `published` is what the route would read.
`Start`, `Exit`, `RotateRoot` and `GetProvenance` map to the actions of the same
meaning, the loop to stutters, and `Serve` to `Publish`. For that one, `Publish` must
be given a root for each file, of which the code keeps only the last one for each
digest. `RootsInv` says that there always is such a list: it never decreases, and
`checked` agrees with it on the last file with given bytes. `VerifyRoots` extends it
by the root of now. The correspondence in `IndexInv` at the end of the loop is the
one that `EvidenceOf` asks for.

Proving showed what checking had not. A first form of `FailureIsASignedPredicate`
named the first SAN as the signer, which a certificate without one does not have;
and that `None` differs from the values that it takes the place of was used all over
and stated nowhere.

Only model-checked: the liveness properties `SeedingEnds` and `CallsReturn`, which are
out of the provers' reach as are fairness and ENABLED, and the six runs that fail.
Every invariant and action property that a passing run checks is a theorem; the
runs show it on an instance and carry the mutants.

## Not modelled, and why

- Two runs of the fetcher at once on one directory: it is run by hand. The network
  and `gh` are its surroundings.
- Inside NORMALISE: dependencies that are no objects; the digests of a dependency
  besides the one that is read. `source_repo` of v1 keeps the prefix and the ref of
  its predicate, other than models/provenance.py:65 says; the docstring of
  `v1_0.py` concedes the mismatch, and `SourceIsCrossChecked` shows that it can
  only deny.
- Sigstore's cryptography, FastAPI, pydantic, uvicorn: libraries. Their outcomes
  are constants or choices.
- Loss of power. `put` calls no fsync, so what a rename is worth after a power
  failure is up to the file system. Kills of the process are modelled.
- SBOM, corpus policy, re-verification, late binding: not built.
- Wording of reasons, `verified_at`, `error`, `payload_type`, `policy_version`,
  invocation ids and dependencies: no condition in the code reads them.

## Plan

1. Done: every component modelled and checked; theorems for every safety property
   of the passing runs, and for both refinements.
2. Weaker hypotheses: `QuiescentVerbatim` under failures, for digests whose writers
   all returned; `GetIsVerbatim` for the digests that only one caller stores, instead
   of `Sharded` as a whole.
3. `Pipeline` over `RawStore` itself, composed from `StoreIsAtomic` with one
   caller, which `Sharded` then holds of by itself.
4. What `AllowIsEarned` says of an answer of the route: `EvidenceSetProofs` and
   `PipelineProofs` joined over `Items`.
