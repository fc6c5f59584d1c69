--------------------------- MODULE ServiceProofs ---------------------------
(***************************************************************************)
(* Pipeline implements ProvenanceService: the loop, the store and the two  *)
(* tables are, seen from the route, one instant at which the evidence of   *)
(* all files is published.                                                 *)
(*                                                                         *)
(* Besides PipelineInv this takes the roots that the files were checked    *)
(* against, one for each file (RootsInv), which Publish chooses and the    *)
(* code has only, for each digest, the last of.                            *)
(***************************************************************************)
EXTENDS PipelineProofs

-----------------------------------------------------------------------------
(* ProvenanceService has operators of its own by the names of Corpus and   *)
(* the modules below it. They are the same, since so are the constants.    *)

\* Where a statement lists a digest.
LEMMA SameListed ==
    ASSUME NEW b, NEW d
    PROVE  Service!Listed(b, d) = Listed(b, d)
  BY DEF Service!Listed, Listed

\* How the adapters look at a predicate.
LEMMA SameLookup ==
    ASSUME NEW obj, NEW path
    PROVE  /\ Service!Lookup(obj, path) = Lookup(obj, path)
           /\ Service!Subscript(obj, path) = Subscript(obj, path)
           /\ Service!Dependencies(obj, path) = Dependencies(obj, path)
  BY Zenon DEF Service!Lookup, Lookup, Service!Above, Above, Service!Subscript, Subscript,
               Service!Dependencies, Dependencies

\* And what they leave of it.
LEMMA SameLeftOver ==
    ASSUME NEW obj, NEW paths
    PROVE  Service!WithoutPaths(obj, paths) = WithoutPaths(obj, paths)
  BY Zenon DEF Service!WithoutPaths, WithoutPaths, Service!Above, Above

\* The revision that v1 finds for a source.
LEMMA SameSource ==
    ASSUME NEW deps, NEW repo
    PROVE  Service!SourceRevision(deps, repo) = SourceRevision(deps, repo)
  BY Zenon DEF Service!SourceRevision, SourceRevision, Service!StripGitRef, StripGitRef,
               Service!Plain, Plain

\* The validation of the model.
LEMMA SameCanonical ==
    ASSUME NEW provenance
    PROVE  Service!Canonical(provenance) = Canonical(provenance)
  BY DEF Service!Canonical, Canonical

\* What is cut off a URI.
LEMMA SameStrip ==
    ASSUME NEW uri
    PROVE  Service!StripGitRef(uri) = StripGitRef(uri)
  BY DEF Service!StripGitRef, StripGitRef, Service!Plain, Plain

\* The two adapters.
LEMMA SameAdapters ==
    ASSUME NEW predicate
    PROVE  /\ Service!AdaptV02(predicate) = AdaptV02(predicate)
           /\ Service!AdaptV1(predicate) = AdaptV1(predicate)
<1>1. Service!MappedV02 = MappedV02 /\ Service!MappedV1 = MappedV1
  BY DEF Service!MappedV02, MappedV02, Service!MappedV1, MappedV1
<1>2. Service!AdaptV02(predicate) = AdaptV02(predicate)
  BY <1>1, SameLookup, SameLeftOver, SameCanonical, SameStrip DEF Service!AdaptV02, AdaptV02
<1>3. Service!AdaptV1(predicate) = AdaptV1(predicate)
  BY <1>1, SameLookup, SameLeftOver, SameSource, SameCanonical DEF Service!AdaptV1, AdaptV1
<1>. QED
  BY <1>2, <1>3

\* What NORMALISE makes of given bytes.
LEMMA SameNormalized == Service!Normalized = Normalized
<1>1. ASSUME NEW envelope
      PROVE  Service!NormalizeFromRaw(envelope) = NormalizeFromRaw(envelope)
  BY SameAdapters, Zenon DEF Service!NormalizeFromRaw, NormalizeFromRaw,
     Service!StatementFromRaw, StatementFromRaw
<1>2. ASSUME NEW provenance
      PROVE  Service!Facts(provenance) = Facts(provenance)
  BY SameLookup, Zenon DEF Service!Facts, Facts, Service!RunnerPath, RunnerPath
<1>. QED
  BY <1>1, <1>2, Zenon DEF Service!Normalized, Normalized

\* Sizes and one-to-one correspondences.
LEMMA SameOrders ==
    ASSUME NEW S, NEW T
    PROVE  /\ Service!Cardinality(S) = Cardinality(S)
           /\ Service!Bijection(S, T) = Bijection(S, T)
<1>1. Service!Cardinality(S) = Cardinality(S)
  BY Zenon DEF Service!Cardinality, Cardinality
<1>2. Service!Bijection(S, T) = Bijection(S, T)
  BY Zenon DEF Service!Bijection, Bijection, Service!Injection, Injection,
               Service!Surjection, Surjection, Service!IsInjective, IsInjective
<1>. QED
  BY <1>1, <1>2

\* What VERIFY and NORMALISE together make of them.
LEMMA SameItem ==
    ASSUME NEW d, NEW b, NEW r
    PROVE  Service!EvidenceItem(d, b, r) = EvidenceItem(d, b, r)
  BY SameNormalized
     DEF Service!EvidenceItem, EvidenceItem, Service!VerifyFromRaw, VerifyFromRaw,
         Service!Checks, Checks, Service!ExtractIdentity, ExtractIdentity,
         Service!ExtractCertClaims, ExtractCertClaims, Service!Utf8Extension, Utf8Extension

\* The decision about given evidence.
LEMMA SameEvaluate ==
    ASSUME NEW e
    PROVE  Service!Evaluate(e) = Evaluate(e)
  BY DEF Service!Evaluate, Evaluate, Service!Reasons, Reasons,
         Service!EvaluateItem, EvaluateItem, Service!ItemsOf, ItemsOf,
         Service!DisagreementReasons, DisagreementReasons, Service!BuilderIds, BuilderIds,
         Service!IssuerReasons, IssuerReasons, Service!LevelReasons, LevelReasons,
         Service!RunnerReasons, RunnerReasons, Service!FullyVerified, FullyVerified,
         Service!CertContradictions, CertContradictions, Service!Contradicts, Contradicts,
         Service!RunnerEnvironment, RunnerEnvironment,
         Service!PredicateRunnerEnvironment, PredicateRunnerEnvironment,
         Service!SignerIsReusableWorkflow, SignerIsReusableWorkflow,
         Service!SignerIsCallingWorkflow, SignerIsCallingWorkflow

\* And the answer of the route to it.
LEMMA SameAnswer ==
    ASSUME NEW t, NEW d, NEW e
    PROVE  Service!Answer(t, d, e) = Answer(t, d, e)
  BY SameEvaluate
     DEF Service!Answer, Answer, Service!Associate, Associate, Service!ItemsOf, ItemsOf

\* No answer yet.
LEMMA SameNoResponse == Service!NoResponse = NoResponse
  BY DEF Service!NoResponse, NoResponse

-----------------------------------------------------------------------------
(* The roots that the files were checked against                           *)

\* How many files VERIFY has been through.
CheckedFiles == IF step \in {"normalize", "index"} THEN at ELSE at - 1

\* A root for each of the first n files: what is on record for equal bytes is
\* that of the last file that has them.
Roots(n) ==
    {roots \in [1..n -> 1..root] :
        /\ \A i, j \in 1..n : i <= j => roots[i] <= roots[j]
        /\ \A i \in 1..n : \E j \in 1..n :
              /\ Content(j) = Content(i)
              /\ \A k \in 1..n : Content(k) = Content(i) => k <= j
              /\ checked[digest_of[Content(i)]] = roots[j]}

RootsInv == \E n \in Nat : n = CheckedFiles /\ Roots(n) # {}

\* A step that checks nothing leaves the roots as they are.
LEMMA RootsKept ==
    ASSUME NEW n \in Nat, Roots(n) # {}, root \in Nat, root' \in Nat, root <= root',
           UNCHANGED <<bundle_paths, checked>>
    PROVE  Roots(n)' # {}
<1>1. PICK roots \in Roots(n) : TRUE
  OBVIOUS
<1>2. roots \in [1..n -> 1..root']
  BY <1>1 DEF Roots
<1>3. /\ \A i, j \in 1..n : i <= j => roots[i] <= roots[j]
      /\ \A i \in 1..n : \E j \in 1..n :
            /\ Content(j)' = Content(i)'
            /\ \A k \in 1..n : Content(k)' = Content(i)' => k <= j
            /\ checked'[digest_of[Content(i)']] = roots[j]
  BY <1>1, Zenon DEF Roots, Content
<1>4. roots \in Roots(n)'
  BY <1>2, <1>3, Zenon DEF Roots
<1>. QED
  BY <1>4

\* No file, no root.
LEMMA NoRoots == Roots(0) # {}
<1>1. [k \in 1..0 |-> k] \in Roots(0)
  BY DEF Roots
<1>. QED
  BY <1>1

\* VERIFY adds the root of now, which is the latest there was, and puts it on
\* record for the bytes of its file and for no others.
LEMMA VerifyRoots == PipelineInv /\ RootsInv /\ Verify => RootsInv'
<1>. SUFFICES ASSUME PipelineInv, RootsInv, Verify
              PROVE  RootsInv'
  OBVIOUS
<1>1. /\ step = "verify" /\ step' = "normalize"
      /\ checked' = [checked EXCEPT ![RawDigest] = root]
      /\ UNCHANGED <<bundle_paths, at, root>>
  BY DEF Verify, Seeding, around
<1>2. at \in Nat \ {0} /\ root \in Nat \ {0} /\ DOMAIN checked = Digests
  BY PipelineAssumption DEF PipelineInv, TypeOK
<1>3. RawDigest = digest_of[Content(at)] /\ Content(at) \in Bytes /\ RawDigest \in Digests
  BY <1>1, DigestType DEF PipelineInv, LoopInv
<1>4. \A i \in 1..(at - 1) : Content(i) \in Bytes
  BY DEF PipelineInv, SeededInv, Fit
<1>5. PICK old \in Roots(at - 1) : TRUE
  BY <1>1, <1>2 DEF RootsInv, CheckedFiles
<1>6. /\ old \in [1..(at - 1) -> 1..root]
      /\ \A i, j \in 1..(at - 1) : i <= j => old[i] <= old[j]
      /\ \A i \in 1..(at - 1) : \E j \in 1..(at - 1) :
            /\ Content(j) = Content(i)
            /\ \A k \in 1..(at - 1) : Content(k) = Content(i) => k <= j
            /\ checked[digest_of[Content(i)]] = old[j]
  BY <1>5, Zenon DEF Roots
<1>. DEFINE new == [k \in 1..at |-> IF k = at THEN root ELSE old[k]]
<1>7. /\ new[at] = root
      /\ \A k \in 1..(at - 1) : k \in 1..at /\ new[k] = old[k] /\ old[k] \in 1..root
      /\ \A k \in 1..at : k = at \/ k \in 1..(at - 1)
  BY <1>2, <1>6
<1>8. new \in [1..at -> 1..root]
  BY <1>2, <1>6
<1>. HIDE DEF new
<1>9. \A i, j \in 1..at : i <= j => new[i] <= new[j]
  <2>. SUFFICES ASSUME NEW i \in 1..at, NEW j \in 1..at, i <= j
                PROVE  new[i] <= new[j]
    OBVIOUS
  <2>1. CASE j = at
    BY <1>2, <1>7, <2>1
  <2>2. CASE j # at
    <3>1. i \in 1..(at - 1) /\ j \in 1..(at - 1)
      BY <1>2, <2>2
    <3>. QED
      BY <1>6, <1>7, <3>1
  <2>. QED
    BY <2>1, <2>2
<1>10. ASSUME NEW i \in 1..at
       PROVE  \E j \in 1..at :
                /\ Content(j) = Content(i)
                /\ \A k \in 1..at : Content(k) = Content(i) => k <= j
                /\ checked'[digest_of[Content(i)]] = new[j]
  <2>1. CASE Content(i) = Content(at)
    <3>1. checked'[digest_of[Content(i)]] = new[at]
      BY <1>1, <1>2, <1>3, <1>7, <2>1
    <3>. QED
      BY <1>2, <2>1, <3>1
  <2>2. CASE Content(i) # Content(at)
    <3>1. i \in 1..(at - 1)
      BY <1>7, <2>2
    <3>2. digest_of[Content(i)] # RawDigest /\ digest_of[Content(i)] \in Digests
      BY <1>3, <1>4, <2>2, <3>1, CorpusAssumption
    <3>3. checked'[digest_of[Content(i)]] = checked[digest_of[Content(i)]]
      BY <1>1, <1>2, <3>2
    <3>4. PICK j \in 1..(at - 1) :
              /\ Content(j) = Content(i)
              /\ \A k \in 1..(at - 1) : Content(k) = Content(i) => k <= j
              /\ checked[digest_of[Content(i)]] = old[j]
      BY <1>6, <3>1
    <3>. QED
      BY <1>7, <2>2, <3>3, <3>4
  <2>. QED
    BY <2>1, <2>2
<1>11. bundle_paths' = bundle_paths /\ root' = root /\ CheckedFiles' = at
  BY <1>1 DEF CheckedFiles
<1>12. PICK n \in Nat : n = at
  BY <1>2
<1>13. \A i \in 1..n : \E j \in 1..n :
          /\ Content(j)' = Content(i)'
          /\ \A k \in 1..n : Content(k)' = Content(i)' => k <= j
          /\ checked'[digest_of[Content(i)']] = new[j]
  BY <1>10, <1>11, <1>12, Zenon DEF Content
<1>14. new \in Roots(n)'
  BY <1>8, <1>9, <1>11, <1>12, <1>13, Zenon DEF Roots
<1>. QED
  BY <1>11, <1>12, <1>14 DEF RootsInv

\* The invariant and the roots hold in every state.
LEMMA RootsInvariant == Spec => [](PipelineInv /\ RootsInv)
<1>1. Fresh => RootsInv
  BY NoRoots DEF Fresh, RootsInv, CheckedFiles
<1>2. Init => RootsInv
  BY <1>1, PipelineAssumption DEF Init, Fresh
<1>3. PipelineInv /\ Exit => RootsInv'
  <2>1. PipelineInv /\ Exit => Fresh'
    BY DEF PipelineInv, TypeOK, Exit, Fresh, EmptyStore, NoCall, NoRecords, NoIndex
  <2>. QED
    BY <2>1, <1>1, PTL
<1>4. PipelineInv /\ RootsInv /\ (\E paths \in PathLists : Start(paths)) => RootsInv'
  <2>. SUFFICES ASSUME PipelineInv, \E paths \in PathLists : Start(paths)
                PROVE  RootsInv'
    OBVIOUS
  <2>1. CheckedFiles' = 0
    BY DEF Start, seeding, PipelineInv, DownInv, CheckedFiles
  <2>2. (Roots(0) # {})'
    BY NoRoots, PTL
  <2>. QED
    BY <2>1, <2>2 DEF RootsInv
<1>5. ASSUME PipelineInv, RootsInv, UNCHANGED <<bundle_paths, checked>>,
             CheckedFiles' = CheckedFiles, root' \in {root, root + 1}
      PROVE  RootsInv'
  <2>1. PICK n \in Nat : n = CheckedFiles /\ Roots(n) # {}
    BY <1>5 DEF RootsInv
  <2>2. root \in Nat /\ root' \in Nat /\ root <= root'
    BY <1>5, PipelineAssumption DEF PipelineInv, TypeOK
  <2>3. Roots(n)' # {}
    BY <1>5, <2>1, <2>2, RootsKept
  <2>. QED
    BY <1>5, <2>1, <2>3 DEF RootsInv
<1>6. PipelineInv /\ RootsInv /\ [Next]_vars => RootsInv'
  <2>. SUFFICES ASSUME PipelineInv, RootsInv, [Next]_vars
                PROVE  RootsInv'
    OBVIOUS
  <2>1. CASE Exit
    BY <1>3, <2>1
  <2>2. CASE Verify
    BY <2>2, VerifyRoots
  <2>3. CASE \E paths \in PathLists : Start(paths)
    BY <1>4, <2>3
  <2>4. CASE ReadFile \/ PutRaw \/ GetStored \/ Normalize \/ Index
    <3>1. UNCHANGED <<bundle_paths, checked, root>>
      BY <2>4 DEF ReadFile, PutRaw, GetStored, Normalize, Index, around
    <3>2. CheckedFiles' = CheckedFiles
      BY <2>4 DEF ReadFile, PutRaw, GetStored, Normalize, Index, Seeding, CheckedFiles,
                  PipelineInv, TypeOK
    <3>. QED
      BY <1>5, <3>1, <3>2
  <2>5. CASE Serve \/ RotateRoot \/ UNCHANGED vars
             \/ (\E t \in Tenants, d \in SubjectDigests : GetProvenance(t, d))
    <3>1. UNCHANGED <<bundle_paths, seeding>> /\ root' \in {root, root + 1}
      BY <2>5 DEF Serve, RotateRoot, GetProvenance, vars, around
    <3>2. CheckedFiles' = CheckedFiles
      BY <3>1 DEF seeding, CheckedFiles
    <3>. QED
      BY <1>5, <3>1, <3>2 DEF seeding
  <2>. QED
    BY <2>1, <2>2, <2>3, <2>4, <2>5
       DEF Next, Seed, Crash, FileMissing, VerifyRaises, NormalizeRaises, IndexRaises
<1>. QED
  BY <1>2, <1>6, PipelineInvariant, PTL DEF Spec, PipelineInv

-----------------------------------------------------------------------------
(* The steps of the service                                                *)

\* What the route answers from, which is nothing before Serve.
Published ==
    IF phase = "serving" THEN [d \in SubjectDigests |-> EvidenceFor(d)] ELSE None

\* Each step of the process is a step of the service, or none.
LEMMA InitIsService == Init => Service!Init
  BY SameNoResponse DEF Init, Service!Init

\* A process starts.
LEMMA StartIsService == ASSUME NEW paths \in PathLists, Start(paths) PROVE Service!Start
  BY DEF Start, Service!Start

\* Every way to end is Stop: nothing stays published.
LEMMA ExitIsService == ASSUME phase # "down", Exit PROVE Service!Stop
  BY SameNoResponse DEF Exit, Service!Stop

\* The body of the loop publishes nothing.
LEMMA BodyIsService ==
    ASSUME phase = "seeding", UNCHANGED around
    PROVE  UNCHANGED Service!vars
  BY DEF around, Service!vars

\* The root moves on around a service that stays as it is.
LEMMA RotateIsService == RotateRoot => Service!RotateRoot
<1>. SUFFICES ASSUME RotateRoot
              PROVE  Service!RotateRoot
  OBVIOUS
<1>1. UNCHANGED <<phase, subject_index, records_by_raw_digest>>
  BY DEF RotateRoot, seeding
<1>2. Published' = Published
  BY <1>1, Zenon DEF Published, EvidenceFor
<1>. QED
  BY <1>2 DEF RotateRoot, Service!RotateRoot, Published

\* The route answers from what is published.
LEMMA AnswerIsService ==
    ASSUME NEW t \in Tenants, NEW d \in SubjectDigests, GetProvenance(t, d)
    PROVE  Service!GetProvenance(t, d)
<1>1. UNCHANGED <<phase, subject_index, records_by_raw_digest>>
  BY DEF GetProvenance, seeding
<1>2. Published' = Published
  BY <1>1, Zenon DEF Published, EvidenceFor
<1>3. Published[d] = EvidenceFor(d)
  BY DEF GetProvenance, Published
<1>4. response' = Service!Answer(t, d, Published[d])
  BY <1>3, SameAnswer DEF GetProvenance
<1>. QED
  BY <1>2, <1>4 DEF GetProvenance, Service!GetProvenance, Published

\* At the end of the loop every file was checked, and what it is published with
\* is what is on record for its bytes.
LEMMA ServeIsService == PipelineInv /\ RootsInv /\ Serve => Service!Publish
<1>. SUFFICES ASSUME PipelineInv, RootsInv, Serve
              PROVE  Service!Publish
  OBVIOUS
<1>1. /\ phase = "seeding" /\ phase' = "serving" /\ at > Len(bundle_paths)
      /\ UNCHANGED <<bundle_paths, seeding, root, response>>
  BY DEF Serve
<1>2. /\ at = Len(bundle_paths) + 1 /\ step = "read"
      /\ DOMAIN bundle_paths = 1..(at - 1) /\ at - 1 \in Nat
  <2>1. bundle_paths \in Seq(Paths) /\ at \in 1..(Len(bundle_paths) + 1)
    BY DEF PipelineInv, TypeOK
  <2>2. at = Len(bundle_paths) + 1
    BY <1>1, <2>1
  <2>. QED
    BY <2>1, <2>2 DEF PipelineInv, LoopInv
<1>3. \A i \in DOMAIN bundle_paths :
         /\ Service!Content(i) = Content(i)
         /\ Fit(Content(i)) /\ Service!Fit(Content(i))
         /\ records_by_raw_digest[digest_of[Content(i)]]
              = EvidenceItem(digest_of[Content(i)], Content(i), checked[digest_of[Content(i)]])
  <2>. SUFFICES ASSUME NEW i \in 1..(at - 1)
                PROVE  /\ Service!Content(i) = Content(i)
                       /\ Fit(Content(i)) /\ Service!Fit(Content(i))
                       /\ records_by_raw_digest[digest_of[Content(i)]]
                            = EvidenceItem(digest_of[Content(i)], Content(i),
                                           checked[digest_of[Content(i)]])
    BY <1>2
  <2>1. /\ Fit(Content(i)) /\ store[digest_of[Content(i)]] = Content(i)
        /\ records_by_raw_digest[digest_of[Content(i)]] # None
    BY DEF PipelineInv, SeededInv
  <2>2. Service!Fit(Content(i))
    BY <2>1, SameNormalized, CorpusAssumption DEF Fit, Service!Fit
  <2>3. digest_of[Content(i)] \in Digests
    BY <2>1, DigestType DEF Fit
  <2>. QED
    BY <1>2, <2>1, <2>2, <2>3 DEF PipelineInv, FactsInv, Content, Service!Content
<1>4. PICK roots \in Roots(at - 1) : TRUE
  BY <1>2 DEF RootsInv, CheckedFiles
<1>5. /\ roots \in [DOMAIN bundle_paths -> 1..root]
      /\ \A i, j \in DOMAIN bundle_paths : i <= j => roots[i] <= roots[j]
      /\ \A i \in DOMAIN bundle_paths : \E j \in DOMAIN bundle_paths :
            /\ Content(j) = Content(i)
            /\ \A k \in DOMAIN bundle_paths : Content(k) = Content(i) => k <= j
            /\ checked[digest_of[Content(i)]] = roots[j]
  BY <1>2, <1>4, Zenon DEF Roots
<1>6. ASSUME NEW i \in DOMAIN bundle_paths
      PROVE  /\ Service!LastCheck(i, roots) = checked[digest_of[Content(i)]]
             /\ Service!ItemOf(i, roots) = records_by_raw_digest[digest_of[Content(i)]]
  <2>. DEFINE last(j) == /\ Content(j) = Content(i)
                         /\ \A k \in DOMAIN bundle_paths : Content(k) = Content(i) => k <= j
  <2>1. PICK j \in DOMAIN bundle_paths : last(j) /\ checked[digest_of[Content(i)]] = roots[j]
    BY <1>5
  <2>2. \A k \in DOMAIN bundle_paths : last(k) => k = j
    BY <1>2, <2>1
  <2>3. (CHOOSE k \in DOMAIN bundle_paths : last(k)) = j
    BY <2>1, <2>2
  <2>4. Service!LastCheck(i, roots) = roots[CHOOSE k \in DOMAIN bundle_paths : last(k)]
    BY Zenon DEF Service!LastCheck, Service!Content, Content
  <2>5. Service!LastCheck(i, roots) = checked[digest_of[Content(i)]]
    BY <2>1, <2>3, <2>4
  <2>. QED
    BY <1>3, <2>5, SameItem DEF Service!ItemOf
<1>7. ASSUME NEW d \in SubjectDigests
      PROVE  EvidenceFor(d) \in Service!EvidenceOf(d, roots)
  <2>. DEFINE n == Len(subject_index[d])
  <2>1. subject_index[d] \in Seq(Digests) /\ n \in Nat /\ DOMAIN subject_index[d] = 1..n
    BY DEF PipelineInv, TypeOK
  <2>2. PICK from \in Orders(subject_index[d], at - 1, d) : TRUE
    BY DEF PipelineInv, IndexInv
  <2>3. /\ from \in Bijection(1..n, Listings(at - 1, d))
        /\ \A k, l \in 1..n : k <= l => from[k][1] <= from[l][1]
        /\ \A k \in 1..n : subject_index[d][k] = digest_of[Content(from[k][1])]
    BY <2>2 DEF Orders
  <2>4. DOMAIN from = 1..n /\ \A k \in 1..n : from[k][1] \in DOMAIN bundle_paths
    BY <1>2, <2>3 DEF Bijection, Injection, Listings
  <2>5. Service!Listings(d) = Listings(at - 1, d)
    BY <1>2, SameListed, Zenon DEF Service!Listings, Listings, Service!Content, Content
  <2>6. Cardinality(Listings(at - 1, d)) = n
    <3>1. ExistsBijection(1..n, Listings(at - 1, d))
      BY <2>3 DEF ExistsBijection
    <3>. QED
      BY <2>1, <3>1, FS_CountingElements
  <2>7. from \in Service!Orders(d)
    <3>1. Service!Cardinality(Service!Listings(d)) = n
      BY <2>5, <2>6, SameOrders
    <3>2. from \in Service!Bijection(1..Service!Cardinality(Service!Listings(d)),
                                    Service!Listings(d))
      BY <2>3, <2>5, <3>1, SameOrders
    <3>3. \A k, l \in DOMAIN from : k <= l => from[k][1] <= from[l][1]
      BY <2>3, <2>4
    <3>. QED
      BY <3>2, <3>3 DEF Service!Orders
  <2>8. EvidenceFor(d) = [k \in DOMAIN from |-> Service!ItemOf(from[k][1], roots)]
    <3>1. \A k \in 1..n : records_by_raw_digest[subject_index[d][k]]
                            = Service!ItemOf(from[k][1], roots)
      BY <1>6, <2>3, <2>4
    <3>. QED
      BY <2>1, <2>4, <3>1, Zenon DEF EvidenceFor
  <2>. QED
    BY <2>7, <2>8 DEF Service!EvidenceOf
<1>8. Published' = [d \in SubjectDigests |-> EvidenceFor(d)]
  <2>1. subject_index' = subject_index /\ records_by_raw_digest' = records_by_raw_digest
    BY <1>1 DEF seeding
  <2>. QED
    BY <1>1, <2>1, Zenon DEF Published, EvidenceFor
<1>9. /\ Published' \in [SubjectDigests ->
                            UNION {Service!EvidenceOf(d, roots) : d \in SubjectDigests}]
      /\ \A d \in SubjectDigests : Published'[d] \in Service!EvidenceOf(d, roots)
  BY <1>7, <1>8
<1>10. \A i \in DOMAIN bundle_paths : Service!Fit(Service!Content(i))
  BY <1>3
<1>. QED
  BY <1>1, <1>5, <1>9, <1>10, Zenon DEF Service!Publish, Published

\* What the process answers from is the evidence of all its files, whatever
\* seeding has been through (seed_from_fixtures, create_app).
THEOREM ServiceIsImplemented == Spec => ImplementsService
<1>1. PipelineInv /\ RootsInv /\ [Next]_vars => [Service!Next]_(Service!vars)
  <2>. SUFFICES ASSUME PipelineInv, RootsInv, [Next]_vars
                PROVE  Service!Next \/ UNCHANGED Service!vars
    OBVIOUS
  <2>1. CASE ReadFile \/ PutRaw \/ GetStored \/ Verify \/ Normalize \/ Index
    BY <2>1, BodyIsService DEF ReadFile, PutRaw, GetStored, Verify, Normalize, Index, Seeding
  <2>2. CASE FileMissing \/ VerifyRaises \/ NormalizeRaises \/ IndexRaises \/ Crash
    <3>1. phase # "down" /\ Exit
      BY <2>2 DEF FileMissing, VerifyRaises, NormalizeRaises, IndexRaises, Crash, Seeding
    <3>. QED
      BY <3>1, ExitIsService DEF Service!Next
  <2>3. CASE Serve
    BY <2>3, ServeIsService DEF Service!Next
  <2>4. CASE \E paths \in PathLists : Start(paths)
    BY <2>4, StartIsService DEF Service!Next
  <2>5. CASE \E t \in Tenants, d \in SubjectDigests : GetProvenance(t, d)
    BY <2>5, AnswerIsService DEF Service!Next
  <2>6. CASE RotateRoot
    BY <2>6, RotateIsService DEF Service!Next
  <2>7. CASE UNCHANGED vars
    <3>1. UNCHANGED <<phase, bundle_paths, root, response, subject_index, records_by_raw_digest>>
      BY <2>7 DEF vars, around, seeding
    <3>2. Published' = Published
      BY <3>1, Zenon DEF Published, EvidenceFor
    <3>. QED
      BY <3>1, <3>2 DEF Published, Service!vars
  <2>. QED
    BY <2>1, <2>2, <2>3, <2>4, <2>5, <2>6, <2>7 DEF Next, Seed
<1>. QED
  BY <1>1, InitIsService, RootsInvariant, PTL DEF Spec, ImplementsService, Service!Spec

=============================================================================
