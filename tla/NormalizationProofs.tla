------------------------ MODULE NormalizationProofs ------------------------
(***************************************************************************)
(* Theorems about Normalization, for predicates of any shape and any size: *)
(* what EVALUATE reads of a provenance is what the signed predicate says.  *)
(***************************************************************************)
EXTENDS Normalization, WellFoundedInduction, TLAPS

\* What was made of the envelope, once anything was.
NormalizationInv ==
    envelope \in Envelopes /\ provenance \in {None, NormalizeFromRaw(envelope)}

\* An envelope stays, and is normalised once.
LEMMA NormalizationInvariant == Spec => []NormalizationInv
<1>1. Init => NormalizationInv
  BY DEF Init, NormalizationInv
<1>2. NormalizationInv /\ [Next]_vars => NormalizationInv'
  BY DEF NormalizationInv, Next, vars
<1>. QED
  BY <1>1, <1>2, PTL DEF Spec

-----------------------------------------------------------------------------
(* Paths and predicates                                                    *)

\* One path above another one, above a third.
LEMMA AboveIsTransitive ==
    ASSUME NEW S, NEW p \in Seq(S), NEW T, NEW q \in Seq(T), NEW r \in Seq(S),
           Above(p, q), Above(q, r)
    PROVE  Above(p, r)
<1>1. /\ Len(p) \in Nat /\ Len(q) \in Nat /\ Len(r) \in Nat
      /\ Len(p) <= Len(q) /\ Len(q) <= Len(r)
      /\ p = SubSeq(q, 1, Len(p)) /\ q = SubSeq(r, 1, Len(q))
  BY DEF Above
<1>2. \A i \in 1..Len(p) : p[i] = r[i]
  <2>. SUFFICES ASSUME NEW i \in 1..Len(p)
                PROVE  p[i] = r[i]
    OBVIOUS
  <2>1. SubSeq(q, 1, Len(p))[i] = q[i]
    BY <1>1
  <2>2. SubSeq(r, 1, Len(q))[i] = r[i]
    BY <1>1
  <2>. QED
    BY <1>1, <2>1, <2>2
<1>3. SubSeq(r, 1, Len(p)) = p
  BY <1>1, <1>2
<1>. QED
  BY <1>1, <1>3 DEF Above

\* What is removed from a predicate leaves a lookup alone, if none of it is on
\* the way there.
LEMMA LookupIsKept ==
    ASSUME NEW T, NEW obj, DOMAIN obj \subseteq Seq(T),
           NEW S, NEW paths \in SUBSET Seq(S), NEW path \in Seq(S),
           \A q \in paths : ~Above(q, path)
    PROVE  Lookup(WithoutPaths(obj, paths), path) = Lookup(obj, path)
<1>. DEFINE left == WithoutPaths(obj, paths)
<1>1. /\ \A p : p \in DOMAIN left <=> p \in DOMAIN obj /\ \A q \in paths : ~Above(q, p)
      /\ \A p \in DOMAIN left : left[p] = obj[p]
  BY Zenon DEF WithoutPaths
<1>2. path \in DOMAIN left <=> path \in DOMAIN obj
  BY <1>1
<1>3. (\E p \in DOMAIN left : Above(p, path)) <=> (\E p \in DOMAIN obj : Above(p, path))
  <2>. SUFFICES ASSUME NEW p \in DOMAIN obj, Above(p, path)
                PROVE  p \in DOMAIN left
    BY <1>1
  <2>1. ASSUME NEW q \in paths, Above(q, p)
        PROVE  FALSE
    BY <2>1, AboveIsTransitive
  <2>. QED
    BY <1>1, <2>1
<1>. HIDE DEF left
<1>4. Lookup(left, path) = Lookup(obj, path)
  BY <1>1, <1>2, <1>3 DEF Lookup
<1>. QED
  BY <1>4 DEF left

\* The keys that the adapters and the policy name on these ways.
Keys == {"builder", "buildType", "invocation", "configSource", "metadata",
         "buildInvocationID", "materials", "buildDefinition", "externalParameters",
         "resolvedDependencies", "runDetails", "invocationId", "internalParameters",
         "github", "runner_environment"}

\* No adapter maps any part of the way to the runner.
LEMMA RunnerIsNotMapped ==
    /\ RunnerPath \in Seq(Keys)
    /\ MappedV02 \cup MappedV1 \subseteq Seq(Keys)
    /\ \A q \in MappedV02 \cup MappedV1 : ~Above(q, RunnerPath)
<1>1. RunnerPath \in Seq(Keys)
  BY DEF RunnerPath, Keys
<1>2. MappedV02 \subseteq Seq(Keys)
  BY DEF MappedV02, Keys
<1>3. MappedV1 \subseteq Seq(Keys)
  BY DEF MappedV1, Keys
<1>4. ASSUME NEW q \in MappedV02 \cup MappedV1, Above(q, RunnerPath)
      PROVE  FALSE
  <2>1. q \in Seq(Keys)
    BY <1>2, <1>3
  <2>2. \A i \in 1..Len(q) : q[i] = RunnerPath[i]
    BY <1>1, <1>4, <2>1 DEF Above
  <2>. QED
    BY <2>2 DEF MappedV02, MappedV1, RunnerPath
<1>. QED
  BY <1>1, <1>2, <1>3, <1>4

\* The least of some numbers.
LEMMA Least ==
    ASSUME NEW S, S \subseteq Nat, S # {}
    PROVE  \E i \in S : \A j \in S : i <= j
<1>. DEFINE Less == OpToRel(<, Nat)
<1>1. IsWellFoundedOn(Less, Nat)
  BY NatLessThanWellFounded
<1>2. \A i, j \in Nat : <<i, j>> \in Less <=> i < j
  BY DEF OpToRel
<1>. HIDE DEF Less
<1>3. PICK i \in S : \A j \in S : ~(<<j, i>> \in Less)
  BY <1>1, WFMin
<1>4. ASSUME NEW j \in S
      PROVE  i <= j
  <2>1. i \in Nat /\ j \in Nat /\ ~(<<j, i>> \in Less)
    BY <1>3
  <2>2. ~(j < i)
    BY <1>2, <2>1, Zenon
  <2>. QED
    BY <2>1, <2>2
<1>. QED
  BY <1>4

-----------------------------------------------------------------------------
(* The adapters                                                            *)

\* A provenance that passes the validation has no Malformed field.
LEMMA CanonicalFields ==
    ASSUME NEW record, Canonical(record) # Malformed
    PROVE  /\ Canonical(record) = record
           /\ \A field \in DOMAIN record : record[field] # Malformed
  BY DEF Canonical

\* What v0.2 makes of a predicate, if anything.
LEMMA MadeOfV02 ==
    ASSUME NEW predicate, AdaptV02(predicate) # Malformed
    PROVE  LET made == AdaptV02(predicate)
               uri  == Lookup(predicate, SourcePathV02)
           IN  /\ made.build_type = Lookup(predicate, <<"buildType">>)
               /\ made.raw_unmapped = WithoutPaths(predicate, MappedV02)
               /\ uri # Malformed
               /\ made.source_repo = IF uri = None THEN None ELSE StripGitRef(uri)
<1>. DEFINE uri == Lookup(predicate, SourcePathV02)
            record ==
              [builder_id      |-> Lookup(predicate, <<"builder", "id">>),
               build_type      |-> Lookup(predicate, <<"buildType">>),
               source_repo     |-> IF uri \in {None, Malformed} THEN uri ELSE StripGitRef(uri),
               source_revision |->
                   Lookup(predicate, <<"invocation", "configSource", "digest", "sha1">>),
               invocation_id   |-> Lookup(predicate, <<"metadata", "buildInvocationID">>),
               dependencies    |-> Dependencies(predicate, <<"materials">>),
               raw_unmapped    |-> WithoutPaths(predicate, MappedV02)]
<1>2. AdaptV02(predicate) = Canonical(record)
  BY Zenon DEF AdaptV02, SourcePathV02
<1>3. AdaptV02(predicate) = record /\ record.source_repo # Malformed
  BY <1>2, CanonicalFields
<1>. QED
  BY <1>3

\* What v1 makes of a predicate, if anything.
LEMMA MadeOfV1 ==
    ASSUME NEW predicate, AdaptV1(predicate) # Malformed
    PROVE  LET made == AdaptV1(predicate)
               type == <<"buildDefinition", "buildType">>
               repo == SourcePathV1
           IN  /\ type \in DOMAIN predicate /\ made.build_type = predicate[type]
               /\ repo \in DOMAIN predicate /\ made.source_repo = predicate[repo]
               /\ made.source_repo # Malformed
               /\ made.raw_unmapped = WithoutPaths(predicate, MappedV1)
               /\ made.dependencies = Dependencies(predicate, ResolvedPath)
               /\ made.dependencies # Malformed
               /\ made.source_revision = SourceRevision(made.dependencies, made.source_repo)
<1>. DEFINE type == Subscript(predicate, <<"buildDefinition", "buildType">>)
            repo == Subscript(predicate, SourcePathV1)
            resolved == Dependencies(predicate, ResolvedPath)
            record ==
              [builder_id      |-> Lookup(predicate, <<"runDetails", "builder", "id">>),
               build_type      |-> type,
               source_repo     |-> repo,
               source_revision |-> SourceRevision(resolved, repo),
               invocation_id   |-> Lookup(predicate, <<"runDetails", "metadata", "invocationId">>),
               dependencies    |-> resolved,
               raw_unmapped    |-> WithoutPaths(predicate, MappedV1)]
<1>2. resolved # Malformed /\ AdaptV1(predicate) = Canonical(record)
  BY Zenon DEF AdaptV1, SourcePathV1, ResolvedPath
<1>3. AdaptV1(predicate) = record /\ record.source_repo # Malformed /\ record.build_type # Malformed
  BY <1>2, CanonicalFields
<1>. QED
  BY <1>2, <1>3 DEF Subscript

\* A URI without a login is cut behind its URL.
LEMMA PlainUri ==
    ASSUME NEW uri, uri.login = None \/ uri = Plain(uri.url)
    PROVE  StripGitRef(uri) = Plain(uri.url)
<1>1. uri.login = None
  BY DEF Plain
<1>. QED
  BY <1>1 DEF StripGitRef

-----------------------------------------------------------------------------
(* What the readers of a provenance find in it                             *)

\* A provenance is that of a statement of one of the two versions.
LEMMA Versions ==
    ASSUME NormalizationInv, Normalised
    PROVE  /\ envelope \in Envelopes /\ envelope.statement # Malformed
           /\ \/ /\ Version = "v0.2"
                 /\ provenance = AdaptV02(Predicate) /\ AdaptV02(Predicate) # Malformed
              \/ /\ Version = "v1"
                 /\ provenance = AdaptV1(Predicate) /\ AdaptV1(Predicate) # Malformed
<1>1. provenance = NormalizeFromRaw(envelope) /\ provenance # Malformed /\ envelope \in Envelopes
  BY DEF NormalizationInv, Normalised
<1>2. StatementFromRaw(envelope) # Malformed
  BY <1>1 DEF NormalizeFromRaw
<1>3. StatementFromRaw(envelope) = envelope.statement
  BY <1>2 DEF StatementFromRaw
<1>. QED
  BY <1>1, <1>2, <1>3 DEF NormalizeFromRaw, Version, Predicate

\* EVALUATE finds the runner that the signed predicate names (_MAPPED_PATHS of
\* the adapters, _predicate_runner_environment).
THEOREM RunnerIsReached == Spec => []RunnerReachesPolicy
<1>1. NormalizationInv => RunnerReachesPolicy
  <2>. SUFFICES ASSUME NormalizationInv, Normalised
                PROVE  RunnerReachesPolicy
    BY DEF RunnerReachesPolicy
  <2>1. DOMAIN Predicate \subseteq Seq(STRING)
    BY Versions, NormalizationAssumption DEF Predicate
  <2>2. Lookup(WithoutPaths(Predicate, MappedV02), RunnerPath) = Lookup(Predicate, RunnerPath)
    BY <2>1, RunnerIsNotMapped, LookupIsKept
  <2>3. Lookup(WithoutPaths(Predicate, MappedV1), RunnerPath) = Lookup(Predicate, RunnerPath)
    BY <2>1, RunnerIsNotMapped, LookupIsKept
  <2>4. /\ provenance.build_type = Lookup(Predicate, BuildTypePath)
        /\ Lookup(provenance.raw_unmapped, RunnerPath) = Lookup(Predicate, RunnerPath)
    <3>1. CASE Version = "v0.2" /\ provenance = AdaptV02(Predicate)
                 /\ AdaptV02(Predicate) # Malformed
      BY <2>2, <3>1, MadeOfV02 DEF BuildTypePath
    <3>2. CASE Version = "v1" /\ provenance = AdaptV1(Predicate)
                 /\ AdaptV1(Predicate) # Malformed
      BY <2>3, <3>2, MadeOfV1 DEF BuildTypePath, Lookup
    <3>. QED
      BY <3>1, <3>2, Versions
  <2>. QED
    BY <2>4 DEF RunnerReachesPolicy, PredicateRunnerEnvironment, ItemFrom, Facts
<1>. QED
  BY <1>1, NormalizationInvariant, PTL

\* The certificate that the policy compares with contradicts a predicate about
\* another repository (strip_git_ref, _cert_contradictions).
THEOREM SourceIsCompared == Spec => []SourceIsCrossChecked
<1>1. NormalizationInv => SourceIsCrossChecked
  <2>. DEFINE source == Lookup(Predicate, SourcePath)
              contradicts(url) == "source_repo" \in CertContradictions(ItemFrom(url))
  <2>. SUFFICES ASSUME NormalizationInv, Normalised, source # None
                PROVE  /\ \A url \in Urls : url # source.url => contradicts(url)
                       /\ (Version = "v0.2" /\ source.login = None) \/ source = Plain(source.url)
                          => ~contradicts(source.url)
    BY DEF SourceIsCrossChecked
  <2>1. ASSUME NEW url
        PROVE  contradicts(url) <=> Contradicts(provenance.source_repo, Plain(url))
    BY DEF CertContradictions, ItemFrom, Facts
  <2>2. source \in Uris \cup {None, Malformed}
    BY Versions, NormalizationAssumption DEF Predicate, SourcePath, Version
  <2>. HIDE DEF contradicts
  <2>3. CASE Version = "v0.2" /\ provenance = AdaptV02(Predicate)
               /\ AdaptV02(Predicate) # Malformed
    <3>1. source \in Uris /\ provenance.source_repo = StripGitRef(source)
      BY <2>2, <2>3, MadeOfV02 DEF SourcePath, SourcePathOf
    <3>2. source.login \notin Urls /\ StripGitRef(source) # None
      BY <3>1, NormalizationAssumption
    <3>3. \A url \in Urls : url # source.url => StripGitRef(source) # Plain(url)
      BY <3>2 DEF StripGitRef, Plain
    <3>4. \A url \in Urls : Plain(url) # None
      BY NormalizationAssumption
    <3>5. source.login = None \/ source = Plain(source.url)
            => StripGitRef(source) = Plain(source.url)
      BY PlainUri
    <3>. QED
      BY <2>1, <3>1, <3>2, <3>3, <3>4, <3>5 DEF Contradicts
  <2>4. CASE Version = "v1" /\ provenance = AdaptV1(Predicate)
               /\ AdaptV1(Predicate) # Malformed
    <3>1. provenance.source_repo = source
      BY <2>4, MadeOfV1 DEF SourcePath, SourcePathOf, Lookup
    <3>2. \A url \in Urls : url # source.url => source # Plain(url)
      BY DEF Plain
    <3>3. \A url \in Urls : Plain(url) # None
      BY NormalizationAssumption
    <3>. QED
      BY <2>1, <2>4, <3>1, <3>2, <3>3 DEF Contradicts
  <2>. QED
    BY <2>3, <2>4, Versions
<1>. QED
  BY <1>1, NormalizationInvariant, PTL

\* The revision is that of the first dependency on the source, if there is one.
LEMMA FirstSource ==
    ASSUME NEW deps, Len(deps) \in Nat, DOMAIN deps = 1..Len(deps),
           NEW repo, SourceRevision(deps, repo) # None
    PROVE  \E i \in DOMAIN deps :
              /\ StripGitRef(deps[i].uri) = repo
              /\ deps[i].commit = SourceRevision(deps, repo)
              /\ \A j \in 1..(i - 1) : j \in DOMAIN deps /\ StripGitRef(deps[j].uri) # repo
<1>. DEFINE sources == {i \in DOMAIN deps : StripGitRef(deps[i].uri) = repo}
            first   == CHOOSE i \in sources : \A j \in sources : i <= j
<1>1. sources # {} /\ SourceRevision(deps, repo) = deps[first].commit
  BY DEF SourceRevision
<1>2. sources \subseteq Nat
  OBVIOUS
<1>3. first \in sources /\ \A j \in sources : first <= j
  <2>. HIDE DEF sources
  <2>1. \E i \in sources : \A j \in sources : i <= j
    BY <1>1, <1>2, Least
  <2>. QED
    BY <2>1
<1>4. first \in DOMAIN deps /\ StripGitRef(deps[first].uri) = repo
  BY <1>3
<1>. HIDE DEF first
<1>5. ASSUME NEW j \in 1..(first - 1)
      PROVE  j \in DOMAIN deps /\ StripGitRef(deps[j].uri) # repo
  <2>1. j \in DOMAIN deps /\ ~(first <= j)
    BY <1>4
  <2>. QED
    BY <1>3, <2>1
<1>. QED
  BY <1>1, <1>4, <1>5

\* A v1 revision is the commit of the source and not of another dependency
\* (_source_revision of v1_0.py).
THEOREM RevisionIsCommitOfTheSource == Spec => []RevisionIsOfTheSource
<1>1. NormalizationInv => RevisionIsOfTheSource
  <2>. DEFINE deps == provenance.dependencies
              repo == provenance.source_repo
              ofSource(j) == deps[j].uri.login = None /\ deps[j].uri.url = repo.url
  <2>. SUFFICES ASSUME NormalizationInv, Normalised, Version = "v1",
                       provenance.source_revision # None
                PROVE  \E i \in DOMAIN deps :
                          /\ ofSource(i)
                          /\ deps[i].commit = provenance.source_revision
                          /\ \A j \in 1..(i - 1) : ~ofSource(j)
    BY DEF RevisionIsOfTheSource
  <2>1. provenance = AdaptV1(Predicate) /\ AdaptV1(Predicate) # Malformed
    BY Versions
  <2>2. /\ deps = Dependencies(Predicate, ResolvedPath) /\ deps # Malformed
        /\ provenance.source_revision = SourceRevision(deps, repo)
        /\ repo = Lookup(Predicate, SourcePathV1) /\ repo # Malformed
    BY <2>1, MadeOfV1 DEF Lookup
  <2>3. repo \in Uris \cup {None}
    BY <2>2, Versions, NormalizationAssumption DEF Predicate, Version, SourcePathOf
  <2>4. /\ Len(deps) \in Nat /\ DOMAIN deps = 1..Len(deps)
        /\ \A i \in DOMAIN deps : deps[i].uri \in Uris
    <3>1. CASE deps = <<>>
      BY <3>1
    <3>2. CASE deps = Lookup(Predicate, ResolvedPath) /\ Lookup(Predicate, ResolvedPath) # None
      BY <2>2, <3>2, Versions, NormalizationAssumption DEF Predicate, Version
    <3>. QED
      BY <2>2, <3>1, <3>2 DEF Dependencies
  <2>5. PICK i \in DOMAIN deps :
            /\ StripGitRef(deps[i].uri) = repo
            /\ deps[i].commit = provenance.source_revision
            /\ \A j \in 1..(i - 1) : j \in DOMAIN deps /\ StripGitRef(deps[j].uri) # repo
    <3>. HIDE DEF deps, repo
    <3>. QED
      BY <2>2, <2>4, FirstSource
  <2>6. repo \in Uris
    BY <2>3, <2>4, <2>5, NormalizationAssumption
  <2>7. \A uri \in Uris : uri.login # repo.url
    BY <2>6, NormalizationAssumption
  <2>8. ofSource(i) /\ repo = Plain(repo.url)
    <3>1. deps[i].uri \in Uris
      BY <2>4
    <3>. DEFINE uri == deps[i].uri
    <3>2. repo = StripGitRef(uri) /\ uri.login # repo.url
      BY <2>5, <2>7, <3>1
    <3>. HIDE DEF uri, repo
    <3>3. uri.login = None /\ repo.url = uri.url /\ repo = Plain(uri.url)
      BY <3>2 DEF StripGitRef, Plain
    <3>. QED
      BY <3>3 DEF uri
  <2>9. ASSUME NEW j \in 1..(i - 1), ofSource(j)
        PROVE  FALSE
    <3>1. StripGitRef(deps[j].uri) = Plain(repo.url)
      BY <2>9 DEF StripGitRef
    <3>. QED
      BY <2>5, <2>8, <3>1
  <2>. QED
    BY <2>5, <2>8, <2>9
<1>. QED
  BY <1>1, NormalizationInvariant, PTL

=============================================================================
