--------------------------- MODULE Normalization ---------------------------
(***************************************************************************)
(* NORMALISE on one envelope after another of every shape, and what its    *)
(* two readers expect of it: EVALUATE, which compares source_repo with the *)
(* certificate and looks for the runner in raw_unmapped, and whoever reads *)
(* raw_unmapped to see what was not mapped.                                *)
(***************************************************************************)
EXTENDS Normalize, Policy

CONSTANTS
    Envelopes,  \* the envelopes that there are
    Uris,       \* the URIs in them
    Urls        \* the repositories that certificates name

\* Where the two versions have their source, and v1 what was resolved for it.
SourcePathV02 == <<"invocation", "configSource", "uri">>
SourcePathV1  == <<"buildDefinition", "externalParameters", "workflow", "repository">>
ResolvedPath  == <<"buildDefinition", "resolvedDependencies">>

SourcePathOf(version) == IF version = "v1" THEN SourcePathV1 ELSE SourcePathV02

\* A predicate may have any leaves, as long as a URI is one where an adapter
\* reads one. The login of a URI has no host, and is no URL of a repository.
ASSUME NormalizationAssumption ==
    /\ \A e \in Envelopes :
          LET version   == e.statement.predicateType
              predicate == e.statement.predicate
              resolved  == Lookup(predicate, ResolvedPath)
          IN  e.statement # Malformed =>
                /\ DOMAIN predicate \subseteq Seq(STRING)
                /\ Lookup(predicate, SourcePathOf(version)) \in Uris \cup {None, Malformed}
                /\ version = "v1" /\ resolved \notin {None, Malformed} =>
                      /\ Len(resolved) \in Nat /\ DOMAIN resolved = 1..Len(resolved)
                      /\ \A i \in DOMAIN resolved : resolved[i].uri \in Uris
    /\ \A uri \in Uris :
          /\ uri.login \notin Urls \cup {other.url : other \in Uris}
          /\ StripGitRef(uri) # None
    /\ \A url \in Urls : Plain(url) # None

VARIABLES
    envelope,   \* the bytes read back from the store, decoded
    provenance  \* what normalize_from_raw makes of them, None before

vars == <<envelope, provenance>>

Init == envelope \in Envelopes /\ provenance = None

Next ==
    /\ provenance = None
    /\ provenance' = NormalizeFromRaw(envelope)
    /\ UNCHANGED envelope

Spec == Init /\ [][Next]_vars

-----------------------------------------------------------------------------

Normalised == provenance \notin {None, Malformed}

Version == envelope.statement.predicateType
Predicate == envelope.statement.predicate

\* Where each version has its build type and its source.
BuildTypePath ==
    IF Version = "v1" THEN <<"buildDefinition", "buildType">> ELSE <<"buildType">>

SourcePath == SourcePathOf(Version)

\* The leaves that a field of the canonical model carries.
FieldPaths ==
    {BuildTypePath, SourcePath} \cup
    IF Version = "v1"
    THEN {ResolvedPath, <<"runDetails", "builder", "id">>,
          <<"runDetails", "metadata", "invocationId">>}
    ELSE {<<"builder", "id">>, <<"invocation", "configSource", "digest", "sha1">>,
          <<"metadata", "buildInvocationID">>, <<"materials">>}

\* An item with this provenance, whose certificate names only a repository.
ItemFrom(url) ==
    [verification |->
        [cert_claims |-> [build_signer_uri |-> None, runner_environment |-> None,
                          source_repo_uri |-> Plain(url), source_repo_digest |-> None,
                          build_config_uri |-> None]],
     provenance |-> Facts(provenance)]

-----------------------------------------------------------------------------

\* The runner that EVALUATE finds in raw_unmapped is the one that the signed
\* predicate names: no adapter may map, and thereby remove, any part of the
\* way to it (_MAPPED_PATHS of v1_0.py against evaluate.py:156-164).
RunnerReachesPolicy ==
    Normalised =>
        PredicateRunnerEnvironment(ItemFrom(None)) =
            IF Lookup(Predicate, BuildTypePath) = GhaWorkflowBuildType
            THEN Lookup(Predicate, RunnerPath) ELSE None

\* "The same form as Fulcio's source-repository cert claim, so EVALUATE can
\* compare the two directly" (models/provenance.py:66): a predicate about
\* another repository always contradicts the certificate, however it spells
\* the source, also where strip_git_ref cuts at the wrong "@"; and one about
\* the same repository never does, as far as v0.2 spells it without a login
\* and v1 has it plain.
SourceIsCrossChecked ==
    Normalised /\ Lookup(Predicate, SourcePath) # None =>
        LET source == Lookup(Predicate, SourcePath)
            contradicts(url) == "source_repo" \in CertContradictions(ItemFrom(url))
        IN  /\ \A url \in Urls : url # source.url => contradicts(url)
            /\ (Version = "v0.2" /\ source.login = None) \/ source = Plain(source.url)
               => ~contradicts(source.url)

\* A v1 source_revision is the commit of a dependency on the source itself,
\* the first that there is without a login, and of no other dependency.
RevisionIsOfTheSource ==
    Normalised /\ Version = "v1" /\ provenance.source_revision # None =>
        \E i \in DOMAIN provenance.dependencies :
            LET uri(j) == provenance.dependencies[j].uri
                ofSource(j) == uri(j).login = None /\ uri(j).url = provenance.source_repo.url
            IN  /\ ofSource(i)
                /\ provenance.dependencies[i].commit = provenance.source_revision
                /\ \A j \in 1..(i - 1) : ~ofSource(j)

\* raw_unmapped is "the predicate with exactly the leaf keys mapped above
\* removed" (models/provenance.py:106): what no field carries is in there.
UnmappedIsKept ==
    Normalised =>
        \A p \in DOMAIN Predicate : p \in FieldPaths \cup DOMAIN provenance.raw_unmapped

=============================================================================
