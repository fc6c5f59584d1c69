----------------------------- MODULE Normalize -----------------------------
(***************************************************************************)
(* normalize/: from the envelope of a bundle to its canonical provenance.  *)
(*                                                                         *)
(* A JSON object is a function from the paths of its leaves (sequences of  *)
(* keys) to their values. A list of dependencies is one leaf, a sequence   *)
(* of [uri, commit]. A URI is [git, login, url, ref]: whether it has the   *)
(* prefix "git+", the scheme and user before an "@" in front of the host,  *)
(* the URL without that user, and the ref after an "@" behind the path     *)
(* (login and ref None without one). An exception, whichever it is, is the *)
(* result Malformed.                                                       *)
(***************************************************************************)
EXTENDS Values, Naturals, Sequences

CONSTANTS
    InTotoPayload,        \* the payloadType of an in-toto statement
    SupportedBuildTypes   \* the build types that the adapter of v1 knows

-----------------------------------------------------------------------------
(* Paths *)

Above(p, q) == Len(p) <= Len(q) /\ p = SubSeq(q, 1, Len(p))

\* obj.get(k1, {}).get(k2, {})...: None where a key is missing, an
\* AttributeError where a step on the way is no object.
Lookup(obj, path) ==
    IF path \in DOMAIN obj THEN obj[path]
    ELSE IF \E p \in DOMAIN obj : Above(p, path) THEN Malformed
    ELSE None

\* obj[k1][k2]...: an exception where a key is missing, too.
Subscript(obj, path) == IF path \in DOMAIN obj THEN obj[path] ELSE Malformed

\* A list of dependencies, empty without its key. A null is no list, and an
\* entry without a uri is no dependency.
Dependencies(obj, path) ==
    IF Lookup(obj, path) # None THEN Lookup(obj, path)
    ELSE IF path \in DOMAIN obj THEN Malformed
    ELSE <<>>

\* A copy of obj without these paths and what is below them.
WithoutPaths(obj, paths) ==
    LET kept == {p \in DOMAIN obj : \A q \in paths : ~Above(q, p)}
    IN  [p \in kept |-> obj[p]]

-----------------------------------------------------------------------------
(* URIs *)

Plain(url) == [git |-> FALSE, login |-> None, url |-> url, ref |-> None]

\* mutant: the prefix goes, and the ref stays
StripGitPrefix(uri) == [uri EXCEPT !.git = FALSE]

\* uri.removeprefix("git+").split("@", 1)[0]: the first "@" ends the login, if
\* there is one, and the host and the path go with the ref.
StripGitRef(uri) == Plain(IF uri.login = None THEN uri.url ELSE uri.login)

-----------------------------------------------------------------------------
(* The adapters *)

\* What the canonical model admits: a field that is Malformed is an
\* exception of the lookup or of the validation.
Canonical(provenance) ==
    IF \E field \in DOMAIN provenance : provenance[field] = Malformed
    THEN Malformed ELSE provenance

MappedV02 == {<<"builder">>, <<"buildType">>, <<"invocation", "configSource">>,
              <<"metadata", "buildInvocationID">>, <<"materials">>}

AdaptV02(predicate) ==
    LET uri == Lookup(predicate, <<"invocation", "configSource", "uri">>)
    IN  Canonical(
          [builder_id      |-> Lookup(predicate, <<"builder", "id">>),
           build_type      |-> Lookup(predicate, <<"buildType">>),
           source_repo     |-> IF uri \in {None, Malformed} THEN uri ELSE StripGitRef(uri),
           source_revision |->
               Lookup(predicate, <<"invocation", "configSource", "digest", "sha1">>),
           invocation_id   |-> Lookup(predicate, <<"metadata", "buildInvocationID">>),
           dependencies    |-> Dependencies(predicate, <<"materials">>),
           raw_unmapped    |-> WithoutPaths(predicate, MappedV02)])

\* mutant: the objects that hold the mapped fields are removed whole
MappedWholeV1 == {<<"buildDefinition">>, <<"runDetails">>}

MappedV1 == {<<"buildDefinition", "buildType">>, <<"buildDefinition", "externalParameters">>,
             <<"buildDefinition", "resolvedDependencies">>, <<"runDetails", "builder">>,
             <<"runDetails", "metadata", "invocationId">>}

\* mutant: the first dependency is taken for the source
FirstDependency(dependencies, repo) ==
    IF dependencies = <<>> THEN None ELSE dependencies[1].commit

\* The commit of the first dependency on the repository itself.
SourceRevision(dependencies, repo) ==
    LET sources == {i \in DOMAIN dependencies : StripGitRef(dependencies[i].uri) = repo}
    IN  IF sources = {} THEN None
        ELSE dependencies[CHOOSE i \in sources : \A j \in sources : i <= j].commit

AdaptV1(predicate) ==
    LET build_type == Subscript(predicate, <<"buildDefinition", "buildType">>)
        workflow_repo == Subscript(predicate,
                    <<"buildDefinition", "externalParameters", "workflow", "repository">>)
        resolved == Dependencies(predicate, <<"buildDefinition", "resolvedDependencies">>)
    IN  IF build_type \notin SupportedBuildTypes \/ resolved = Malformed THEN Malformed
        ELSE Canonical(
          [builder_id      |-> Lookup(predicate, <<"runDetails", "builder", "id">>),
           build_type      |-> build_type,
           source_repo     |-> workflow_repo,
           source_revision |-> SourceRevision(resolved, workflow_repo),
           invocation_id   |-> Lookup(predicate, <<"runDetails", "metadata", "invocationId">>),
           dependencies    |-> resolved,
           raw_unmapped    |-> WithoutPaths(predicate, MappedV1)])

-----------------------------------------------------------------------------
(* From the envelope *)

\* An envelope is [dsse, payloadType, statement], dsse whether it is a bundle
\* with a DSSE envelope in it.
StatementFromRaw(envelope) ==
    IF envelope.dsse /\ envelope.payloadType = InTotoPayload
    THEN envelope.statement ELSE Malformed

\* A statement is [predicateType, predicate]. No other predicate type will do.
NormalizeFromRaw(envelope) ==
    LET statement == StatementFromRaw(envelope)
    IN  IF statement = Malformed THEN Malformed
        ELSE IF statement.predicateType = "v0.2" THEN AdaptV02(statement.predicate)
        ELSE IF statement.predicateType = "v1" THEN AdaptV1(statement.predicate)
        ELSE Malformed

\* Where EVALUATE looks for the runner, in what the adapter left over.
RunnerPath == <<"buildDefinition", "internalParameters", "github", "runner_environment">>

\* The facts of a provenance that EVALUATE reads, in the form of Policy.
Facts(provenance) ==
    [builder_id |-> provenance.builder_id, build_type |-> provenance.build_type,
     source_repo |-> provenance.source_repo,
     source_revision |-> provenance.source_revision,
     runner_environment |-> Lookup(provenance.raw_unmapped, RunnerPath)]

=============================================================================
