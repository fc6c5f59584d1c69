-------------------------- MODULE MCNormalization --------------------------
(***************************************************************************)
(* Envelopes for Normalization: predicates of both versions put together   *)
(* from the parts that the adapters look at, each present, absent, null or *)
(* of the wrong shape.                                                     *)
(***************************************************************************)
EXTENDS Normalization, TLC

CONSTANTS
    inToto, otherPayload, gha, otherBuild, github, hosted, selfHosted,
    repo, fork, ssh, ref, commit, otherCommit, ruff, run, leaf

Nothing == [p \in {} |-> None]

Uri(url, plain) ==
    IF plain THEN Plain(url) ELSE [git |-> TRUE, login |-> None, url |-> url, ref |-> ref]

\* ssh is "ssh://git", the login in git+ssh://git@host/repo.
MCUris == {Uri(url, plain) : url \in {repo, fork}, plain \in BOOLEAN}
        \cup {[Uri(url, FALSE) EXCEPT !.login = ssh] : url \in {repo, fork}}

Config   == <<"invocation", "configSource">>
External == <<"buildDefinition", "externalParameters">>

\* Lists of at most two dependencies.
Deps == [uri : Uris, commit : {commit, otherCommit}]
        \cup {[uri |-> Uri(repo, TRUE), commit |-> None]}
DepLists == {<<>>} \cup {<<d>> : d \in Deps} \cup {<<d, e>> : d, e \in Deps}

\* The one-leaf object, and the ways a list of dependencies may be given.
One(path, value) == path :> value
Listed(path, lists) == {Nothing, One(path, None)} \cup {One(path, list) : list \in lists}

Builder(path) ==
    {Nothing, One(path, None), One(path \o <<"id">>, ruff),
     One(path \o <<"id">>, ruff) @@ One(path \o <<"version">>, leaf)}

Types(path) == {Nothing} \cup {One(path, type) : type \in {gha, otherBuild, Malformed}}

ConfigSources ==
    {Nothing, One(<<"invocation">>, None), One(Config, None),
     One(Config \o <<"uri">>, Malformed)}
    \cup {One(Config \o <<"uri">>, uri) @@ rest :
            uri \in Uris \cup {None},
            rest \in {Nothing, One(Config \o <<"digest", "sha1">>, commit)
                               @@ One(Config \o <<"entryPoint">>, leaf)}}

PredicatesV02 ==
    {builder @@ type @@ source @@ deps @@ One(<<"metadata", "buildInvocationID">>, run)
             @@ One(<<"metadata", "reproducible">>, leaf) :
        builder \in Builder(<<"builder">>), type \in Types(<<"buildType">>),
        source \in ConfigSources,
        deps \in Listed(<<"materials">>,
                        {<<>>, <<[uri |-> Uri(repo, FALSE), commit |-> commit]>>})}

Externals ==
    {Nothing, One(External, None)}
    \cup {One(External \o <<"workflow", "repository">>, uri)
            @@ One(External \o <<"workflow", "path">>, leaf) :
              uri \in Uris \cup {None, Malformed}}

Internal == <<"buildDefinition", "internalParameters">>

Internals ==
    {Nothing, One(Internal, None), One(Internal \o <<"github">>, None),
     One(Internal \o <<"github", "event_name">>, leaf)}
    \cup {One(RunnerPath, runner) : runner \in {hosted, selfHosted, None}}

\* Sources and dependencies in full, the other parts each with one of them.
PredicatesV1 ==
    {type @@ external @@ deps @@ One(<<"runDetails", "builder", "id">>, ruff)
          @@ One(RunnerPath, hosted) :
        type \in {One(<<"buildDefinition", "buildType">>, gha)},
        external \in Externals,
        deps \in Listed(<<"buildDefinition", "resolvedDependencies">>, DepLists)}
    \cup
    {type @@ internal @@ builder
          @@ One(External \o <<"workflow", "repository">>, Uri(repo, TRUE)) :
        type \in Types(<<"buildDefinition", "buildType">>), internal \in Internals,
        builder \in {One(<<"runDetails">>, None)}
            \cup {b @@ One(<<"runDetails", "metadata", "invocationId">>, run) :
                     b \in Builder(<<"runDetails", "builder">>)}}

Envelope(version, predicate) ==
    [dsse |-> TRUE, payloadType |-> inToto,
     statement |-> [predicateType |-> version, predicate |-> predicate]]

Good == Envelope("v0.2", Nothing)

MCEnvelopes ==
    {Envelope("v0.2", predicate) : predicate \in PredicatesV02}
    \cup {Envelope("v1", predicate) : predicate \in PredicatesV1}
    \cup {Envelope("v1.0", Nothing), [Good EXCEPT !.dsse = FALSE],
          [Good EXCEPT !.payloadType = otherPayload]}

MCAllowlist == ruff :> 3

=============================================================================
