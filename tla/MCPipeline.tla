----------------------------- MODULE MCPipeline -----------------------------
(***************************************************************************)
(* Bundles for Pipeline, one for each thing that can become of one, and    *)
(* every run over at most three of the files that hold them.               *)
(***************************************************************************)
EXTENDS Pipeline, TLC

CONSTANTS
    good, rotated, selfRun, reusable, orphan, garbled, poison, alien,  \* bytes
    dGood, dRotated, dSelfRun, dReusable, dOrphan, dGarbled, dPoison, dAlien,
    fileGood, fileCopy, fileRotated, fileSelfRun, fileReusable, fileOrphan,
    fileGarbled, filePoison, fileAlien, fileGone,
    artifact, weakDigest, unknown,                     \* subject digests
    acme, globex,
    ruff, generator, caller, github, hosted, selfHosted, repo, ref, commit,
    gha, generic, inToto

MCAllowlist == ruff :> 3 @@ generator :> 3

MCDigestOf == good :> dGood @@ rotated :> dRotated @@ selfRun :> dSelfRun
              @@ reusable :> dReusable @@ orphan :> dOrphan @@ garbled :> dGarbled
              @@ poison :> dPoison @@ alien :> dAlien

\* fileCopy holds the same bytes as fileGood.
MCFile == fileGood :> good @@ fileCopy :> good @@ fileRotated :> rotated
          @@ fileSelfRun :> selfRun @@ fileReusable :> reusable
          @@ fileOrphan :> orphan @@ fileGarbled :> garbled
          @@ filePoison :> poison @@ fileAlien :> alien @@ fileGone :> Absent

Cert(san, signer, config, runner) ==
    [san |-> san,
     ext |-> 8 :> github @@ 9 :> signer @@ 11 :> runner @@ 12 :> Plain(repo)
             @@ 13 :> commit @@ 18 :> config]

Bundle(cert, roots) == [cert |-> cert, verifies_under |-> roots]

\* rotated verifies under the first root only; alien does not parse.
MCParsed ==
    good        :> Bundle(Cert(<<ruff>>, ruff, ruff, hosted), {1, 2})
    @@ rotated  :> Bundle(Cert(<<ruff, caller>>, ruff, ruff, hosted), {1})
    @@ selfRun  :> Bundle(Cert(<<ruff>>, ruff, Malformed, selfHosted), {1, 2})
    @@ reusable :> Bundle(Cert(<<generator>>, generator, caller, hosted), {1, 2})
    @@ orphan   :> Bundle(Cert(<<ruff>>, ruff, ruff, hosted), {1, 2})
    @@ garbled  :> Bundle(Cert(<<ruff>>, ruff, ruff, hosted), {1, 2})
    @@ poison   :> Bundle(Cert(<<>>, None, None, None), {1, 2})
    @@ alien    :> Malformed

Source == [git |-> TRUE, login |-> None, url |-> repo, ref |-> ref]

InBundle(version, predicate) ==
    [dsse |-> TRUE, payloadType |-> inToto,
     statement |-> [predicateType |-> version, predicate |-> predicate]]

\* What attest-build-provenance and slsa-github-generator write.
V1(builder, runner) ==
    InBundle("v1",
        <<"buildDefinition", "buildType">> :> gha
        @@ <<"buildDefinition", "externalParameters", "workflow", "repository">> :> Plain(repo)
        @@ <<"buildDefinition", "resolvedDependencies">> :> <<[uri |-> Source, commit |-> commit]>>
        @@ <<"runDetails", "builder", "id">> :> builder
        @@ runner)

V02(builder) ==
    InBundle("v0.2",
        <<"builder", "id">> :> builder @@ <<"buildType">> :> generic
        @@ <<"invocation", "configSource", "uri">> :> Source
        @@ <<"invocation", "configSource", "digest", "sha1">> :> commit)

OnHosted == RunnerPath :> hosted
NullInternals == <<"buildDefinition", "internalParameters">> :> None

\* poison is of a predicate type with no adapter.
MCEnvelope ==
    good        :> V1(ruff, OnHosted)
    @@ rotated  :> V1(ruff, OnHosted)
    @@ selfRun  :> V1(ruff, NullInternals)
    @@ reusable :> V02(generator)
    @@ orphan   :> V1(ruff, OnHosted)
    @@ garbled  :> V1(ruff, OnHosted)
    @@ poison   :> [V1(ruff, OnHosted) EXCEPT !.statement.predicateType = "v1.0"]
    @@ alien    :> [V1(ruff, OnHosted) EXCEPT !.dsse = FALSE]

Sha256(d) == [sha256 |-> d, sha1 |-> None]
Sha1(d)   == [sha256 |-> None, sha1 |-> d]

\* rotated lists the artifact twice; orphan has no sha256 to be found by.
MCSubjects ==
    good        :> <<Sha256(artifact)>>
    @@ rotated  :> <<Sha256(artifact), Sha256(artifact)>>
    @@ selfRun  :> <<Sha256(unknown)>>
    @@ reusable :> <<Sha256(artifact), Sha1(weakDigest)>>
    @@ orphan   :> <<Sha1(weakDigest)>>
    @@ garbled  :> Malformed
    @@ poison   :> <<Sha256(artifact)>>
    @@ alien    :> <<>>

MCStub == {<<acme, artifact>>, <<acme, weakDigest>>, <<globex, unknown>>}

MCPathLists == UNION {[1..n -> Paths] : n \in 0..2}
               \cup {<<p, fileRotated, q>> : p, q \in {fileGood, fileCopy}}

=============================================================================
