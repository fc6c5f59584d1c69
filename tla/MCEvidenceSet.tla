--------------------------- MODULE MCEvidenceSet ---------------------------
(***************************************************************************)
(* Evidence items for EvidenceSet. The first to arrive is any item of      *)
(* AnyItem, which combines the cases that evaluate() tells apart; the      *)
(* second is one of a few that are trusted or denied for one reason each.  *)
(***************************************************************************)
EXTENDS EvidenceSet, TLC

CONSTANTS
    ruff, other, weak, unlisted,   \* signers: two at level 3, one below, one unknown
    caller,                        \* a calling workflow that is not the signer
    github, elsewhere,             \* issuers
    hosted, selfHosted,            \* runner environments
    repo, fork, commit, otherCommit, gha, otherBuild

MCAllowlist == ruff :> 3 @@ other :> 3 @@ weak :> 2
MCIssuers == {github}

Claims(signer, config, runner, from, at) ==
    [build_signer_uri |-> signer, runner_environment |-> runner,
     source_repo_uri |-> from, source_repo_digest |-> at, build_config_uri |-> config]

Item(passed, issuer, who, builder, claims, build, runner, from, at) ==
    [raw_digest |-> "raw",
     verification |-> [raw_digest |-> "raw", checks |-> passed, identity |-> who,
                       issuer |-> issuer, cert_claims |-> claims,
                       trust_root |-> "production"],
     provenance |-> [builder_id |-> builder, build_type |-> build,
                     runner_environment |-> runner, source_repo |-> from,
                     source_revision |-> at]]

Passed == Checks(TRUE)
Failed == Checks(None)
OnlySigned == [Failed EXCEPT !.signature = TRUE]

\* Verification outcomes and issuers.
Outcomes == {<<Passed, github>>, <<Failed, github>>, <<OnlySigned, github>>,
             <<Passed, elsewhere>>, <<Passed, None>>}

\* The signer and the builder that the predicate names.
Builders == {<<ruff, ruff>>, <<other, other>>, <<weak, weak>>, <<unlisted, unlisted>>,
             <<unlisted, ruff>>, <<None, None>>, <<ruff, None>>}

\* Signing and calling workflow: unknown, one of them, the same, a reusable
\* one. On GitHub the signing workflow is the SAN, as far as it is known.
Workflows(who) ==
    {<<None, None>>, <<who, None>>, <<None, who>>, <<who, who>>, <<who, caller>>}

\* Where the predicate says it was built.
Builds == {<<gha, hosted>>, <<gha, selfHosted>>, <<gha, None>>, <<gha, Malformed>>,
           <<otherBuild, hosted>>}

\* Repository and commit, of the certificate and of the predicate.
Sources == {<<repo, commit, repo, commit>>, <<repo, commit, fork, commit>>,
            <<repo, commit, repo, otherCommit>>, <<None, None, repo, commit>>,
            <<repo, commit, None, None>>}

Combine(o, b, w, r, build, s) ==
    Item(o[1], o[2], b[1], b[2], Claims(w[1], w[2], r, s[1], s[2]),
         build[1], build[2], s[3], s[4])

Good == <<Passed, github>>
Agree == <<repo, commit, repo, commit>>
RuffSigns == <<ruff, ruff>>

AnyItem ==
    UNION {{Combine(o, b, w, r, build, Agree) :
              o \in Outcomes, w \in Workflows(b[1]), r \in {None, hosted, selfHosted},
              build \in Builds} : b \in Builders}
    \cup
    {Combine(Good, RuffSigns, w, r, build, s) :
        w \in Workflows(ruff), r \in {None, hosted, selfHosted}, build \in Builds,
        s \in Sources}

Representatives ==
    {Combine(Good, <<ruff, ruff>>, RuffSigns, hosted, <<gha, hosted>>, Agree),
     Combine(Good, <<other, other>>, <<None, None>>, None, <<gha, hosted>>, Agree),
     Combine(Good, <<ruff, ruff>>, RuffSigns, selfHosted, <<gha, selfHosted>>, Agree),
     Combine(<<Failed, github>>, <<ruff, ruff>>, RuffSigns, hosted, <<gha, hosted>>, Agree),
     Combine(Good, <<ruff, ruff>>, <<ruff, caller>>, hosted, <<gha, hosted>>, Agree),
     Combine(Good, <<unlisted, ruff>>, <<unlisted, unlisted>>, hosted, <<gha, hosted>>, Agree),
     Combine(Good, <<ruff, ruff>>, <<None, None>>, None, <<gha, Malformed>>, Agree)}

MCItems == AnyItem \cup Representatives
MCFeed  == <<AnyItem, Representatives>>

=============================================================================
