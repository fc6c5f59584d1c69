------------------------------- MODULE Policy -------------------------------
(***************************************************************************)
(* policy/evaluate.py: the decision over the evidence set of an artifact.  *)
(*                                                                         *)
(* An evidence item is [raw_digest, verification, provenance]. The reasons *)
(* of a denial are a set of kinds, their wording is left out. The value    *)
(* provenance.runner_environment stands for what the predicate holds at    *)
(* buildDefinition.internalParameters.github.runner_environment: a value,  *)
(* None, or Malformed when one of the steps on the way is no object, where *)
(* the code's chain of .get() calls raises AttributeError.                 *)
(***************************************************************************)
EXTENDS Verification, Naturals

CONSTANTS
    BuilderAllowlist,      \* builder id -> the level it is capable of
    AcceptableIssuers,
    RequiredLevel,
    GhaWorkflowBuildType,  \* the build type whose runner field is known
    GithubHosted           \* the runner environment of a hosted runner

ASSUME PolicyAssumption ==
    /\ \A b \in DOMAIN BuilderAllowlist : BuilderAllowlist[b] \in Nat
    /\ None \notin DOMAIN BuilderAllowlist
    /\ None \notin AcceptableIssuers
    /\ RequiredLevel \in Nat
    /\ GithubHosted \notin {None, Malformed}
    /\ None \notin {Malformed, TRUE}
    /\ \A decision \in {"ALLOW", "DENY", "AttributeError"} : None # decision

-----------------------------------------------------------------------------
(* Who signed, and what runs the build *)

SignerIsCallingWorkflow(claims) ==
    /\ claims.build_signer_uri # None
    /\ claims.build_signer_uri = claims.build_config_uri

\* False when the certificate does not say.
SignerIsReusableWorkflow(claims) ==
    /\ claims.build_signer_uri # None
    /\ claims.build_config_uri # None
    /\ claims.build_signer_uri # claims.build_config_uri

PredicateRunnerEnvironment(item) ==
    IF item.provenance.build_type = GhaWorkflowBuildType
    THEN item.provenance.runner_environment
    ELSE None

\* mutant: whoever signed, the predicate speaks where the certificate does not
RunnerEnvironmentAnySigner(item) ==
    LET claims == item.verification.cert_claims IN
    IF claims.runner_environment # None /\ SignerIsCallingWorkflow(claims)
    THEN claims.runner_environment
    ELSE PredicateRunnerEnvironment(item)

\* The certificate's claim when it describes the build job, else the
\* predicate's; neither when a reusable workflow signed.
RunnerEnvironment(item) ==
    LET claims == item.verification.cert_claims IN
    IF SignerIsReusableWorkflow(claims) THEN None
    ELSE IF claims.runner_environment # None /\ SignerIsCallingWorkflow(claims)
    THEN claims.runner_environment
    ELSE PredicateRunnerEnvironment(item)

-----------------------------------------------------------------------------
(* One item *)

\* Both sides make the claim, and they differ.
Contradicts(claim, vouched) == claim # None /\ vouched # None /\ claim # vouched

\* The claims of the predicate that its own certificate contradicts. Looking
\* for the predicate's runner may raise.
CertContradictions(item) ==
    LET claims == item.verification.cert_claims
        says   == item.provenance
        runner == PredicateRunnerEnvironment(item)
    IN  {why \in {"source_repo", "source_revision", "runner_environment", "AttributeError"} :
            \/ /\ why = "source_repo"
               /\ Contradicts(says.source_repo, claims.source_repo_uri)
            \/ /\ why = "source_revision"
               /\ Contradicts(says.source_revision, claims.source_repo_digest)
            \/ /\ why = "runner_environment"
               /\ SignerIsCallingWorkflow(claims)
               /\ Contradicts(runner, claims.runner_environment)
            \/ /\ why = "AttributeError"
               /\ SignerIsCallingWorkflow(claims)
               /\ runner = Malformed}

\* mutant: a runner that nobody names is an exception, too
RunnerReasonsOfNamed(item) ==
    LET runner == RunnerEnvironment(item) IN
    IF runner \in {None, Malformed} THEN {"AttributeError"}
    ELSE IF runner # GithubHosted THEN {"not github-hosted"}
    ELSE {}

\* What a level that depends on the runner still lacks.
RunnerReasons(item) ==
    LET runner == RunnerEnvironment(item) IN
    IF runner = None THEN {"cannot confirm"}
    ELSE IF runner = Malformed THEN {"AttributeError"}
    ELSE IF runner # GithubHosted THEN {"not github-hosted"}
    ELSE {}

\* The level that the allowlist claims for the builder.
LevelReasons(item) ==
    LET builder == item.provenance.builder_id IN
    IF builder \notin DOMAIN BuilderAllowlist THEN {"not allowlisted"}
    ELSE IF BuilderAllowlist[builder] < RequiredLevel THEN {"level"}
    ELSE RunnerReasons(item)

IssuerReasons(item) ==
    {why \in {"issuer"} : item.verification.issuer \notin AcceptableIssuers}

\* mutant: the allowlist is looked up by the builder the predicate names
EvaluateItemByName(item) ==
    IF ~FullyVerified(item.verification) THEN {"not verified"}
    ELSE IssuerReasons(item) \cup CertContradictions(item) \cup LevelReasons(item)

\* The reasons an item gives to deny. An unverified one is not looked into,
\* nor one whose builder is not its signer.
EvaluateItem(item) ==
    IF ~FullyVerified(item.verification) THEN {"not verified"}
    ELSE IF item.provenance.builder_id # item.verification.identity
    THEN IssuerReasons(item) \cup {"not the signer"}
    ELSE IssuerReasons(item) \cup CertContradictions(item) \cup LevelReasons(item)

-----------------------------------------------------------------------------
(* The set *)

ItemsOf(evidence_set) == {evidence_set[i] : i \in DOMAIN evidence_set}

BuilderIds(evidence_set) ==
    {item.provenance.builder_id : item \in ItemsOf(evidence_set)}

DisagreementReasons(evidence_set) ==
    {why \in {"builders disagree"} :
        \E a, b \in BuilderIds(evidence_set) : a # b}

Reasons(evidence_set) ==
    (UNION {EvaluateItem(item) : item \in ItemsOf(evidence_set)})
        \cup DisagreementReasons(evidence_set)

\* mutant: the last attestation decides
DecideOnLast(evidence_set) ==
    IF evidence_set = <<>> THEN "DENY"
    ELSE IF EvaluateItem(evidence_set[Len(evidence_set)]) = {} THEN "ALLOW"
    ELSE "DENY"

\* The decision, or the exception that leaves evaluate() without one.
Evaluate(evidence_set) ==
    IF evidence_set = <<>> THEN "DENY"
    ELSE IF "AttributeError" \in Reasons(evidence_set) THEN "AttributeError"
    ELSE IF Reasons(evidence_set) # {} THEN "DENY"
    ELSE "ALLOW"

=============================================================================
