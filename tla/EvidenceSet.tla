---------------------------- MODULE EvidenceSet ----------------------------
(***************************************************************************)
(* The evidence set of one artifact as attestations about it arrive, and   *)
(* what policy/evaluate.py says of it at each moment: subject_index grows  *)
(* by one entry per attestation (api/demo_bootstrap.py), and the decision  *)
(* is made anew at every query (api/app.py).                               *)
(***************************************************************************)
EXTENDS Policy

CONSTANTS
    Items,  \* the evidence items that there are
    Feed    \* Feed[k]: the items that may arrive as the k-th; its length
            \* bounds the evidence set

\* The four checks of a verification record, each passed, failed or unknown.
CheckRecords ==
    LET Check == {TRUE, FALSE, None}
    IN  [signature : Check, chain : Check, sct : Check, tlog : Check]

ASSUME FeedAssumption ==
    /\ Feed \in Seq(SUBSET Items)
    /\ \A item \in Items :
          /\ item = [raw_digest |-> item.raw_digest, verification |-> item.verification,
                     provenance |-> item.provenance]
          /\ item.verification.checks \in CheckRecords

VARIABLE evidence   \* the evidence set of the artifact, in order of arrival

Init == evidence = <<>>

Arrive(item) == evidence' = Append(evidence, item)

Next ==
    /\ Len(evidence) < Len(Feed)
    /\ \E item \in Feed[Len(evidence) + 1] : Arrive(item)

Spec == Init /\ [][Next]_evidence

Decision == Evaluate(evidence)

-----------------------------------------------------------------------------
(* What the documentation of evaluate() promises, stated without it *)

\* The build of this item is shown to have run on a hosted runner: by the
\* certificate of the calling workflow, or by the predicate where the
\* certificate leaves it open, never for a reusable workflow.
ShownHosted(item) ==
    LET claims == item.verification.cert_claims
        vouched == IF SignerIsCallingWorkflow(claims)
                   THEN claims.runner_environment ELSE None
    IN  /\ ~SignerIsReusableWorkflow(claims)
        /\ \/ vouched = GithubHosted
           \/ vouched = None /\ PredicateRunnerEnvironment(item) = GithubHosted

\* The predicate says nothing that its certificate denies.
Honest(item) ==
    LET claims == item.verification.cert_claims
        says == item.provenance
    IN  /\ claims.source_repo_uri \in {None, says.source_repo} \/ says.source_repo = None
        /\ claims.source_repo_digest \in {None, says.source_revision}
              \/ says.source_revision = None
        /\ SignerIsCallingWorkflow(claims) =>
              /\ PredicateRunnerEnvironment(item) # Malformed
              /\ \/ PredicateRunnerEnvironment(item) = None
                 \/ claims.runner_environment \in {None, PredicateRunnerEnvironment(item)}

\* The signer, not the builder the predicate names, is good for the level.
Capable(record) ==
    /\ record.checks = Checks(TRUE)
    /\ record.issuer \in AcceptableIssuers
    /\ record.identity \in DOMAIN BuilderAllowlist
    /\ BuilderAllowlist[record.identity] >= RequiredLevel

Trusted(item) ==
    /\ Capable(item.verification)
    /\ item.provenance.builder_id = item.verification.identity
    /\ Honest(item)
    /\ ShownHosted(item)

\* No predicate can make up for what this record lacks.
CertRefuses(record) ==
    \/ ~Capable(record)
    \/ SignerIsReusableWorkflow(record.cert_claims)
    \/ /\ SignerIsCallingWorkflow(record.cert_claims)
       /\ record.cert_claims.runner_environment \notin {None, GithubHosted}

\* The set with the provenance of its k-th item replaced.
WithProvenance(k, p) == [evidence EXCEPT ![k].provenance = p]

Provenances == {item.provenance : item \in Items}

-----------------------------------------------------------------------------

\* ALLOW is given exactly to a set that is not empty, whose every item is
\* trusted, and whose items were signed by one and the same builder. This
\* reads "the builder" as the verified signer, where the code compares the
\* names in the predicates (evaluate.py:271-293).
AllowIsEarned ==
    Decision = "ALLOW" <=>
        /\ evidence # <<>>
        /\ \A item \in ItemsOf(evidence) : Trusted(item)
        /\ \A a, b \in ItemsOf(evidence) : a.verification.identity = b.verification.identity

\* "A self-asserted field can't outvote the third-party-vouched one"
\* (DESIGN.md:397): where the verification record of an item refuses, no
\* provenance written into that item gets the set allowed.
PredicateCannotBuyTrust ==
    \A k \in DOMAIN evidence :
        CertRefuses(evidence[k].verification) =>
            \A p \in Provenances : Evaluate(WithProvenance(k, p)) # "ALLOW"

\* Once there is evidence and it does not allow, later evidence never makes
\* it allow: a bad attestation cannot be buried under good ones.
DenialIsSticky ==
    [][evidence # <<>> /\ Decision # "ALLOW" => Decision' # "ALLOW"]_evidence

\* "Only when the cert doesn't say who signed does the predicate's claim
\* stand alone" (evaluate.py:93-95): an allowed item whose certificate names
\* the signing and the calling workflow has its runner from the certificate.
PredicateStandsAloneOnlyWhenSignerUnknown ==
    Decision = "ALLOW" =>
        \A item \in ItemsOf(evidence) :
            SignerIsCallingWorkflow(item.verification.cert_claims) =>
                item.verification.cert_claims.runner_environment = GithubHosted

\* "policy = ALLOW / DENY + reasons", nothing else (policy/models.py:3): every
\* evidence set gets a decision.
EveryEvidenceSetIsDecided == Decision \in {"ALLOW", "DENY"}

=============================================================================
