-------------------------- MODULE EvidenceSetProofs --------------------------
(***************************************************************************)
(* Theorems about evaluate() and the evidence sets it judges, for any      *)
(* allowlist, issuers, level, items and order of arrival.                  *)
(***************************************************************************)
EXTENDS EvidenceSet, TLAPS

-----------------------------------------------------------------------------
(* One item *)

\* fully_verified is the four checks, all of them True.
LEMMA VerifiedMeansAllChecks ==
    ASSUME NEW record, record.checks \in CheckRecords
    PROVE  FullyVerified(record) <=> record.checks = Checks(TRUE)
  <1>1. DOMAIN record.checks = {"signature", "chain", "sct", "tlog"}
    BY DEF CheckRecords
  <1>2. FullyVerified(record)
          <=> /\ record.checks.signature = TRUE /\ record.checks.chain = TRUE
              /\ record.checks.sct = TRUE /\ record.checks.tlog = TRUE
    BY <1>1 DEF FullyVerified
  <1>3. FullyVerified(record) => record.checks = Checks(TRUE)
    BY <1>2 DEF CheckRecords, Checks
  <1>4. record.checks = Checks(TRUE) => FullyVerified(record)
    BY <1>2 DEF Checks
  <1> QED
    BY <1>3, <1>4

\* The code looks for contradictions, the reference for agreement.
LEMMA HonestMeansNoContradiction ==
    ASSUME NEW item
    PROVE  CertContradictions(item) = {} <=> Honest(item)
    BY PolicyAssumption DEF CertContradictions, Contradicts, Honest

\* The runner reasons follow the certificate before the predicate.
LEMMA HostedMeansNoRunnerReason ==
    ASSUME NEW item
    PROVE  RunnerReasons(item) = {} <=> ShownHosted(item)
    BY PolicyAssumption
    DEF RunnerReasons, RunnerEnvironment, ShownHosted, SignerIsCallingWorkflow,
        SignerIsReusableWorkflow

\* A level is met by an allowlisted builder that is capable of it and shown
\* hosted.
LEMMA LevelMet ==
    ASSUME NEW item
    PROVE  LevelReasons(item) = {} <=>
             /\ item.provenance.builder_id \in DOMAIN BuilderAllowlist
             /\ BuilderAllowlist[item.provenance.builder_id] >= RequiredLevel
             /\ ShownHosted(item)
  <1> DEFINE builder == item.provenance.builder_id
  <1>1. CASE builder \notin DOMAIN BuilderAllowlist
    BY <1>1 DEF LevelReasons
  <1>2. CASE /\ builder \in DOMAIN BuilderAllowlist
             /\ BuilderAllowlist[builder] < RequiredLevel
    BY <1>2, PolicyAssumption DEF LevelReasons
  <1>3. CASE /\ builder \in DOMAIN BuilderAllowlist
             /\ ~(BuilderAllowlist[builder] < RequiredLevel)
    <2>1. LevelReasons(item) = RunnerReasons(item)
      BY <1>3 DEF LevelReasons
    <2>2. BuilderAllowlist[builder] >= RequiredLevel
      BY <1>3, PolicyAssumption
    <2> QED
      BY <1>3, <2>1, <2>2, HostedMeansNoRunnerReason
  <1> QED
    BY <1>1, <1>2, <1>3

\* The early returns of _evaluate_item leave out no reason that would have
\* been the only one: an item gives none exactly when it is trusted.
THEOREM ItemVerdict ==
    ASSUME NEW item, item.verification.checks \in CheckRecords
    PROVE  EvaluateItem(item) = {} <=> Trusted(item)
  <1>1. IssuerReasons(item) = {} <=> item.verification.issuer \in AcceptableIssuers
    BY DEF IssuerReasons
  <1>2. FullyVerified(item.verification) <=> item.verification.checks = Checks(TRUE)
    BY VerifiedMeansAllChecks
  <1> QED
    BY <1>1, <1>2, HonestMeansNoContradiction, LevelMet
    DEF EvaluateItem, Trusted, Capable

-----------------------------------------------------------------------------
(* The set *)

\* An evidence set is a sequence of items.
LEMMA ArrivalIsTyped == Spec => [](evidence \in Seq(Items))
  <1>1. Init => evidence \in Seq(Items)
    BY DEF Init
  <1>2. evidence \in Seq(Items) /\ [Next]_evidence => (evidence \in Seq(Items))'
    <2> SUFFICES ASSUME evidence \in Seq(Items), Next
                 PROVE  evidence' \in Seq(Items)
      OBVIOUS
    <2>1. PICK item \in Feed[Len(evidence) + 1] : Arrive(item)
      BY DEF Next
    <2>2. Len(evidence) + 1 \in 1..Len(Feed)
      BY FeedAssumption DEF Next
    <2>3. item \in Items
      BY <2>1, <2>2, FeedAssumption
    <2> QED
      BY <2>1, <2>3 DEF Arrive
  <1> QED
    BY <1>1, <1>2, PTL DEF Spec

\* ALLOW is a set that is not empty and has nothing against it.
LEMMA AllowMeansNoReasons ==
    ASSUME NEW e
    PROVE  Evaluate(e) = "ALLOW" <=> e # <<>> /\ Reasons(e) = {}
    BY DEF Evaluate

\* From the item to the set: AllowIsEarned needs no more than the types.
LEMMA EarnedIfTyped == evidence \in Seq(Items) => AllowIsEarned
  <1> SUFFICES ASSUME evidence \in Seq(Items)
               PROVE  AllowIsEarned
    OBVIOUS
  <1>1. \A item \in ItemsOf(evidence) : item \in Items
    BY DEF ItemsOf
  <1>2. Reasons(evidence) = {} <=>
          /\ \A item \in ItemsOf(evidence) : EvaluateItem(item) = {}
          /\ DisagreementReasons(evidence) = {}
    <2> DEFINE all == {EvaluateItem(item) : item \in ItemsOf(evidence)}
    <2>1. UNION all = {} <=> \A item \in ItemsOf(evidence) : EvaluateItem(item) = {}
      OBVIOUS
    <2>2. Reasons(evidence) = (UNION all) \cup DisagreementReasons(evidence)
      BY DEF Reasons
    <2> QED
      BY <2>1, <2>2
  <1>3. DisagreementReasons(evidence) = {} <=>
          \A a, b \in ItemsOf(evidence) : a.provenance.builder_id = b.provenance.builder_id
    BY DEF DisagreementReasons, BuilderIds
  <1>4. \A item \in ItemsOf(evidence) : EvaluateItem(item) = {} <=> Trusted(item)
    BY <1>1, ItemVerdict, FeedAssumption
  <1>5. \A item \in ItemsOf(evidence) :
          Trusted(item) => item.provenance.builder_id = item.verification.identity
    BY DEF Trusted
  <1> QED
    BY <1>2, <1>3, <1>4, <1>5, AllowMeansNoReasons DEF AllowIsEarned, Decision

\* ALLOW is given exactly to a non-empty set of trusted items of one signer.
THEOREM AllowEarned == Spec => []AllowIsEarned
    BY EarnedIfTyped, ArrivalIsTyped, PTL

-----------------------------------------------------------------------------
(* What the predicate cannot do *)

\* An item whose record refuses is not trusted, whatever it says of itself.
LEMMA RefusedItem ==
    ASSUME NEW item, CertRefuses(item.verification)
    PROVE  ~Trusted(item)
    BY PolicyAssumption
    DEF CertRefuses, Trusted, ShownHosted, SignerIsCallingWorkflow,
        SignerIsReusableWorkflow

\* One item that is not trusted is enough against a set.
LEMMA RefusedSet ==
    ASSUME NEW e, NEW k \in DOMAIN e, e[k].verification.checks \in CheckRecords,
           ~Trusted(e[k])
    PROVE  Evaluate(e) # "ALLOW"
  <1>1. e[k] \in ItemsOf(e)
    BY DEF ItemsOf
  <1>2. EvaluateItem(e[k]) # {}
    BY ItemVerdict
  <1>3. Reasons(e) # {}
    BY <1>1, <1>2 DEF Reasons
  <1> QED
    BY <1>3, AllowMeansNoReasons

\* Another predicate in an item leaves its record, and that refuses.
LEMMA CannotBuyIfTyped == evidence \in Seq(Items) => PredicateCannotBuyTrust
  <1> SUFFICES ASSUME evidence \in Seq(Items), NEW k \in DOMAIN evidence,
                      CertRefuses(evidence[k].verification), NEW p \in Provenances
               PROVE  Evaluate(WithProvenance(k, p)) # "ALLOW"
    BY DEF PredicateCannotBuyTrust
  <1> DEFINE e == WithProvenance(k, p)
  <1>1. evidence[k] \in Items
    OBVIOUS
  <1>2. k \in DOMAIN e /\ e[k] = [evidence[k] EXCEPT !.provenance = p]
    BY DEF WithProvenance
  <1>3. e[k].verification = evidence[k].verification
    BY <1>1, <1>2, FeedAssumption
  <1>4. e[k].verification.checks \in CheckRecords
    BY <1>1, <1>3, FeedAssumption
  <1>5. ~Trusted(e[k])
    BY <1>3, RefusedItem
  <1> QED
    BY <1>2, <1>4, <1>5, RefusedSet

\* No provenance, whatever it claims, gets a set allowed against the
\* certificate and the verification outcome of one of its items.
THEOREM PredicateNeverBuysTrust == Spec => []PredicateCannotBuyTrust
    BY CannotBuyIfTyped, ArrivalIsTyped, PTL

-----------------------------------------------------------------------------
(* What later evidence cannot do *)

\* An arrival takes no reason away.
LEMMA ReasonsGrow ==
    ASSUME evidence \in Seq(Items), NEW item \in Items, Arrive(item)
    PROVE  Reasons(evidence) \subseteq Reasons(evidence')
  <1>1. \A i \in DOMAIN evidence : i \in DOMAIN evidence' /\ evidence'[i] = evidence[i]
    BY DEF Arrive
  <1>2. ItemsOf(evidence) \subseteq ItemsOf(evidence')
    BY <1>1 DEF ItemsOf
  <1>3. DisagreementReasons(evidence) \subseteq DisagreementReasons(evidence')
    BY <1>2 DEF DisagreementReasons, BuilderIds
  <1> QED
    BY <1>2, <1>3 DEF Reasons

\* A step leaves a denial what it is.
LEMMA StickyStep ==
    ASSUME evidence \in Seq(Items), [Next]_evidence, evidence # <<>>, Decision # "ALLOW"
    PROVE  Decision' # "ALLOW"
  <1>1. CASE UNCHANGED evidence
    BY <1>1 DEF Decision
  <1>2. ASSUME Next
        PROVE  Decision' # "ALLOW"
    <2>1. PICK item \in Feed[Len(evidence) + 1] : Arrive(item)
      BY <1>2 DEF Next
    <2>2. Len(evidence) + 1 \in 1..Len(Feed)
      BY <1>2, FeedAssumption DEF Next
    <2>3. item \in Items
      BY <2>1, <2>2, FeedAssumption
    <2>4. Reasons(evidence) # {}
      BY AllowMeansNoReasons DEF Decision
    <2>5. Reasons(evidence') # {}
      BY <2>1, <2>3, <2>4, ReasonsGrow
    <2> QED
      BY <2>5, AllowMeansNoReasons DEF Decision
  <1> QED
    BY <1>1, <1>2

\* No attestation that arrives later turns a denial into ALLOW.
THEOREM DenialSticks == Spec => DenialIsSticky
  <1>1. evidence \in Seq(Items) /\ [Next]_evidence =>
          [evidence # <<>> /\ Decision # "ALLOW" => Decision' # "ALLOW"]_evidence
    BY StickyStep
  <1> QED
    BY <1>1, ArrivalIsTyped, PTL DEF Spec, DenialIsSticky

=============================================================================
