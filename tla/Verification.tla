---------------------------- MODULE Verification ----------------------------
(***************************************************************************)
(* verify/verifier.py and models/verification.py: the record that VERIFY   *)
(* makes of one bundle.                                                    *)
(*                                                                         *)
(* A certificate is [san, ext]: the URIs of its subject alternative name,  *)
(* in order, and the value of each Fulcio extension, None where it is      *)
(* absent and Malformed where it does not decode. What sigstore decides is *)
(* external: a bundle names the trust roots it verifies under.             *)
(***************************************************************************)
EXTENDS Values, Sequences

\* The Fulcio extensions by number: 8 is the OIDC issuer, 9 the signing
\* workflow, 11 its runner, 12 and 13 the repository and commit of the run,
\* 18 the calling workflow.

\* None when the extension is absent or does not decode: never an exception.
Utf8Extension(cert, oid) ==
    IF cert.ext[oid] = Malformed THEN None ELSE cert.ext[oid]

\* The first URI of the SAN, and the issuer.
ExtractIdentity(cert) ==
    [identity |-> IF cert.san = <<>> THEN None ELSE cert.san[1],
     issuer   |-> Utf8Extension(cert, 8)]

ExtractCertClaims(cert) ==
    [build_signer_uri   |-> Utf8Extension(cert, 9),
     runner_environment |-> Utf8Extension(cert, 11),
     source_repo_uri    |-> Utf8Extension(cert, 12),
     source_repo_digest |-> Utf8Extension(cert, 13),
     build_config_uri   |-> Utf8Extension(cert, 18)]

\* verify_dsse is all or nothing: one outcome for the four checks.
Checks(outcome) ==
    [signature |-> outcome, chain |-> outcome, sct |-> outcome, tlog |-> outcome]

\* mutant: a failed verification leaves the checks as a success would
VerifyFromRawOptimistic(bundle, raw_digest, root) ==
    [raw_digest  |-> raw_digest,
     checks      |-> Checks(TRUE),
     identity    |-> ExtractIdentity(bundle.cert).identity,
     issuer      |-> ExtractIdentity(bundle.cert).issuer,
     cert_claims |-> ExtractCertClaims(bundle.cert),
     trust_root  |-> "production"]

\* The record of a bundle that parses. The certificate is read whether or not
\* verification passes; trust_root names the kind of root, whichever it was.
VerifyFromRaw(bundle, raw_digest, root) ==
    [raw_digest  |-> raw_digest,
     checks      |-> Checks(IF root \in bundle.verifies_under THEN TRUE ELSE None),
     identity    |-> ExtractIdentity(bundle.cert).identity,
     issuer      |-> ExtractIdentity(bundle.cert).issuer,
     cert_claims |-> ExtractCertClaims(bundle.cert),
     trust_root  |-> "production"]

\* Every check ran and passed: a check that is None has not.
FullyVerified(record) ==
    \A k \in DOMAIN record.checks : record.checks[k] = TRUE

=============================================================================
