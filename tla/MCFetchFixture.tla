--------------------------- MODULE MCFetchFixture ---------------------------
(***************************************************************************)
(* Two digests, one with answers that grow as GitHub gets to know more     *)
(* attestations of it, and one that may have an unreadable attestation;    *)
(* and a fork, for which GitHub knows one attestation of the first.        *)
(***************************************************************************)
EXTENDS FetchFixture, TLC

CONSTANTS upstream, fork, linux, darwin, slsa, attestation, v1, v02, linuxV1, linuxV02, linuxBare, darwinV1, garbled

MCPredicateType ==
    linuxV1 :> v1 @@ linuxV02 :> v02 @@ linuxBare :> None @@ darwinV1 :> v1 @@ garbled :> Malformed

\* slsa is in the name of every version, attestation in that of one.
MCSelects == {<<slsa, v1>>, <<slsa, v02>>, <<attestation, v02>>}

MCResponses ==
    <<upstream, linux>> :> {<<>>, <<linuxV1>>, <<linuxV1, linuxV02>>, <<linuxBare, linuxV1>>,
                            <<linuxV02, linuxBare>>}
    @@ <<upstream, darwin>> :> {<<>>, <<darwinV1>>, <<darwinV1, garbled>>, <<garbled>>}
    @@ <<fork, linux>> :> {<<>>, <<linuxV02>>}
    @@ <<fork, darwin>> :> {<<>>}

=============================================================================
