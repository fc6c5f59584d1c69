----------------------------- MODULE MCRawStore -----------------------------
(***************************************************************************)
(* Values for the constants of RawStore: two or three callers and two byte *)
(* strings, each in a fan-out directory of its own.                        *)
(***************************************************************************)
EXTENDS RawStore, TLC

CONSTANTS c1, c2, c3, b1, b2, d1, d2, dirA, dirB

MCDigestOf == b1 :> d1 @@ b2 :> d2
MCFanOut   == d1 :> dirA @@ d2 :> dirB

\* Two callers, each with bytes of its own, and each free to read the other's.
MCShardedPut == c1 :> {b1} @@ c2 :> {b2}

\* All three store the same bytes, and one of them other bytes as well.
MCSharedPut == c1 :> {b1} @@ c2 :> {b1, b2} @@ c3 :> {b1}

=============================================================================
