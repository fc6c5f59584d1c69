---------------------------- MODULE ContentStore ----------------------------
(***************************************************************************)
(* What the raw store promises, with no files in it: a map from digest to  *)
(* bytes that only ever grows, and calls that take effect at one instant.  *)
(* It states the module docstring of raw_store/store.py ("whatever bytes   *)
(* are ingested are stored verbatim, addressed by the digest of those      *)
(* exact bytes, and never rewritten") and the docstrings of put and get.   *)
(* RawStore, the model of the code, is shown to implement this module.     *)
(***************************************************************************)

CONSTANTS
    Callers,    \* threads or processes that hold a RawEnvelopeStore
    Bytes,      \* the byte strings that are ever ingested
    Digests,    \* content addresses
    digest_of,  \* digest_of[b]: the content address of b, another for each b
    Absent      \* what the map holds where nothing was stored

VARIABLES
    records,  \* records[d]: the bytes stored under d, or Absent
    result    \* result[c]: what the last call of c returned or raised

vars == <<records, result>>

(***************************************************************************)
(* What a caller sees of a call: nothing yet, a digest returned by put,    *)
(* bytes returned by get, the KeyError of get, or an OSError of either.    *)
(***************************************************************************)
NoResult    == [out |-> "none",     digest |-> Absent, value |-> Absent]
Stored(d)   == [out |-> "stored",   digest |-> d,      value |-> Absent]
Read(d, v)  == [out |-> "bytes",    digest |-> d,      value |-> v]
Missing(d)  == [out |-> "KeyError", digest |-> d,      value |-> Absent]
Raised(d)   == [out |-> "raised",   digest |-> d,      value |-> Absent]

Init ==
    /\ records = [d \in Digests |-> Absent]
    /\ result = [c \in Callers |-> NoResult]

\* Storing identical bytes twice changes nothing; different bytes never
\* meet under one digest.
Put(c, b) ==
    /\ records[digest_of[b]] \in {Absent, b}
    /\ records' = [records EXCEPT ![digest_of[b]] = b]
    /\ result' = [result EXCEPT ![c] = Stored(digest_of[b])]

Get(c, d) ==
    /\ records[d] # Absent
    /\ result' = [result EXCEPT ![c] = Read(d, records[d])]
    /\ UNCHANGED records

GetMissing(c, d) ==
    /\ records[d] = Absent
    /\ result' = [result EXCEPT ![c] = Missing(d)]
    /\ UNCHANGED records

\* A call that raises an OSError has stored nothing.
Raise(c, d) ==
    /\ result' = [result EXCEPT ![c] = Raised(d)]
    /\ UNCHANGED records

\* A caller that dies forgets its last result; the store keeps its records.
Die(c) ==
    /\ result' = [result EXCEPT ![c] = NoResult]
    /\ UNCHANGED records

Next ==
    \E c \in Callers :
        \/ \E b \in Bytes : Put(c, b)
        \/ \E d \in Digests : Get(c, d) \/ GetMissing(c, d) \/ Raise(c, d)
        \/ Die(c)

Spec == Init /\ [][Next]_vars

=============================================================================
