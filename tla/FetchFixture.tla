---------------------------- MODULE FetchFixture ----------------------------
(***************************************************************************)
(* scripts/fetch_github_attestation.py, run by hand over and over on one   *)
(* output directory: ask GitHub for the attestations of a digest, choose   *)
(* one, and write it and its sidecar in place, one after the other. Any    *)
(* call may raise and the process may be killed at any step; the next run  *)
(* finds the files as they are.                                            *)
(*                                                                         *)
(* GitHub is external: of each repository, a digest has the answers that   *)
(* it may give.                                                            *)
(***************************************************************************)
EXTENDS Values, Naturals, Sequences

CONSTANTS
    Repos,         \* OWNER/REPO
    Hashes,        \* subject digests, in hex
    Selectors,     \* values of --predicate-type-contains
    Attestations,
    PredicateType, \* PredicateType[a]: that of the statement in a, None without
                   \* one, Malformed if the bundle of a cannot be decoded
    Selects,       \* the pairs (s, t) where s is a substring of the type t
    Responses,     \* Responses[<<repo, h>>]: what GitHub may answer, sequences of
                   \* attestations
    Absent,        \* the content of a file that is not there
    Torn           \* that of a file opened for writing, or written in part

ASSUME FetchAssumption ==
    /\ Responses \in [Repos \X Hashes -> SUBSET Seq(Attestations)]
    /\ None \notin Selectors \cup Attestations
    /\ {Absent, Torn} \cap Attestations = {}
    /\ Absent # Torn
    /\ \A s \in Selectors : <<s, None>> \notin Selects

VARIABLES
    pc,           \* the next call of main, "idle" between the runs
    args,         \* the command line: [repo, digest, selector], None before any
    attestations, \* the answer of GitHub
    bundle,       \* the local of that name, None before it is assigned
    bundle_json, meta_json,  \* the two files
    status,       \* the end of the last run: "saved" (main returned 0), "refused"
                  \* (it returned 1), "stopped", or "cut off" if it was stopped as it
                  \* wrote; "running" before it ends
    before,       \* history: the two files when the run started
    cut           \* history: a run was stopped as it wrote, and none saved since

files  == <<bundle_json, meta_json>>
locals == <<args, attestations, bundle>>
vars   == <<pc, locals, files, status, before, cut>>

\* The calls from the first that changes a file on.
Writing == {"write bundle", "open meta", "write meta"}
Steps   == {"gh api", "choose", "mkdir", "open bundle"} \cup Writing

-----------------------------------------------------------------------------

\* A digest is [prefixed, hex]: whether it starts with "sha256:".
Digests == [prefixed : BOOLEAN, hex : Hashes]

\* mutant: the digest goes into the path as it was given
AsGiven(digest) == digest

\* digest if digest.startswith("sha256:") else f"sha256:{digest}"
SubjectDigest(digest) == [digest EXCEPT !.prefixed = TRUE]

CommandLines == [repo : Repos, digest : Digests, selector : Selectors \cup {None}]

\* Where an answer has what the command line selects: the list chosen.
Chosen ==
    {i \in DOMAIN attestations :
        args.selector = None \/ <<args.selector, PredicateType[attestations[i]]>> \in Selects}

\* statement_of raises on none of them. Whatever the selector, main decodes
\* every member of an answer before it has chosen one.
Legible == \A i \in DOMAIN attestations : PredicateType[attestations[i]] # Malformed

\* The sidecar, whose endpoint is made of the repository and the digest.
Meta(command, a) ==
    [repo |-> command.repo, subject_digest |-> SubjectDigest(command.digest),
     predicate_type |-> PredicateType[a]]

\* What GitHub may answer to a command line.
Answers(command) == Responses[<<command.repo, SubjectDigest(command.digest).hex>>]

-----------------------------------------------------------------------------

Init ==
    /\ pc = "idle" /\ status = "running"
    /\ args = None /\ attestations = <<>> /\ bundle = None
    /\ bundle_json = Absent /\ meta_json = Absent
    /\ before = files /\ cut = FALSE

\* mutant: the output is opened with the arguments, as argparse.FileType does
InvokeOpening(command) ==
    /\ pc = "idle"
    /\ pc' = "gh api"
    /\ args' = command /\ attestations' = <<>> /\ bundle' = None
    /\ bundle_json' = Torn
    /\ status' = "running" /\ before' = files
    /\ UNCHANGED <<meta_json, cut>>

Invoke(command) ==
    /\ pc = "idle"
    /\ pc' = "gh api"
    /\ args' = command /\ attestations' = <<>> /\ bundle' = None
    /\ status' = "running" /\ before' = files
    /\ UNCHANGED <<files, cut>>

\* resp = gh_api(...): an error of gh is an exception, see Stop.
Answered ==
    /\ pc = "gh api"
    /\ pc' = "choose"
    /\ attestations' \in Answers(args)
    /\ UNCHANGED <<args, bundle, files, status, before, cut>>

\* return 1: nothing found, nothing selected, or more than one.
Refuse ==
    /\ pc = "choose"
    /\ Legible
    /\ \A i \in DOMAIN attestations : Chosen # {i}
    /\ pc' = "idle" /\ status' = "refused"
    /\ UNCHANGED <<locals, files, before, cut>>

ChooseRaises ==
    /\ pc = "choose"
    /\ ~Legible
    /\ pc' = "idle" /\ status' = "stopped"
    /\ UNCHANGED <<locals, files, before, cut>>

\* mutant: of several, the first
ChooseFirst ==
    /\ pc = "choose"
    /\ Legible
    /\ Chosen # {}
    /\ pc' = "mkdir"
    /\ bundle' = attestations[CHOOSE i \in Chosen : \A j \in Chosen : i <= j]
    /\ UNCHANGED <<args, attestations, files, status, before, cut>>

Choose ==
    /\ pc = "choose"
    /\ Legible
    /\ pc' = "mkdir"
    /\ \E i \in DOMAIN attestations : Chosen = {i} /\ bundle' = attestations[i]
    /\ UNCHANGED <<args, attestations, files, status, before, cut>>

MakeDir ==
    /\ pc = "mkdir"
    /\ pc' = "open bundle"
    /\ UNCHANGED <<locals, files, status, before, cut>>

\* open(..., "w") truncates what an earlier run has left.
OpenBundle ==
    /\ pc = "open bundle"
    /\ pc' = "write bundle"
    /\ bundle_json' = Torn
    /\ UNCHANGED <<locals, meta_json, status, before, cut>>

WriteBundle ==
    /\ pc = "write bundle"
    /\ pc' = "open meta"
    /\ bundle_json' = bundle
    /\ UNCHANGED <<locals, meta_json, status, before, cut>>

OpenMeta ==
    /\ pc = "open meta"
    /\ pc' = "write meta"
    /\ meta_json' = Torn
    /\ UNCHANGED <<locals, bundle_json, status, before, cut>>

\* mutant: the sidecar that an earlier run has written is kept
WriteMetaOnce ==
    /\ pc = "write meta"
    /\ pc' = "idle" /\ status' = "saved"
    /\ meta_json' = IF before[2] \in {Absent, Torn} THEN Meta(args, bundle) ELSE before[2]
    /\ cut' = FALSE
    /\ UNCHANGED <<locals, bundle_json, before>>

\* The last write, and return 0.
WriteMeta ==
    /\ pc = "write meta"
    /\ pc' = "idle" /\ status' = "saved"
    /\ meta_json' = Meta(args, bundle)
    /\ cut' = FALSE
    /\ UNCHANGED <<locals, bundle_json, before>>

\* A call raises (no gh, no network, no answer for the digest, no such
\* directory, disk full), or the process is killed. Nothing is cleaned up.
Stop ==
    /\ pc \in Steps \ {"choose"}
    /\ pc' = "idle"
    /\ status' = IF pc \in Writing THEN "cut off" ELSE "stopped"
    /\ cut' = (cut \/ pc \in Writing)
    /\ UNCHANGED <<locals, files, before>>

Next ==
    \/ \E command \in CommandLines : Invoke(command)
    \/ Answered \/ Refuse \/ ChooseRaises \/ Choose
    \/ MakeDir \/ OpenBundle \/ WriteBundle \/ OpenMeta \/ WriteMeta
    \/ Stop

Spec == Init /\ [][Next]_vars

-----------------------------------------------------------------------------

Metas == [repo : Repos, subject_digest : [prefixed : {TRUE}, hex : Hashes],
          predicate_type : {PredicateType[a] : a \in Attestations}]

TypeOK ==
    /\ pc \in Steps \cup {"idle"}
    /\ args \in CommandLines \cup {None}
    /\ attestations \in Seq(Attestations)
    /\ bundle \in Attestations \cup {None}
    /\ bundle_json \in Attestations \cup {Absent, Torn}
    /\ meta_json \in Metas \cup {Absent, Torn}
    /\ status \in {"running", "saved", "refused", "stopped", "cut off"}
    /\ before \in (Attestations \cup {Absent, Torn}) \X (Metas \cup {Absent, Torn})
    /\ cut \in BOOLEAN

\* The sidecar records where the bundle came from: of its repository, GitHub
\* answers its digest with that bundle among others, and the predicate type is
\* the bundle's.
Describes(meta, a) ==
    \E command \in CommandLines :
        /\ meta = Meta(command, a)
        /\ \E answer \in Answers(command) : \E i \in DOMAIN answer : answer[i] = a

\* A run that returned 0 has saved the one attestation of the answer that its
\* command line selects, beside a sidecar for that one, whatever a run that
\* stopped half way had left there ("pick one", line 77; "saved verbatim as
\* returned", line 98).
SavedAsAsked ==
    pc = "idle" /\ status = "saved" =>
        /\ \E i \in DOMAIN attestations : Chosen = {i} /\ bundle_json = attestations[i]
        /\ meta_json = Meta(args, bundle_json)

\* The bundle in hand is what the command line selects from an answer in which
\* all can be decoded, and nothing else is.
IsTheOneSelected ==
    /\ Legible
    /\ \E i \in DOMAIN attestations : Chosen = {i} /\ bundle = attestations[i]

\* At no moment has a run changed the fixture of an earlier one unless its
\* command line selects exactly one attestation of an answer in which all can be
\* decoded, and it has that one in hand (lines 59-86). And a run that has ended
\* with the fixture changed has saved, or was stopped as it wrote: one that
\* refused, or was stopped before (by gh, by the decoding, by mkdir, or by the
\* first open itself), leaves it as it was.
RefusalIsHarmless ==
    files # before =>
        /\ IsTheOneSelected
        /\ pc = "idle" => status \in {"saved", "cut off"}

\* Each fixture is "captured as-is with a meta.json sidecar recording where
\* each came from" (TESTING.md:11): unless a run was stopped as it wrote, and
\* none has saved since, the two files go together, or neither is there.
SidecarDescribesBundle ==
    pc = "idle" /\ ~cut =>
        \/ files = <<Absent, Absent>>
        \/ bundle_json \in Attestations /\ Describes(meta_json, bundle_json)

=============================================================================
