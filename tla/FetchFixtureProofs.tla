------------------------- MODULE FetchFixtureProofs -------------------------
(***************************************************************************)
(* Theorems about FetchFixture, for all attestations, selectors, answers   *)
(* and any number of runs that stop anywhere.                              *)
(*                                                                         *)
(* What the runs leave behind is stated of the idle program only. The      *)
(* inductive invariant follows the two files through a run: they are those *)
(* from before up to the first open, and from then on what pc says.        *)
(***************************************************************************)
EXTENDS FetchFixture, TLAPS

\* The two files go together, or neither is there.
GoTogether ==
    \/ files = <<Absent, Absent>>
    \/ bundle_json \in Attestations /\ Describes(meta_json, bundle_json)

\* The bundle is the one that the command line selects from an answer to it.
BundleIsChosen == attestations \in Answers(args) /\ IsTheOneSelected

\* What holds between two calls of a run, and when it has ended.
RunOK ==
    /\ pc = "idle" /\ files # before =>
         IsTheOneSelected /\ status \in {"saved", "cut off"}
    /\ pc # "idle" => args \in CommandLines /\ status = "running"
    /\ pc \in Steps \ Writing => files = before
    /\ pc \in {"gh api", "choose"} => bundle = None
    /\ pc = "choose" => attestations \in Answers(args)
    /\ pc \in {"mkdir", "open bundle"} \cup Writing => BundleIsChosen
    /\ pc \in {"open meta", "write meta"} => bundle_json = bundle

FetchInv ==
    /\ TypeOK
    /\ RunOK
    /\ pc \notin Writing /\ ~cut => GoTogether
    /\ SavedAsAsked

-----------------------------------------------------------------------------

\* An answer is a sequence of attestations.
LEMMA AnswerType ==
    ASSUME NEW command \in CommandLines, NEW answer \in Answers(command)
    PROVE  answer \in Seq(Attestations)
<1>1. <<command.repo, SubjectDigest(command.digest).hex>> \in Repos \X Hashes
  BY DEF CommandLines, Digests, SubjectDigest
<1>. QED
  BY <1>1, FetchAssumption DEF Answers

\* A sidecar has the type of one, and describes the bundle it was made for.
LEMMA MetaDescribes ==
    ASSUME NEW command \in CommandLines, NEW answer \in Answers(command),
           NEW i \in DOMAIN answer
    PROVE  /\ answer[i] \in Attestations
           /\ Meta(command, answer[i]) \in Metas
           /\ Describes(Meta(command, answer[i]), answer[i])
<1>1. answer[i] \in Attestations
  BY AnswerType
<1>2. Meta(command, answer[i]) \in Metas
  BY <1>1 DEF Meta, Metas, SubjectDigest, CommandLines, Digests
<1>3. Describes(Meta(command, answer[i]), answer[i])
  BY DEF Describes
<1>. QED
  BY <1>1, <1>2, <1>3

-----------------------------------------------------------------------------

\* The invariant holds before the first run.
LEMMA InitInv == Init => FetchInv
<1>. SUFFICES ASSUME Init
              PROVE  FetchInv
  OBVIOUS
<1>1. attestations \in Seq(Attestations)
  BY DEF Init
<1>2. before \in (Attestations \cup {Absent, Torn}) \X (Metas \cup {Absent, Torn})
  BY DEF Init, files
<1>. QED
  BY <1>1, <1>2 DEF Init, FetchInv, TypeOK, RunOK, GoTogether, SavedAsAsked,
                    Steps, Writing, files

\* What is selected depends on the locals of main alone.
LEMMA SelectedByLocals ==
    ASSUME UNCHANGED locals
    PROVE  /\ IsTheOneSelected' <=> IsTheOneSelected
           /\ BundleIsChosen' <=> BundleIsChosen
  BY DEF locals, IsTheOneSelected, BundleIsChosen, Legible, Chosen, Answers

\* Every step of the script keeps it.
LEMMA NextInv == FetchInv /\ [Next]_vars => FetchInv'
<1>. SUFFICES ASSUME FetchInv, [Next]_vars
              PROVE  FetchInv'
  OBVIOUS
<1>. USE DEF FetchInv
<1>1. ASSUME NEW command \in CommandLines, Invoke(command)
      PROVE  FetchInv'
  <2>1. TypeOK'
    <3>1. attestations' \in Seq(Attestations)
      <4>1. <<>> \in Seq(Attestations)
        OBVIOUS
      <4>. QED
        BY <1>1, <4>1, Zenon DEF Invoke
    <3>2. before' \in (Attestations \cup {Absent, Torn}) \X (Metas \cup {Absent, Torn})
      BY <1>1 DEF Invoke, TypeOK, files
    <3>. QED
      BY <1>1, <3>1, <3>2 DEF Invoke, TypeOK, Steps, files
  <2>2. RunOK'
    BY <1>1 DEF Invoke, RunOK, Steps, Writing, files
  <2>3. GoTogether' <=> GoTogether
    BY <1>1 DEF Invoke, GoTogether, Describes, files
  <2>. QED
    BY <1>1, <2>1, <2>2, <2>3
       DEF Invoke, SavedAsAsked, Writing
<1>2. CASE Answered
  <2>1. args \in CommandLines
    BY <1>2 DEF Answered, RunOK
  <2>2. attestations' \in Answers(args) /\ attestations' \in Seq(Attestations)
    BY <1>2, <2>1, AnswerType DEF Answered
  <2>3. Answers(args)' = Answers(args)
    BY <1>2 DEF Answered, Answers
  <2>4. TypeOK' /\ RunOK'
    BY <1>2, <2>2, <2>3 DEF Answered, TypeOK, RunOK, Steps, Writing, files
  <2>5. GoTogether' <=> GoTogether
    BY <1>2 DEF Answered, GoTogether, Describes, Answers, files
  <2>. QED
    BY <1>2, <2>4, <2>5 DEF Answered, SavedAsAsked, Writing
<1>3. CASE Refuse \/ ChooseRaises
  <2>1. TypeOK' /\ RunOK'
    BY <1>3 DEF Refuse, ChooseRaises, TypeOK, RunOK, Steps, Writing, files, locals
  <2>2. GoTogether' <=> GoTogether
    BY <1>3 DEF Refuse, ChooseRaises, GoTogether, Describes, files
  <2>. QED
    BY <1>3, <2>1, <2>2 DEF Refuse, ChooseRaises, SavedAsAsked, Writing
<1>4. CASE Choose
  <2>1. PICK i \in DOMAIN attestations : Chosen = {i} /\ bundle' = attestations[i]
    BY <1>4 DEF Choose
  <2>2. bundle' \in Attestations
    <3>1. attestations \in Seq(Attestations)
      BY DEF TypeOK
    <3>. QED
      BY <2>1, <3>1
  <2>3. TypeOK'
    BY <1>4, <2>2 DEF Choose, TypeOK, Steps, files
  <2>4. IsTheOneSelected'
    BY <1>4, <2>1 DEF Choose, IsTheOneSelected, Legible, Chosen
  <2>5. BundleIsChosen'
    BY <1>4, <2>4 DEF Choose, BundleIsChosen, Answers, RunOK
  <2>6. RunOK'
    BY <1>4, <2>5 DEF Choose, RunOK, Steps, Writing, files
  <2>7. GoTogether' <=> GoTogether
    BY <1>4 DEF Choose, GoTogether, Describes, files
  <2>. QED
    BY <1>4, <2>3, <2>6, <2>7 DEF Choose, SavedAsAsked, Writing
<1>5. CASE MakeDir \/ OpenBundle \/ WriteBundle \/ OpenMeta
  <2>1. BundleIsChosen /\ UNCHANGED locals
    BY <1>5 DEF MakeDir, OpenBundle, WriteBundle, OpenMeta, RunOK, Writing
  <2>2. BundleIsChosen'
    BY <2>1, SelectedByLocals
  <2>3. bundle \in Attestations
    <3>1. attestations \in Seq(Attestations)
      BY DEF TypeOK
    <3>. QED
      BY <2>1, <3>1 DEF BundleIsChosen, IsTheOneSelected
  <2>4. TypeOK'
    BY <1>5, <2>3 DEF MakeDir, OpenBundle, WriteBundle, OpenMeta, TypeOK, Steps, Writing,
                      files, locals
  <2>5. RunOK'
    BY <1>5, <2>2 DEF MakeDir, OpenBundle, WriteBundle, OpenMeta, RunOK, Steps, Writing,
                      files, locals
  <2>6. (pc \notin Writing /\ ~cut => GoTogether)'
    <3>1. CASE MakeDir
      BY <3>1 DEF MakeDir, GoTogether, Describes, files, Writing
    <3>2. CASE OpenBundle \/ WriteBundle \/ OpenMeta
      BY <3>2 DEF OpenBundle, WriteBundle, OpenMeta, Writing
    <3>. QED
      BY <1>5, <3>1, <3>2
  <2>. QED
    BY <1>5, <2>4, <2>5, <2>6
       DEF MakeDir, OpenBundle, WriteBundle, OpenMeta, SavedAsAsked
<1>6. CASE WriteMeta
  <2>1. /\ BundleIsChosen /\ bundle_json = bundle /\ args \in CommandLines
        /\ UNCHANGED locals
    BY <1>6 DEF WriteMeta, RunOK, Writing
  <2>2. PICK i \in DOMAIN attestations : Chosen = {i} /\ bundle = attestations[i]
    BY <2>1 DEF BundleIsChosen, IsTheOneSelected
  <2>3. attestations \in Answers(args)
    BY <2>1 DEF BundleIsChosen
  <2>4. /\ bundle \in Attestations
        /\ Meta(args, bundle) \in Metas
        /\ Describes(Meta(args, bundle), bundle)
    BY <2>1, <2>2, <2>3, MetaDescribes
  <2>5. TypeOK'
    BY <1>6, <2>4 DEF WriteMeta, TypeOK, locals
  <2>6. IsTheOneSelected'
    BY <2>1, SelectedByLocals DEF BundleIsChosen
  <2>7. RunOK'
    BY <1>6, <2>6 DEF WriteMeta, RunOK, Steps, Writing
  <2>8. GoTogether'
    BY <1>6, <2>1, <2>4 DEF WriteMeta, GoTogether, Describes, locals
  <2>9. SavedAsAsked'
    BY <1>6, <2>1, <2>2 DEF WriteMeta, SavedAsAsked, Chosen, Meta, locals
  <2>. QED
    BY <2>5, <2>7, <2>8, <2>9
<1>7. CASE Stop
  <2>1. pc \in Writing => IsTheOneSelected'
    BY <1>7, SelectedByLocals DEF Stop, RunOK, BundleIsChosen
  <2>2. TypeOK' /\ RunOK'
    BY <1>7, <2>1 DEF Stop, TypeOK, RunOK, Steps, Writing, files, locals
  <2>3. GoTogether' <=> GoTogether
    BY <1>7 DEF Stop, GoTogether, Describes, files
  <2>4. SavedAsAsked'
    BY <1>7 DEF Stop, SavedAsAsked
  <2>. QED
    BY <1>7, <2>2, <2>3, <2>4 DEF Stop, Steps, Writing
<1>8. CASE UNCHANGED vars
  <2>. USE <1>8 DEF vars, locals, files
  <2>1. TypeOK'
    BY DEF TypeOK
  <2>2. RunOK'
    BY SelectedByLocals DEF RunOK, Answers
  <2>3. GoTogether' <=> GoTogether
    BY DEF GoTogether, Describes
  <2>4. SavedAsAsked'
    BY DEF SavedAsAsked, Chosen
  <2>. QED
    BY <2>1, <2>2, <2>3, <2>4
<1>. HIDE DEF FetchInv
<1>. QED
  BY <1>1, <1>2, <1>3, <1>4, <1>5, <1>6, <1>7, <1>8, Zenon DEF Next

-----------------------------------------------------------------------------

\* The invariant holds in every state of the script.
THEOREM FetchInvariant == Spec => []FetchInv
  BY InitInv, NextInv, PTL DEF Spec

\* Every variable keeps its type, whatever GitHub answers and wherever the runs
\* stop.
THEOREM FetchTypeCorrect == Spec => []TypeOK
<1>1. FetchInv => TypeOK
  BY DEF FetchInv
<1>. QED
  BY <1>1, FetchInvariant, PTL

\* A run that saved has saved the one attestation that was asked for, with a
\* sidecar for that one, over whatever earlier runs had left there (main).
THEOREM SavedIsAsked == Spec => []SavedAsAsked
<1>1. FetchInv => SavedAsAsked
  BY DEF FetchInv
<1>. QED
  BY <1>1, FetchInvariant, PTL

\* Until a run has the one attestation that it selects in hand and opens the
\* first file, the fixture is as it was; so it is when the run refused or was
\* stopped before that (lines 59-86).
THEOREM RefusalKeepsFiles == Spec => []RefusalIsHarmless
<1>1. FetchInv => RefusalIsHarmless
  <2>. SUFFICES ASSUME FetchInv, files # before
                PROVE  IsTheOneSelected /\ (pc = "idle" => status \in {"saved", "cut off"})
    BY DEF RefusalIsHarmless
  <2>1. CASE pc = "idle"
    BY <2>1 DEF FetchInv, RunOK
  <2>2. CASE pc # "idle"
    <3>1. pc \in Writing
      BY <2>2 DEF FetchInv, RunOK, TypeOK
    <3>2. BundleIsChosen
      BY <3>1 DEF FetchInv, RunOK
    <3>. QED
      BY <2>2, <3>2 DEF BundleIsChosen
  <2>. QED
    BY <2>1, <2>2
<1>. QED
  BY <1>1, FetchInvariant, PTL

\* The sidecar is that of the bundle beside it, unless a run was stopped as it
\* wrote and none has saved since (TESTING.md:11).
THEOREM SidecarGoesWithBundle == Spec => []SidecarDescribesBundle
<1>1. FetchInv => SidecarDescribesBundle
  BY DEF FetchInv, SidecarDescribesBundle, GoTogether, Writing
<1>. QED
  BY <1>1, FetchInvariant, PTL

=============================================================================
