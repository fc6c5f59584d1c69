--------------------------- MODULE RawStoreProofs ---------------------------
(***************************************************************************)
(* Theorems about RawStore, for any set of callers, byte strings, digests  *)
(* and directories.                                                        *)
(*                                                                         *)
(* TypeOK and ContentAddressed hold however callers share the store, and   *)
(* so does QuiescentVerbatim where there are no faults. The rest needs     *)
(* Sharded: with two callers storing the same bytes the code does tear     *)
(* records (the runs store_torn_get and store_put_raises).                 *)
(***************************************************************************)
EXTENDS RawStore, TLAPS

USE RawStoreAssumption

PutSteps == {"exists", "mkdir", "open", "write", "rename"}

-----------------------------------------------------------------------------
(* Names *)

\* No two digests share a file name.
LEMMA NameFacts ==
    ASSUME NEW d \in Digests
    PROVE  /\ PathFor(d) \in Names
           /\ TmpFor(d) \in Names
           /\ \A e \in Digests : PathFor(d) = PathFor(e) => d = e
           /\ \A e \in Digests : TmpFor(d) = TmpFor(e) => d = e
           /\ \A e \in Digests : PathFor(d) # TmpFor(e)
    BY DEF PathFor, TmpFor, Names

\* Every file is a record or a temporary file.
LEMMA NameCases ==
    ASSUME NEW n \in Names
    PROVE  \E d \in Digests : n = PathFor(d) \/ n = TmpFor(d)
    BY DEF PathFor, TmpFor, Names

\* A descriptor that names no file.
LEMMA NotNames == Closed \notin Names /\ Unlinked \notin Names
    BY DEF Closed, Unlinked, Names

\* Every result is one.
LEMMA ResultFacts ==
    /\ NoResult \in Results
    /\ \A d \in Digests : /\ Stored(d) \in Results
                          /\ Missing(d) \in Results
                          /\ Raised(d) \in Results
                          /\ \A v \in Contents : Read(d, v) \in Results
    BY DEF NoResult, Stored, Missing, Raised, Read, Results, Contents

-----------------------------------------------------------------------------
(* The strengthened type invariant: a call knows its digest.               *)

CallOK ==
    \A c \in Callers :
        /\ pc[c] # "idle" => digest[c] \in Digests
        /\ pc[c] \in PutSteps => raw[c] \in MayPut[c] /\ digest[c] = digest_of[raw[c]]
        /\ pc[c] = "write" => fd[c] \in {PathFor(digest[c]), TmpFor(digest[c]), Unlinked}
        /\ pc[c] # "write" => fd[c] = Closed

TypeInv == TypeOK /\ CallOK

\* A store that was just made, and callers that are idle.
LEMMA TypeInit == Init => TypeInv
    BY NotNames, ResultFacts
    DEF Init, TypeInv, TypeOK, CallOK, Steps, PutSteps, Contents

\* What a call that ends leaves behind is well typed.
LEMMA ReturnType ==
    ASSUME TypeInv, NEW c \in Callers, NEW r \in Results, Return(c, r)
    PROVE  /\ pc' \in [Callers -> Steps]
           /\ raw' \in [Callers -> Bytes \cup {Absent}]
           /\ digest' \in [Callers -> Digests \cup {Absent}]
           /\ fd' \in [Callers -> Names \cup {Closed, Unlinked}]
           /\ result' \in [Callers -> Results]
           /\ CallOK'
  <1>1. /\ pc' = [pc EXCEPT ![c] = "idle"]
        /\ raw' = [raw EXCEPT ![c] = Absent]
        /\ digest' = [digest EXCEPT ![c] = Absent]
        /\ fd' = [fd EXCEPT ![c] = Closed]
        /\ result' = [result EXCEPT ![c] = r]
    BY DEF Return, End, Goto
  <1>2. CallOK'
    BY <1>1 DEF TypeInv, TypeOK, CallOK, PutSteps
  <1> QED
    BY <1>1, <1>2 DEF TypeInv, TypeOK, Steps

\* TypeInv is inductive.
LEMMA TypeStep == TypeInv /\ [Next]_vars => TypeInv'
  <1> SUFFICES ASSUME TypeInv, [Next]_vars
               PROVE  TypeInv'
    OBVIOUS
  <1> USE DEF TypeInv
  <1>a. \A b \in Bytes : digest_of[b] \in Digests /\ b \in Contents
    BY DEF Contents
  <1>b. \A c \in Callers : MayPut[c] \subseteq Bytes
    OBVIOUS
  <1>c. Torn \in Contents /\ Absent \in Contents
    BY DEF Contents
  <1>1. ASSUME NEW c \in Callers, NEW b \in MayPut[c], BeginPut(c, b)
        PROVE  TypeInv'
    <2>1. TypeOK'
      BY <1>1, <1>a, <1>b DEF TypeOK, BeginPut, Goto, Steps
    <2>2. CallOK'
      BY <1>1, <1>a, <1>b DEF TypeOK, CallOK, BeginPut, Goto, PutSteps
    <2> QED
      BY <2>1, <2>2
  <1>2. ASSUME NEW c \in Callers, PutExists(c)
        PROVE  TypeInv'
    <2>1. digest[c] \in Digests
      BY <1>2 DEF PutExists, CallOK
    <2> QED
      BY <1>2, <2>1, ReturnType, ResultFacts DEF PutExists, Acknowledge, TypeOK
  <1>3. ASSUME NEW c \in Callers, PutAbsent(c)
        PROVE  TypeInv'
    BY <1>3 DEF PutAbsent, Goto, TypeOK, CallOK, Steps, PutSteps
  <1>4. ASSUME NEW c \in Callers, MakeDir(c)
        PROVE  TypeInv'
    <2>1. digest[c] \in Digests /\ FanOut[digest[c]] \in Dirs
      BY <1>4 DEF MakeDir, CallOK
    <2>2. TypeOK'
      BY <1>4, <2>1 DEF MakeDir, Goto, TypeOK, Steps
    <2>3. CallOK'
      BY <1>4 DEF MakeDir, Goto, TypeOK, CallOK, PutSteps
    <2> QED
      BY <2>2, <2>3
  <1>5. ASSUME NEW c \in Callers, OpenTmp(c)
        PROVE  TypeInv'
    <2>1. digest[c] \in Digests /\ pc[c] = "open"
      BY <1>5 DEF OpenTmp, CallOK
    <2>2. CASE FanOut[digest[c]] \in dirs
      <3>1. TypeOK'
        BY <1>5, <2>1, <2>2, <1>c, NameFacts DEF OpenTmp, Goto, TypeOK, Steps
      <3>2. CallOK'
        BY <1>5, <2>1, <2>2 DEF OpenTmp, Goto, TypeOK, CallOK, PutSteps
      <3> QED
        BY <3>1, <3>2
    <2>3. CASE FanOut[digest[c]] \notin dirs
      BY <1>5, <2>1, <2>3, ReturnType, ResultFacts DEF OpenTmp, TypeOK
    <2> QED
      BY <2>2, <2>3
  <1>6. ASSUME NEW c \in Callers, WriteTmp(c)
        PROVE  TypeInv'
    <2>1. raw[c] \in Contents
      BY <1>6, <1>a, <1>b DEF WriteTmp, CallOK, PutSteps
    <2>2. TypeOK'
      BY <1>6, <2>1 DEF WriteTmp, Goto, TypeOK, Steps
    <2>3. CallOK'
      BY <1>6 DEF WriteTmp, Goto, TypeOK, CallOK, PutSteps
    <2> QED
      BY <2>2, <2>3
  <1>7. ASSUME NEW c \in Callers, Rename(c)
        PROVE  TypeInv'
    <2> DEFINE d == digest[c]
    <2>1. d \in Digests /\ pc[c] = "rename"
      BY <1>7 DEF Rename, CallOK
    <2>2. PathFor(d) \in Names /\ TmpFor(d) \in Names
      BY <2>1, NameFacts
    <2>3. /\ fs' = [fs EXCEPT ![PathFor(d)] = fs[TmpFor(d)], ![TmpFor(d)] = Absent]
          /\ fd' = Renamed(d)
          /\ acked' = acked \cup {d}
          /\ pc' = [pc EXCEPT ![c] = "idle"]
          /\ raw' = [raw EXCEPT ![c] = Absent]
          /\ digest' = [digest EXCEPT ![c] = Absent]
          /\ result' = [result EXCEPT ![c] = Stored(d)]
          /\ dirs' = dirs
      BY <1>7 DEF Rename, End, Goto
    <2>4. \A f \in Callers : fd'[f] = IF fd[f] = TmpFor(d) THEN PathFor(d)
                                     ELSE IF fd[f] = PathFor(d) THEN Unlinked
                                     ELSE fd[f]
      BY <2>3 DEF Renamed
    <2>5. fd' \in [Callers -> Names \cup {Closed, Unlinked}]
      BY <2>2, <2>3 DEF Renamed, TypeOK
    <2>6. TypeOK'
      BY <2>1, <2>2, <2>3, <2>5, <1>c, ResultFacts DEF TypeOK, Steps
    <2>7. CallOK'
      <3> SUFFICES ASSUME NEW f \in Callers
                   PROVE  /\ pc'[f] # "idle" => digest'[f] \in Digests
                          /\ pc'[f] \in PutSteps => /\ raw'[f] \in MayPut[f]
                                                  /\ digest'[f] = digest_of[raw'[f]]
                          /\ pc'[f] = "write" =>
                               fd'[f] \in {PathFor(digest'[f]), TmpFor(digest'[f]), Unlinked}
                          /\ pc'[f] # "write" => fd'[f] = Closed
        BY DEF CallOK
      <3>1. CASE f = c
        BY <2>1, <2>2, <2>3, <2>4, <3>1, NotNames DEF TypeOK, CallOK, PutSteps
      <3>2. CASE f # c
        <4>1. /\ pc'[f] = pc[f] /\ raw'[f] = raw[f] /\ digest'[f] = digest[f]
          BY <2>3, <3>2 DEF TypeOK
        <4>2. CASE pc[f] # "write"
          BY <2>2, <2>4, <4>1, <4>2, NotNames DEF CallOK
        <4>3. CASE pc[f] = "write"
          <5>1. digest[f] \in Digests
            BY <4>3 DEF CallOK
          <5>2. fd[f] \in {PathFor(digest[f]), TmpFor(digest[f]), Unlinked}
            BY <4>3 DEF CallOK
          <5>3. fd'[f] \in {PathFor(digest[f]), TmpFor(digest[f]), Unlinked}
            BY <2>1, <2>2, <2>4, <5>1, <5>2, NameFacts, NotNames
          <5> QED
            BY <4>1, <4>3, <5>3 DEF CallOK
        <4> QED
          BY <4>2, <4>3
      <3> QED
        BY <3>1, <3>2
    <2> QED
      BY <2>6, <2>7
  <1>8. ASSUME NEW c \in Callers, RenameMissing(c)
        PROVE  TypeInv'
    <2>1. digest[c] \in Digests
      BY <1>8 DEF RenameMissing, CallOK
    <2> QED
      BY <1>8, <2>1, ReturnType, ResultFacts DEF RenameMissing, TypeOK
  <1>9. ASSUME NEW c \in Callers, NEW d \in Digests, BeginGet(c, d)
        PROVE  TypeInv'
    <2>1. TypeOK'
      BY <1>9 DEF BeginGet, Goto, TypeOK, Steps
    <2>2. CallOK'
      BY <1>9 DEF BeginGet, Goto, TypeOK, CallOK, PutSteps
    <2> QED
      BY <2>1, <2>2
  <1>10. ASSUME NEW c \in Callers, GetMissing(c)
         PROVE  TypeInv'
    <2>1. digest[c] \in Digests
      BY <1>10 DEF GetMissing, CallOK
    <2> QED
      BY <1>10, <2>1, ReturnType, ResultFacts DEF GetMissing, TypeOK
  <1>11. ASSUME NEW c \in Callers, GetFound(c)
         PROVE  TypeInv'
    BY <1>11 DEF GetFound, Goto, TypeOK, CallOK, Steps, PutSteps
  <1>12. ASSUME NEW c \in Callers, ReadBytes(c)
         PROVE  TypeInv'
    <2>1. digest[c] \in Digests
      BY <1>12 DEF ReadBytes, CallOK
    <2>2. fs[PathFor(digest[c])] \in Contents
      BY <2>1, NameFacts DEF TypeOK
    <2> QED
      BY <1>12, <2>1, <2>2, ReturnType, ResultFacts DEF ReadBytes, TypeOK
  <1>13. ASSUME NEW c \in Callers, Fails(c)
         PROVE  TypeInv'
    <2>1. digest[c] \in Digests
      BY <1>13 DEF Fails, CallOK
    <2> QED
      BY <1>13, <2>1, ReturnType, ResultFacts DEF Fails, TypeOK
  <1>14. ASSUME NEW c \in Callers, Crash(c)
         PROVE  TypeInv'
    BY <1>14, ReturnType, ResultFacts DEF Crash, TypeOK
  <1>15. CASE UNCHANGED vars
    BY <1>15 DEF vars, TypeOK, CallOK
  <1> QED
    BY <1>1, <1>2, <1>3, <1>4, <1>5, <1>6, <1>7, <1>8, <1>9, <1>10, <1>11,
       <1>12, <1>13, <1>14, <1>15
    DEF Next, Put, Get

\* TypeInv holds throughout.
LEMMA TypeInvariant == Spec => []TypeInv
    BY TypeInit, TypeStep, PTL DEF Spec

\* Every variable keeps its type, whoever shares the store.
THEOREM TypeCorrect == Spec => []TypeOK
    BY TypeInvariant, PTL DEF TypeInv

-----------------------------------------------------------------------------
(* A file holds bytes of its own digest, or is torn, or is not there.      *)

\* Only three steps touch a file.
LEMMA FileSteps ==
    ASSUME [Next]_vars
    PROVE  \/ fs' = fs
           \/ \E c \in Callers : OpenTmp(c) \/ WriteTmp(c) \/ Rename(c)
    BY DEF Next, vars, Put, Get, BeginPut, PutExists, PutAbsent, MakeDir,
           RenameMissing, BeginGet, GetMissing, GetFound, ReadBytes, Fails, Crash

\* A descriptor of a caller is one of a file of its own digest, so writing
\* keeps every file to its digest.
LEMMA AddressStep == TypeInv /\ ContentAddressed /\ [Next]_vars => ContentAddressed'
  <1> SUFFICES ASSUME TypeInv, ContentAddressed, [Next]_vars
               PROVE  ContentAddressed'
    OBVIOUS
  <1> USE DEF TypeInv
  <1>1. ASSUME fs' = fs
        PROVE  ContentAddressed'
    BY <1>1 DEF ContentAddressed, Verbatim
  <1>2. ASSUME NEW c \in Callers, OpenTmp(c)
        PROVE  ContentAddressed'
    <2>1. digest[c] \in Digests
      BY <1>2 DEF OpenTmp, CallOK
    <2>2. \/ fs' = fs
          \/ fs' = [fs EXCEPT ![TmpFor(digest[c])] = Torn]
      BY <1>2 DEF OpenTmp
    <2> QED
      BY <2>1, <2>2, NameFacts DEF TypeOK, ContentAddressed, Verbatim
  <1>3. ASSUME NEW c \in Callers, WriteTmp(c)
        PROVE  ContentAddressed'
    <2>1. /\ digest[c] \in Digests
          /\ digest_of[raw[c]] = digest[c]
          /\ fd[c] \in {PathFor(digest[c]), TmpFor(digest[c]), Unlinked}
      BY <1>3 DEF WriteTmp, CallOK, PutSteps
    <2>2. \/ fs' = fs
          \/ fs' = [fs EXCEPT ![PathFor(digest[c])] = raw[c]]
          \/ fs' = [fs EXCEPT ![TmpFor(digest[c])] = raw[c]]
      BY <1>3, <2>1, NotNames DEF WriteTmp
    <2> QED
      BY <2>1, <2>2, NameFacts DEF TypeOK, ContentAddressed, Verbatim
  <1>4. ASSUME NEW c \in Callers, Rename(c)
        PROVE  ContentAddressed'
    <2> DEFINE d == digest[c]
    <2>1. d \in Digests
      BY <1>4 DEF Rename, CallOK
    <2>2. fs' = [fs EXCEPT ![PathFor(d)] = fs[TmpFor(d)], ![TmpFor(d)] = Absent]
      BY <1>4 DEF Rename
    <2>3. /\ fs'[PathFor(d)] = fs[TmpFor(d)]
          /\ fs'[TmpFor(d)] = Absent
          /\ \A e \in Digests : e # d => /\ fs'[PathFor(e)] = fs[PathFor(e)]
                                       /\ fs'[TmpFor(e)] = fs[TmpFor(e)]
      BY <2>1, <2>2, NameFacts DEF TypeOK
    <2> QED
      BY <2>1, <2>3 DEF ContentAddressed, Verbatim
  <1> QED
    BY <1>1, <1>2, <1>3, <1>4, FileSteps

\* However callers share the store, no file ever holds the bytes of another
\* digest than the one in its name.
THEOREM ContentIsAddressed == Spec => []ContentAddressed
  <1>1. Init => ContentAddressed
    BY NameFacts DEF Init, ContentAddressed
  <1> QED
    BY <1>1, AddressStep, TypeInvariant, PTL DEF Spec

-----------------------------------------------------------------------------
(* Whoever shares the store, torn files have writers                       *)

\* A file that lacks some of its bytes is still open.
TornIsOpen == \A n \in Names : fs[n] = Torn => \E c \in Callers : fd[c] = n

\* A torn file is open: only opening and writing tear one, and only its writer
\* closes it.
LEMMA TornStep ==
    ASSUME Faults = {}, TypeInv, TornIsOpen, [Next]_vars
    PROVE  TornIsOpen'
  <1> USE DEF TypeInv
  <1>1. ASSUME fs' = fs, fd' = fd
        PROVE  TornIsOpen'
    BY <1>1 DEF TornIsOpen
  <1>2. ASSUME NEW c \in Callers, NEW r, Return(c, r), fs' = fs, pc[c] # "write"
        PROVE  TornIsOpen'
    <2>1. fd[c] = Closed
      BY <1>2 DEF CallOK
    <2>2. fd' = fd
      BY <1>2, <2>1 DEF Return, TypeOK
    <2> QED
      BY <1>1, <1>2, <2>2
  <1>3. ASSUME NEW c \in Callers, OpenTmp(c)
        PROVE  TornIsOpen'
    <2>1. digest[c] \in Digests /\ pc[c] = "open" /\ fd[c] = Closed
      BY <1>3 DEF OpenTmp, CallOK
    <2>2. CASE FanOut[digest[c]] \in dirs
      BY <1>3, <2>1, <2>2, NameFacts, NotNames DEF OpenTmp, TypeOK, TornIsOpen
    <2>3. CASE FanOut[digest[c]] \notin dirs
      BY <1>2, <1>3, <2>1, <2>3 DEF OpenTmp
    <2> QED
      BY <2>2, <2>3
  <1>4. ASSUME NEW c \in Callers, WriteTmp(c)
        PROVE  TornIsOpen'
    <2>1. raw[c] # Torn
      BY <1>4 DEF WriteTmp, CallOK, PutSteps
    <2> SUFFICES ASSUME NEW n \in Names, fs'[n] = Torn
                 PROVE  \E f \in Callers : fd'[f] = n
      BY DEF TornIsOpen
    <2>2. n # fd[c] /\ fs[n] = Torn
      BY <1>4, <2>1 DEF WriteTmp, TypeOK
    <2>3. PICK f \in Callers : fd[f] = n
      BY <2>2 DEF TornIsOpen
    <2> QED
      BY <1>4, <2>2, <2>3 DEF WriteTmp, TypeOK
  <1>5. ASSUME NEW c \in Callers, Rename(c)
        PROVE  TornIsOpen'
    <2> DEFINE d == digest[c]
    <2>1. d \in Digests
      BY <1>5 DEF Rename, CallOK
    <2>2. /\ fs' = [fs EXCEPT ![PathFor(d)] = fs[TmpFor(d)], ![TmpFor(d)] = Absent]
          /\ fd' = Renamed(d)
      BY <1>5 DEF Rename
    <2> SUFFICES ASSUME NEW n \in Names, fs'[n] = Torn
                 PROVE  \E f \in Callers : fd'[f] = n
      BY DEF TornIsOpen
    <2>3. n # TmpFor(d)
      BY <2>1, <2>2, NameFacts DEF TypeOK
    <2>4. CASE n = PathFor(d)
      <3>1. fs[TmpFor(d)] = Torn
        BY <2>1, <2>2, <2>4, NameFacts DEF TypeOK
      <3>2. PICK f \in Callers : fd[f] = TmpFor(d)
        BY <2>1, <3>1, NameFacts DEF TornIsOpen
      <3> QED
        BY <2>2, <2>4, <3>2 DEF Renamed
    <2>5. CASE n # PathFor(d)
      <3>1. fs[n] = Torn
        BY <2>1, <2>2, <2>3, <2>5, NameFacts DEF TypeOK
      <3>2. PICK f \in Callers : fd[f] = n
        BY <3>1 DEF TornIsOpen
      <3> QED
        BY <2>2, <2>3, <2>5, <3>2 DEF Renamed
    <2> QED
      BY <2>4, <2>5
  <1>6. ASSUME NEW c \in Callers,
               PutExists(c) \/ RenameMissing(c) \/ GetMissing(c) \/ ReadBytes(c)
        PROVE  TornIsOpen'
    BY <1>2, <1>6 DEF PutExists, Acknowledge, RenameMissing, GetMissing, ReadBytes
  <1>7. ASSUME NEW c \in Callers,
               \/ \E b \in MayPut[c] : BeginPut(c, b)
               \/ PutAbsent(c) \/ MakeDir(c) \/ GetFound(c)
               \/ \E d \in Digests : BeginGet(c, d)
        PROVE  TornIsOpen'
    BY <1>1, <1>7 DEF BeginPut, PutAbsent, MakeDir, GetFound, BeginGet
  <1>8. ASSUME NEW c \in Callers
        PROVE  ~Fails(c) /\ ~Crash(c)
    BY DEF Fails, Crash
  <1>9. CASE UNCHANGED vars
    BY <1>1, <1>9 DEF vars
  <1> QED
    BY <1>3, <1>4, <1>5, <1>6, <1>7, <1>8, <1>9 DEF Next, Put, Get

\* Where nothing fails and nobody is killed, callers that race on the same
\* bytes leave no torn record behind once their files are closed.
THEOREM QuiescentRecordsAreWhole ==
    ASSUME Faults = {}
    PROVE  Spec => []QuiescentVerbatim
  <1>1. Init => TornIsOpen
    BY DEF Init, TornIsOpen
  <1>2. TypeInv /\ TornIsOpen => QuiescentVerbatim
    BY NameFacts, NotNames DEF TornIsOpen, QuiescentVerbatim
  <1>3. TypeInv /\ TornIsOpen /\ [Next]_vars => TornIsOpen'
    BY TornStep
  <1> QED
    BY <1>1, <1>2, <1>3, TypeInvariant, PTL DEF Spec

-----------------------------------------------------------------------------
(* One caller per byte string.                                             *)

Writing == {"mkdir", "open", "write", "rename"}

\* Between its exists() and its rename, a caller has the two names of its
\* digest for itself, and the temporary file is as it left it.
Owner ==
    \A c \in Callers : pc[c] \in Writing =>
        /\ fs[PathFor(digest[c])] = Absent
        /\ pc[c] = "open" => FanOut[digest[c]] \in dirs
        /\ pc[c] = "write" => fd[c] = TmpFor(digest[c])
        /\ pc[c] = "rename" => fs[TmpFor(digest[c])] = raw[c]

\* A record that a caller knows of, by its put or by exists(), is there.
Known ==
    /\ \A d \in acked : fs[PathFor(d)] # Absent
    /\ \A c \in Callers : pc[c] = "read" => fs[PathFor(digest[c])] # Absent

NoTorn == \A d \in Digests : fs[PathFor(d)] # Torn

ShardedInv == Owner /\ Known /\ NoTorn /\ GetIsVerbatim

\* Two callers in put are about different digests.
LEMMA Distinct ==
    ASSUME Sharded, TypeInv, NEW c1 \in Callers, NEW c2 \in Callers, c1 # c2,
           pc[c1] \in PutSteps, pc[c2] \in PutSteps
    PROVE  digest[c1] # digest[c2]
    BY DEF Sharded, TypeInv, TypeOK, CallOK

\* A whole record is all that is left for a file that is there and not torn.
LEMMA WholeRecord ==
    ASSUME TypeInv, ContentAddressed, NoTorn, NEW d \in Digests, fs[PathFor(d)] # Absent
    PROVE  Verbatim(d, fs[PathFor(d)])
    BY NameFacts DEF TypeInv, TypeOK, Contents, NoTorn, ContentAddressed

\* A call that ends without touching a file.
LEMMA ReturnSafe ==
    ASSUME TypeInv, ShardedInv, NEW c \in Callers, NEW r, Return(c, r),
           UNCHANGED <<fs, dirs>>,
           \A d \in acked' : d \in acked \/ fs[PathFor(d)] # Absent,
           r.out = "bytes" => Verbatim(r.digest, r.value)
    PROVE  ShardedInv'
  <1> USE DEF Return, End, Goto, TypeInv, TypeOK, ShardedInv
  <1>1. Owner'
    BY DEF Owner, Writing
  <1>2. Known'
    BY DEF Known
  <1>3. NoTorn'
    BY DEF NoTorn
  <1>4. GetIsVerbatim'
    BY DEF GetIsVerbatim, Verbatim
  <1> QED
    BY <1>1, <1>2, <1>3, <1>4

\* A put that has passed exists(), about to make its directory.
LEMMA PutAbsentSafe ==
    ASSUME TypeInv, ShardedInv, NEW c \in Callers, PutAbsent(c)
    PROVE  ShardedInv'
  <1> USE DEF PutAbsent, Goto, Exists, TypeInv, TypeOK, ShardedInv
  <1> QED
    BY DEF Owner, Writing, Known, NoTorn, GetIsVerbatim, Verbatim

\* Making the directory touches no file.
LEMMA MakeDirSafe ==
    ASSUME TypeInv, ShardedInv, NEW c \in Callers, MakeDir(c)
    PROVE  ShardedInv'
  <1> USE DEF MakeDir, Goto, TypeInv, TypeOK, ShardedInv
  <1>1. Owner'
    BY DEF Owner, Writing
  <1> QED
    BY <1>1 DEF Known, NoTorn, GetIsVerbatim, Verbatim

\* The caller's own temporary file is truncated, and nobody else's.
LEMMA OpenTmpSafe ==
    ASSUME Sharded, TypeInv, ShardedInv, NEW c \in Callers, OpenTmp(c)
    PROVE  ShardedInv'
  <1> DEFINE d == digest[c]
  <1>1. /\ d \in Digests
        /\ pc[c] = "open"
        /\ FanOut[d] \in dirs
    BY DEF OpenTmp, TypeInv, CallOK, ShardedInv, Owner, Writing
  <1>2. /\ fs' = [fs EXCEPT ![TmpFor(d)] = Torn]
        /\ fd' = [fd EXCEPT ![c] = TmpFor(d)]
        /\ pc' = [pc EXCEPT ![c] = "write"]
        /\ UNCHANGED <<dirs, raw, digest, result, acked>>
    BY <1>1 DEF OpenTmp, Goto
  <1>3. \A e \in Digests : fs'[PathFor(e)] = fs[PathFor(e)]
    BY <1>1, <1>2, NameFacts DEF TypeInv, TypeOK
  <1>4. Owner'
    <2> SUFFICES ASSUME NEW f \in Callers, pc'[f] \in Writing
                 PROVE  /\ fs'[PathFor(digest[f])] = Absent
                        /\ pc'[f] = "open" => FanOut[digest[f]] \in dirs
                        /\ pc'[f] = "write" => fd'[f] = TmpFor(digest[f])
                        /\ pc'[f] = "rename" => fs'[TmpFor(digest[f])] = raw[f]
      BY <1>2 DEF Owner
    <2>1. CASE f = c
      BY <1>1, <1>2, <1>3, <2>1 DEF TypeInv, TypeOK, ShardedInv, Owner, Writing
    <2>2. CASE f # c
      <3>1. pc'[f] = pc[f] /\ fd'[f] = fd[f]
        BY <1>2, <2>2 DEF TypeInv, TypeOK
      <3>2. digest[f] \in Digests /\ digest[f] # d
        BY <1>1, <2>2, <3>1, Distinct DEF TypeInv, CallOK, Writing, PutSteps
      <3>3. fs'[TmpFor(digest[f])] = fs[TmpFor(digest[f])]
        BY <1>1, <1>2, <3>2, NameFacts DEF TypeInv, TypeOK
      <3> QED
        BY <1>3, <3>1, <3>2, <3>3 DEF ShardedInv, Owner
    <2> QED
      BY <2>1, <2>2
  <1>5. Known'
    <2>1. \A e \in acked : e \in Digests
      BY DEF TypeInv, TypeOK
    <2>2. \A f \in Callers : pc'[f] = "read" => pc[f] = "read" /\ digest[f] \in Digests
      BY <1>2 DEF TypeInv, TypeOK, CallOK
    <2> QED
      BY <1>2, <1>3, <2>1, <2>2 DEF ShardedInv, Known
  <1>6. NoTorn' /\ GetIsVerbatim'
    BY <1>2, <1>3 DEF ShardedInv, NoTorn, GetIsVerbatim, Verbatim
  <1> QED
    BY <1>4, <1>5, <1>6 DEF ShardedInv

\* The bytes go into the caller's own temporary file.
LEMMA WriteTmpSafe ==
    ASSUME Sharded, TypeInv, ShardedInv, NEW c \in Callers, WriteTmp(c)
    PROVE  ShardedInv'
  <1> DEFINE d == digest[c]
  <1>1. /\ d \in Digests
        /\ pc[c] = "write"
        /\ fd[c] = TmpFor(d)
    BY DEF WriteTmp, TypeInv, CallOK, ShardedInv, Owner, Writing
  <1>2. /\ fs' = [fs EXCEPT ![TmpFor(d)] = raw[c]]
        /\ fd' = [fd EXCEPT ![c] = Closed]
        /\ pc' = [pc EXCEPT ![c] = "rename"]
        /\ UNCHANGED <<dirs, raw, digest, result, acked>>
    BY <1>1, NameFacts DEF WriteTmp, Goto
  <1>3. \A e \in Digests : fs'[PathFor(e)] = fs[PathFor(e)]
    BY <1>1, <1>2, NameFacts DEF TypeInv, TypeOK
  <1>4. Owner'
    <2> SUFFICES ASSUME NEW f \in Callers, pc'[f] \in Writing
                 PROVE  /\ fs'[PathFor(digest[f])] = Absent
                        /\ pc'[f] = "open" => FanOut[digest[f]] \in dirs
                        /\ pc'[f] = "write" => fd'[f] = TmpFor(digest[f])
                        /\ pc'[f] = "rename" => fs'[TmpFor(digest[f])] = raw[f]
      BY <1>2 DEF Owner
    <2>1. CASE f = c
      BY <1>1, <1>2, <1>3, <2>1, NameFacts DEF TypeInv, TypeOK, ShardedInv, Owner, Writing
    <2>2. CASE f # c
      <3>1. pc'[f] = pc[f] /\ fd'[f] = fd[f]
        BY <1>2, <2>2 DEF TypeInv, TypeOK
      <3>2. digest[f] \in Digests /\ digest[f] # d
        BY <1>1, <2>2, <3>1, Distinct DEF TypeInv, CallOK, Writing, PutSteps
      <3>3. fs'[TmpFor(digest[f])] = fs[TmpFor(digest[f])]
        BY <1>1, <1>2, <3>2, NameFacts DEF TypeInv, TypeOK
      <3> QED
        BY <1>3, <3>1, <3>2, <3>3 DEF ShardedInv, Owner
    <2> QED
      BY <2>1, <2>2
  <1>5. Known'
    <2>1. \A e \in acked : e \in Digests
      BY DEF TypeInv, TypeOK
    <2>2. \A f \in Callers : pc'[f] = "read" => pc[f] = "read" /\ digest[f] \in Digests
      BY <1>2 DEF TypeInv, TypeOK, CallOK
    <2> QED
      BY <1>2, <1>3, <2>1, <2>2 DEF ShardedInv, Known
  <1>6. NoTorn' /\ GetIsVerbatim'
    BY <1>2, <1>3 DEF ShardedInv, NoTorn, GetIsVerbatim, Verbatim
  <1> QED
    BY <1>4, <1>5, <1>6 DEF ShardedInv

\* The whole bytes appear under the final name at once.
LEMMA RenameEffect ==
    ASSUME TypeInv, ShardedInv, NEW c \in Callers, Rename(c)
    PROVE  /\ digest[c] \in Digests
           /\ raw[c] \in Bytes
           /\ digest[c] = digest_of[raw[c]]
           /\ fs[PathFor(digest[c])] = Absent
           /\ fs'[PathFor(digest[c])] = raw[c]
           /\ \A e \in Digests : e # digest[c] => /\ fs'[PathFor(e)] = fs[PathFor(e)]
                                                /\ fs'[TmpFor(e)] = fs[TmpFor(e)]
           /\ result' = [result EXCEPT ![c] = Stored(digest[c])]
  <1>1. /\ digest[c] \in Digests
        /\ raw[c] \in Bytes
        /\ digest[c] = digest_of[raw[c]]
        /\ fs[PathFor(digest[c])] = Absent
        /\ fs[TmpFor(digest[c])] = raw[c]
    BY DEF Rename, TypeInv, TypeOK, CallOK, PutSteps, ShardedInv, Owner, Writing
  <1>2. fs' = [fs EXCEPT ![PathFor(digest[c])] = fs[TmpFor(digest[c])],
                         ![TmpFor(digest[c])] = Absent]
    BY DEF Rename
  <1> QED
    BY <1>1, <1>2, NameFacts DEF Rename, End, TypeInv, TypeOK

\* A rename publishes the file that its caller has written, which no other
\* had.
LEMMA RenameSafe ==
    ASSUME Sharded, TypeInv, ShardedInv, NEW c \in Callers, Rename(c)
    PROVE  ShardedInv'
  <1> DEFINE d == digest[c]
  <1>1. /\ pc[c] = "rename"
        /\ pc' = [pc EXCEPT ![c] = "idle"]
        /\ raw' = [raw EXCEPT ![c] = Absent]
        /\ digest' = [digest EXCEPT ![c] = Absent]
        /\ fd' = Renamed(d)
        /\ acked' = acked \cup {d}
        /\ dirs' = dirs
    BY DEF Rename, End, Goto
  <1>2. \A e \in Digests : /\ fs[PathFor(e)] # Absent => fs'[PathFor(e)] # Absent
                          /\ fs'[PathFor(e)] # Torn
    BY RenameEffect DEF ShardedInv, NoTorn
  <1>3. Owner'
    <2> SUFFICES ASSUME NEW f \in Callers, pc'[f] \in Writing
                 PROVE  /\ fs'[PathFor(digest'[f])] = Absent
                        /\ pc'[f] = "open" => FanOut[digest'[f]] \in dirs
                        /\ pc'[f] = "write" => fd'[f] = TmpFor(digest'[f])
                        /\ pc'[f] = "rename" => fs'[TmpFor(digest'[f])] = raw'[f]
      BY <1>1 DEF Owner
    <2>1. f # c
      BY <1>1 DEF TypeInv, TypeOK, Writing
    <2>2. pc'[f] = pc[f] /\ raw'[f] = raw[f] /\ digest'[f] = digest[f]
      BY <1>1, <2>1 DEF TypeInv, TypeOK
    <2>3. digest[f] \in Digests /\ digest[f] # d
      BY <1>1, <2>1, <2>2, Distinct DEF TypeInv, CallOK, Writing, PutSteps
    <2>4. /\ fs'[PathFor(digest[f])] = fs[PathFor(digest[f])]
          /\ fs'[TmpFor(digest[f])] = fs[TmpFor(digest[f])]
      BY <2>3, RenameEffect
    <2>5. pc[f] = "write" => fd'[f] = fd[f]
      <3> SUFFICES ASSUME pc[f] = "write" PROVE fd'[f] = fd[f]
        OBVIOUS
      <3>1. fd[f] = TmpFor(digest[f])
        BY DEF ShardedInv, Owner, Writing
      <3>2. fd[f] # TmpFor(d) /\ fd[f] # PathFor(d)
        BY <2>3, <3>1, NameFacts, RenameEffect
      <3> QED
        BY <1>1, <3>2 DEF Renamed
    <2> QED
      BY <1>1, <2>2, <2>4, <2>5 DEF ShardedInv, Owner
  <1>4. Known'
    <2>1. \A e \in acked' : fs'[PathFor(e)] # Absent
      BY <1>1, <1>2, RenameEffect DEF TypeInv, TypeOK, ShardedInv, Known
    <2>2. ASSUME NEW f \in Callers, pc'[f] = "read"
          PROVE  fs'[PathFor(digest'[f])] # Absent
      <3>1. pc[f] = "read" /\ digest'[f] = digest[f] /\ digest[f] \in Digests
        BY <1>1, <2>2 DEF TypeInv, TypeOK, CallOK
      <3> QED
        BY <1>2, <3>1 DEF ShardedInv, Known
    <2> QED
      BY <2>1, <2>2 DEF Known
  <1>5. NoTorn'
    BY <1>2 DEF NoTorn
  <1>6. GetIsVerbatim'
    BY RenameEffect DEF TypeInv, TypeOK, Stored, ShardedInv, GetIsVerbatim, Verbatim
  <1> QED
    BY <1>3, <1>4, <1>5, <1>6 DEF ShardedInv

\* With no call under way there is nothing to own.
LEMMA ShardedInit == Init => ShardedInv
    BY NameFacts
    DEF Init, ShardedInv, Owner, Writing, Known, NoTorn, GetIsVerbatim, NoResult

\* ShardedInv is inductive when no two callers store the same bytes.
LEMMA ShardedStep ==
    ASSUME Sharded, TypeInv, ContentAddressed, ShardedInv, [Next]_vars
    PROVE  ShardedInv'
  <1>1. ASSUME NEW c \in Callers, NEW b \in MayPut[c], BeginPut(c, b)
        PROVE  ShardedInv'
    BY <1>1 DEF BeginPut, Goto, TypeInv, TypeOK, ShardedInv, Owner, Writing, Known,
                NoTorn, GetIsVerbatim, Verbatim
  <1>2. ASSUME NEW c \in Callers, PutExists(c)
        PROVE  ShardedInv'
    <2>1. \A d \in acked' : d \in acked \/ fs[PathFor(d)] # Absent
      BY <1>2 DEF PutExists, Acknowledge, Exists
    <2> QED
      BY <1>2, <2>1, ReturnSafe DEF PutExists, Acknowledge, Stored
  <1>3. ASSUME NEW c \in Callers, RenameMissing(c)
        PROVE  ShardedInv'
    BY <1>3, ReturnSafe DEF RenameMissing, Raised
  <1>4. ASSUME NEW c \in Callers, NEW d \in Digests, BeginGet(c, d)
        PROVE  ShardedInv'
    BY <1>4 DEF BeginGet, Goto, TypeInv, TypeOK, ShardedInv, Owner, Writing, Known,
                NoTorn, GetIsVerbatim, Verbatim
  <1>5. ASSUME NEW c \in Callers, GetMissing(c)
        PROVE  ShardedInv'
    BY <1>5, ReturnSafe DEF GetMissing, Missing
  <1>6. ASSUME NEW c \in Callers, GetFound(c)
        PROVE  ShardedInv'
    BY <1>6 DEF GetFound, Goto, Exists, TypeInv, TypeOK, ShardedInv, Owner, Writing,
                Known, NoTorn, GetIsVerbatim, Verbatim
  <1>7. ASSUME NEW c \in Callers, ReadBytes(c)
        PROVE  ShardedInv'
    <2>1. digest[c] \in Digests /\ fs[PathFor(digest[c])] # Absent
      BY <1>7 DEF ReadBytes, TypeInv, CallOK, ShardedInv, Known
    <2>2. Verbatim(digest[c], fs[PathFor(digest[c])])
      BY <2>1, WholeRecord DEF ShardedInv
    <2> QED
      BY <1>7, <2>2, ReturnSafe DEF ReadBytes, Read
  <1>8. ASSUME NEW c \in Callers, Fails(c)
        PROVE  ShardedInv'
    BY <1>8, ReturnSafe DEF Fails, Raised
  <1>9. ASSUME NEW c \in Callers, Crash(c)
        PROVE  ShardedInv'
    BY <1>9, ReturnSafe DEF Crash, NoResult
  <1>10. CASE UNCHANGED vars
    BY <1>10 DEF vars, ShardedInv, Owner, Writing, Known, NoTorn, GetIsVerbatim, Verbatim
  <1> QED
    BY <1>1, <1>2, <1>3, <1>4, <1>5, <1>6, <1>7, <1>8, <1>9, <1>10,
       PutAbsentSafe, MakeDirSafe, OpenTmpSafe, WriteTmpSafe, RenameSafe
    DEF Next, Put, Get

\* ShardedInv holds throughout when no two callers store the same bytes.
LEMMA ShardedInvariant ==
    ASSUME Sharded
    PROVE  Spec => [](TypeInv /\ ContentAddressed /\ ShardedInv)
  <1>1. TypeInv /\ ContentAddressed /\ ShardedInv /\ [Next]_vars => ShardedInv'
    BY ShardedStep
  <1> QED
    BY <1>1, ShardedInit, TypeInvariant, ContentIsAddressed, PTL DEF Spec

\* What get returns is the whole of the bytes that were stored under the
\* digest, at any moment of any put, after any crash or I/O error.
THEOREM GetReturnsTheBytes ==
    ASSUME Sharded
    PROVE  Spec => []GetIsVerbatim
  <1>1. ShardedInv => GetIsVerbatim
    BY DEF ShardedInv
  <1> QED
    BY <1>1, ShardedInvariant, PTL

\* A digest that put has returned can be read back, whole, ever after.
THEOREM AckedIsDurable ==
    ASSUME Sharded
    PROVE  Spec => []AckedReadable
  <1>1. TypeInv /\ ContentAddressed /\ ShardedInv => AckedReadable
    <2> SUFFICES ASSUME TypeInv, ContentAddressed, ShardedInv, NEW d \in acked
                 PROVE  Verbatim(d, fs[PathFor(d)])
      BY DEF AckedReadable
    <2>1. d \in Digests /\ fs[PathFor(d)] # Absent
      BY DEF TypeInv, TypeOK, ShardedInv, Known
    <2> QED
      BY <2>1, WholeRecord DEF ShardedInv
  <1> QED
    BY <1>1, ShardedInvariant, PTL

-----------------------------------------------------------------------------
(* Records do not change                                                   *)

\* No step changes or removes a record that is there.
LEMMA RecordStep ==
    ASSUME Sharded, TypeInv, ShardedInv, [Next]_vars, NEW d \in Digests,
           fs[PathFor(d)] # Absent
    PROVE  fs'[PathFor(d)] = fs[PathFor(d)]
  <1>1. ASSUME NEW c \in Callers, OpenTmp(c)
        PROVE  fs'[PathFor(d)] = fs[PathFor(d)]
    <2>1. digest[c] \in Digests
      BY <1>1 DEF OpenTmp, TypeInv, CallOK
    <2> QED
      BY <1>1, <2>1, NameFacts DEF OpenTmp, TypeInv, TypeOK
  <1>2. ASSUME NEW c \in Callers, WriteTmp(c)
        PROVE  fs'[PathFor(d)] = fs[PathFor(d)]
    <2>1. digest[c] \in Digests /\ fd[c] = TmpFor(digest[c])
      BY <1>2 DEF WriteTmp, TypeInv, CallOK, ShardedInv, Owner, Writing
    <2> QED
      BY <1>2, <2>1, NameFacts DEF WriteTmp, TypeInv, TypeOK
  <1>3. ASSUME NEW c \in Callers, Rename(c)
        PROVE  fs'[PathFor(d)] = fs[PathFor(d)]
    BY <1>3, RenameEffect
  <1> QED
    BY <1>1, <1>2, <1>3, FileSteps

\* Once a record has its final name, no step of put, get, a crash or an I/O
\* error changes or removes it.
THEOREM RecordsAreImmutable ==
    ASSUME Sharded
    PROVE  Spec => Immutable
  <1>1. TypeInv /\ ShardedInv /\ [Next]_vars =>
          [\A d \in Digests :
              fs[PathFor(d)] # Absent => fs'[PathFor(d)] = fs[PathFor(d)]]_vars
    BY RecordStep
  <1> QED
    BY <1>1, ShardedInvariant, PTL DEF Spec, Immutable

\* Where no file-system call fails by itself, put does not raise: its
\* temporary file is still there when it renames it.
THEOREM PutIsQuiet ==
    ASSUME Sharded, "oserror" \notin Faults
    PROVE  Spec => []PutNeverRaises
  <1>1. Init => PutNeverRaises
    <2>1. Init => \A c \in Callers : result[c] = NoResult
      BY DEF Init
    <2>2. NoResult.out = "none"
      BY DEF NoResult
    <2> QED
      BY <2>1, <2>2 DEF PutNeverRaises
  <1>2. TypeInv /\ ShardedInv /\ PutNeverRaises /\ [Next]_vars => PutNeverRaises'
    <2> SUFFICES ASSUME TypeInv, ShardedInv, PutNeverRaises, [Next]_vars
                 PROVE  PutNeverRaises'
      OBVIOUS
    <2>1. ASSUME NEW c \in Callers, NEW r, r.out # "raised",
                 result' = [result EXCEPT ![c] = r]
          PROVE  PutNeverRaises'
      BY <2>1 DEF PutNeverRaises, TypeInv, TypeOK
    <2>2. ASSUME result' = result
          PROVE  PutNeverRaises'
      BY <2>2 DEF PutNeverRaises
    <2>3. ASSUME NEW c \in Callers, OpenTmp(c)
          PROVE  PutNeverRaises'
      BY <2>2, <2>3 DEF OpenTmp, ShardedInv, Owner, Writing
    <2>4. ASSUME NEW c \in Callers, RenameMissing(c)
          PROVE  FALSE
      BY <2>4 DEF RenameMissing, TypeInv, TypeOK, CallOK, PutSteps, ShardedInv, Owner,
                  Writing
    <2>5. ASSUME NEW c \in Callers,
                 PutExists(c) \/ Rename(c) \/ GetMissing(c) \/ ReadBytes(c) \/ Crash(c)
          PROVE  PutNeverRaises'
      BY <2>1, <2>5 DEF PutExists, Acknowledge, Rename, GetMissing, ReadBytes, Crash,
                        Return, End, Stored, Missing, Read, NoResult
    <2>6. ASSUME NEW c \in Callers, Fails(c)
          PROVE  FALSE
      BY <2>6 DEF Fails
    <2>7. ASSUME NEW c \in Callers,
                 \/ \E b \in MayPut[c] : BeginPut(c, b)
                 \/ PutAbsent(c) \/ MakeDir(c) \/ WriteTmp(c) \/ GetFound(c)
                 \/ \E d \in Digests : BeginGet(c, d)
          PROVE  PutNeverRaises'
      BY <2>2, <2>7 DEF BeginPut, PutAbsent, MakeDir, WriteTmp, GetFound, BeginGet
    <2>8. CASE UNCHANGED vars
      BY <2>2, <2>8 DEF vars
    <2> QED
      BY <2>3, <2>4, <2>5, <2>6, <2>7, <2>8 DEF Next, Put, Get
  <1> QED
    BY <1>1, <1>2, ShardedInvariant, PTL DEF Spec

-----------------------------------------------------------------------------
(* The code implements the atomic store                                    *)

\* Every step of the store is one of the atomic map, or a stutter.
LEMMA AbstractStep ==
    ASSUME Sharded, TypeInv, ContentAddressed, ShardedInv, [Next]_vars
    PROVE  [Abstract!Next]_(Abstract!vars)
  <1> USE DEF TypeInv
  <1>1. ASSUME fs' = fs, result' = result
        PROVE  [Abstract!Next]_(Abstract!vars)
    BY <1>1 DEF Abstract!vars
  <1>2. ASSUME NEW c \in Callers, PutExists(c)
        PROVE  Abstract!Next
    <2>1. /\ digest[c] \in Digests
          /\ raw[c] \in Bytes
          /\ digest[c] = digest_of[raw[c]]
          /\ fs[PathFor(digest[c])] # Absent
      BY <1>2 DEF PutExists, Exists, TypeOK, CallOK, PutSteps
    <2>2. fs[PathFor(digest[c])] = raw[c]
      BY <2>1, WholeRecord DEF ShardedInv, Verbatim
    <2>3. /\ fs' = fs
          /\ result' = [result EXCEPT ![c] = Stored(digest[c])]
      BY <1>2 DEF PutExists, Acknowledge, Return, End
    <2>4. Abstract!Put(c, raw[c])
      BY <2>1, <2>2, <2>3 DEF Abstract!Put, Abstract!Stored, Stored
    <2> QED
      BY <2>1, <2>4 DEF Abstract!Next
  <1>3. ASSUME NEW c \in Callers, OpenTmp(c)
        PROVE  [Abstract!Next]_(Abstract!vars)
    <2>1. digest[c] \in Digests /\ FanOut[digest[c]] \in dirs
      BY <1>3 DEF OpenTmp, CallOK, ShardedInv, Owner, Writing
    <2>2. \A e \in Digests : fs'[PathFor(e)] = fs[PathFor(e)]
      BY <1>3, <2>1, NameFacts DEF OpenTmp, TypeOK
    <2>3. result' = result
      BY <1>3, <2>1 DEF OpenTmp
    <2> QED
      BY <2>2, <2>3 DEF Abstract!vars
  <1>4. ASSUME NEW c \in Callers, WriteTmp(c)
        PROVE  [Abstract!Next]_(Abstract!vars)
    <2>1. digest[c] \in Digests /\ fd[c] = TmpFor(digest[c])
      BY <1>4 DEF WriteTmp, CallOK, ShardedInv, Owner, Writing
    <2>2. \A e \in Digests : fs'[PathFor(e)] = fs[PathFor(e)]
      BY <1>4, <2>1, NameFacts DEF WriteTmp, TypeOK
    <2> QED
      BY <1>4, <2>2 DEF WriteTmp, Abstract!vars
  <1>5. ASSUME NEW c \in Callers, Rename(c)
        PROVE  Abstract!Next
    <2> DEFINE d == digest[c]
    <2>1. /\ d \in Digests
          /\ raw[c] \in Bytes
          /\ d = digest_of[raw[c]]
          /\ fs[PathFor(d)] = Absent
          /\ fs'[PathFor(d)] = raw[c]
          /\ \A e \in Digests : e # d => fs'[PathFor(e)] = fs[PathFor(e)]
          /\ result' = [result EXCEPT ![c] = Stored(d)]
      BY <1>5, RenameEffect
    <2>2. Abstract!Put(c, raw[c])
      BY <2>1 DEF Abstract!Put, Abstract!Stored, Stored
    <2> QED
      BY <2>1, <2>2 DEF Abstract!Next
  <1>6. ASSUME NEW c \in Callers, RenameMissing(c) \/ Fails(c)
        PROVE  Abstract!Next
    <2>1. digest[c] \in Digests
      BY <1>6 DEF RenameMissing, Fails, CallOK
    <2>2. fs' = fs /\ result' = [result EXCEPT ![c] = Raised(digest[c])]
      BY <1>6 DEF RenameMissing, Fails, Return, End
    <2>3. Abstract!Raise(c, digest[c])
      BY <2>2 DEF Abstract!Raise, Abstract!Raised, Raised
    <2> QED
      BY <2>1, <2>3 DEF Abstract!Next
  <1>7. ASSUME NEW c \in Callers, GetMissing(c)
        PROVE  Abstract!Next
    <2>1. digest[c] \in Digests /\ fs[PathFor(digest[c])] = Absent
      BY <1>7 DEF GetMissing, Exists, CallOK
    <2>2. fs' = fs /\ result' = [result EXCEPT ![c] = Missing(digest[c])]
      BY <1>7 DEF GetMissing, Return, End
    <2>3. Abstract!GetMissing(c, digest[c])
      BY <2>1, <2>2 DEF Abstract!GetMissing, Abstract!Missing, Missing
    <2> QED
      BY <2>1, <2>3 DEF Abstract!Next
  <1>8. ASSUME NEW c \in Callers, ReadBytes(c)
        PROVE  Abstract!Next
    <2>1. digest[c] \in Digests /\ fs[PathFor(digest[c])] # Absent
      BY <1>8 DEF ReadBytes, CallOK, ShardedInv, Known
    <2>2. /\ fs' = fs
          /\ result' = [result EXCEPT ![c] = Read(digest[c], fs[PathFor(digest[c])])]
      BY <1>8 DEF ReadBytes, Return, End
    <2>3. Abstract!Get(c, digest[c])
      BY <2>1, <2>2 DEF Abstract!Get, Abstract!Read, Read
    <2> QED
      BY <2>1, <2>3 DEF Abstract!Next
  <1>9. ASSUME NEW c \in Callers, Crash(c)
        PROVE  Abstract!Next
    BY <1>9 DEF Crash, Return, End, NoResult, Abstract!Die, Abstract!NoResult, Abstract!Next
  <1>10. ASSUME NEW c \in Callers,
                \/ \E b \in MayPut[c] : BeginPut(c, b)
                \/ PutAbsent(c) \/ MakeDir(c) \/ GetFound(c)
                \/ \E d \in Digests : BeginGet(c, d)
         PROVE  [Abstract!Next]_(Abstract!vars)
    BY <1>1, <1>10 DEF BeginPut, PutAbsent, MakeDir, GetFound, BeginGet
  <1>11. CASE UNCHANGED vars
    BY <1>1, <1>11 DEF vars
  <1> QED
    BY <1>2, <1>3, <1>4, <1>5, <1>6, <1>7, <1>8, <1>9, <1>10, <1>11 DEF Next, Put, Get

\* With one caller per byte string, put and get over a file system behave as
\* the atomic, append-only map of ContentStore.
THEOREM StoreIsAtomic ==
    ASSUME Sharded
    PROVE  Spec => ImplementsContentStore
  <1>1. Init => Abstract!Init
    BY NameFacts DEF Init, NoResult, Abstract!Init, Abstract!NoResult
  <1>2. TypeInv /\ ContentAddressed /\ ShardedInv /\ [Next]_vars
          => [Abstract!Next]_(Abstract!vars)
    BY AbstractStep
  <1> QED
    BY <1>1, <1>2, ShardedInvariant, PTL DEF Spec, ImplementsContentStore, Abstract!Spec

=============================================================================
