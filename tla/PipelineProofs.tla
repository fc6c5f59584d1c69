--------------------------- MODULE PipelineProofs ---------------------------
(***************************************************************************)
(* Theorems about Pipeline, for any bundles, files, artifacts, tenants,    *)
(* allowlists and number of trust roots, and for any number of runs, on    *)
(* lists of files of any length, that end anywhere.                        *)
(*                                                                         *)
(* What the service promises is about a loop that has ended. The inductive *)
(* invariant says what each pass of the loop leaves behind: which locals   *)
(* agree between two of its calls (LoopInv), what store, records and index *)
(* hold of the files it has done (StoreInv, FactsInv, SeededInv, IndexInv) *)
(* and that an answer was given from those tables (ResponseInv).           *)
(***************************************************************************)
EXTENDS Pipeline, FiniteSetTheorems, TLAPS

\* The bytes of the i-th file of the run.
Content(i) == File[bundle_paths[i]]

\* Every stage can read b.
Fit(b) == b \in Bytes /\ Malformed \notin {Parsed[b], Normalized[b], Subjects[b]}

\* A process that is down has kept nothing.
DownInv ==
    phase = "down" =>
        /\ bundle_paths = <<>> /\ at = 1 /\ step = "read"
        /\ store = EmptyStore /\ checked = NoRecords
        /\ records_by_raw_digest = NoRecords /\ subject_index = NoIndex

\* The locals of the loop between two of its calls, each one about the file
\* that the loop is at.
LoopInv ==
    /\ phase = "serving" => at = Len(bundle_paths) + 1
    /\ step # "read" =>
         /\ phase = "seeding" /\ at <= Len(bundle_paths)
         /\ raw_bytes = Content(at) /\ raw_bytes \in Bytes
    /\ step \in {"get", "verify", "normalize", "index"} =>
         RawDigest = digest_of[raw_bytes] /\ store[RawDigest] = raw_bytes
    /\ step \in {"verify", "normalize", "index"} => StoredBytes = raw_bytes
    /\ step \in {"normalize", "index"} => Parsed[raw_bytes] # Malformed
    /\ step = "normalize" =>
         /\ verification = VerifyFromRaw(Parsed[raw_bytes], RawDigest, checked[RawDigest])
         /\ checked[RawDigest] \in 1..MaxRoot
    /\ step = "index" =>
         Normalized[raw_bytes] # Malformed /\ records_by_raw_digest[RawDigest] # None

StoreInv == \A d \in Digests : store[d] # Absent => digest_of[store[d]] = d

\* A record is the item of the bytes in the store under the root of their last
\* check, or, between VERIFY and NORMALISE of a file that comes again, of an
\* earlier one.
FactsInv ==
    \A d \in Digests :
        LET item == records_by_raw_digest[d] IN
        item # None =>
            /\ store[d] \in Bytes
            /\ \E r \in 1..MaxRoot :
                  /\ item = EvidenceItem(d, store[d], r)
                  /\ r = checked[d] \/ (step = "normalize" /\ RawDigest = d)

\* Every file that the loop has done is in the store and has its record.
SeededInv ==
    \A i \in 1..(at - 1) :
        /\ Fit(Content(i))
        /\ store[digest_of[Content(i)]] = Content(i)
        /\ records_by_raw_digest[digest_of[Content(i)]] # None

\* Where the first n files list d.
Listings(n, d) ==
    {p \in (1..n) \X (1..MaxSubjects) : p[2] \in Listed(Content(p[1]), d)}

\* A one-to-one correspondence between the entries of an index and the
\* listings that they stand for, in the order of the files.
Orders(entries, n, d) ==
    {from \in Bijection(1..Len(entries), Listings(n, d)) :
        /\ \A k, l \in 1..Len(entries) : k <= l => from[k][1] <= from[l][1]
        /\ \A k \in 1..Len(entries) : entries[k] = digest_of[Content(from[k][1])]}

IndexInv == \A d \in SubjectDigests : Orders(subject_index[d], at - 1, d) # {}

\* There is an answer only while the tables it was given from are there.
ResponseInv ==
    response # NoResponse =>
        /\ phase = "serving"
        /\ \E t \in Tenants, d \in SubjectDigests : response = Answer(t, d, EvidenceFor(d))

PipelineInv ==
    /\ TypeOK
    /\ DownInv
    /\ LoopInv
    /\ StoreInv
    /\ FactsInv
    /\ SeededInv
    /\ IndexInv
    /\ ResponseInv

-----------------------------------------------------------------------------
(* The start and the end of a process                                      *)

\* An empty index is that of no file.
LEMMA NoListings == \A d \in SubjectDigests : Orders(<<>>, 0, d) # {}
<1>. TAKE d \in SubjectDigests
<1>. DEFINE empty == [k \in 1..0 |-> k]
<1>1. Listings(0, d) = {} /\ 1..Len(<<>>) = 1..0 /\ 1..0 = {}
  BY DEF Listings
<1>2. empty \in Bijection(1..Len(<<>>), Listings(0, d))
  BY <1>1 DEF Bijection, Injection, Surjection, IsInjective
<1>3. empty \in Orders(<<>>, 0, d)
  BY <1>1, <1>2 DEF Orders
<1>. QED
  BY <1>3

\* What Exit leaves, and what a machine starts with.
Fresh ==
    /\ phase = "down" /\ bundle_paths = <<>>
    /\ at = 1 /\ step = "read" /\ raw_bytes = Absent
    /\ store = EmptyStore /\ call = NoCall
    /\ verification = None
    /\ records_by_raw_digest = NoRecords /\ subject_index = NoIndex
    /\ checked = NoRecords
    /\ root \in 1..MaxRoot
    /\ response = NoResponse

\* A process that holds nothing satisfies the invariant.
LEMMA FreshInv == Fresh => PipelineInv
<1>. SUFFICES ASSUME Fresh
              PROVE  PipelineInv
  OBVIOUS
<1>. USE DEF Fresh
<1>1. TypeOK
  <2>1. bundle_paths \in Seq(Paths) /\ Len(bundle_paths) = 0
    OBVIOUS
  <2>2. subject_index \in [SubjectDigests -> Seq(Digests)]
    <3>1. <<>> \in Seq(Digests)
      OBVIOUS
    <3>. QED
      BY <3>1, Zenon DEF NoIndex
  <2>3. at \in 1..(Len(bundle_paths) + 1)
    BY <2>1
  <2>4. store \in [Digests -> Bytes \cup {Absent}]
    BY DEF EmptyStore
  <2>5. DOMAIN call = {Seeder} /\ DOMAIN records_by_raw_digest = Digests
    BY DEF NoCall, NoRecords
  <2>6. checked \in [Digests -> 1..MaxRoot \cup {None}]
    BY DEF NoRecords
  <2>. QED
    BY <2>1, <2>2, <2>3, <2>4, <2>5, <2>6 DEF TypeOK
<1>2. DownInv /\ LoopInv /\ ResponseInv
  BY DEF DownInv, LoopInv, ResponseInv
<1>3. StoreInv /\ FactsInv /\ SeededInv
  BY DEF StoreInv, FactsInv, SeededInv, EmptyStore, NoRecords
<1>4. IndexInv
  BY NoListings DEF IndexInv, NoIndex
<1>. QED
  BY <1>1, <1>2, <1>3, <1>4 DEF PipelineInv

\* The first process holds nothing.
LEMMA InitInv == Init => PipelineInv
<1>1. Init => Fresh
  BY PipelineAssumption DEF Init, Fresh
<1>. QED
  BY <1>1, FreshInv

\* Nor does one that has ended, however it did.
LEMMA ExitInv == PipelineInv /\ Exit => PipelineInv'
<1>1. PipelineInv /\ Exit => Fresh'
  BY DEF PipelineInv, TypeOK, Exit, Fresh, EmptyStore, NoCall, NoRecords, NoIndex
<1>. QED
  BY <1>1, FreshInv, PTL


-----------------------------------------------------------------------------
(* The body of the loop, one bundle                                        *)

\* The digest of what the loop has read.
LEMMA DigestType == \A b \in Bytes : digest_of[b] \in Digests
  BY CorpusAssumption

\* A call of the body that stays with its bundle, loses nothing from the store
\* and no record.
LEMMA BodyInv ==
    ASSUME PipelineInv, phase = "seeding",
           UNCHANGED <<around, at, subject_index>>,
           TypeOK', LoopInv', StoreInv', FactsInv',
           \A d \in Digests : store[d] # Absent => store'[d] = store[d],
           \A d \in Digests : records_by_raw_digest[d] # None
                                => records_by_raw_digest'[d] # None
    PROVE  PipelineInv'
<1>. USE DEF PipelineInv, around
<1>1. DownInv' /\ ResponseInv'
  BY DEF DownInv, ResponseInv
<1>2. SeededInv'
  <2>. SUFFICES ASSUME NEW i \in 1..(at - 1)
                PROVE  (/\ Fit(Content(i))
                        /\ store[digest_of[Content(i)]] = Content(i)
                        /\ records_by_raw_digest[digest_of[Content(i)]] # None)'
    BY DEF SeededInv
  <2>1. /\ Fit(Content(i)) /\ store[digest_of[Content(i)]] = Content(i)
        /\ records_by_raw_digest[digest_of[Content(i)]] # None
    BY DEF SeededInv
  <2>2. digest_of[Content(i)] \in Digests /\ Content(i) # Absent
    BY <2>1, CorpusAssumption DEF Fit
  <2>. QED
    BY <2>1, <2>2 DEF Fit, Content
<1>3. IndexInv'
  <2>1. ASSUME NEW d \in SubjectDigests
        PROVE  Orders(subject_index[d], at - 1, d)' = Orders(subject_index[d], at - 1, d)
    <3>1. Listings(at - 1, d)' = Listings(at - 1, d)
      BY Zenon DEF Listings, Content
    <3>. QED
      BY <3>1, Zenon DEF Orders, Content
  <2>. QED
    BY <2>1 DEF IndexInv
<1>. QED
  BY <1>1, <1>2, <1>3

\* The file that is read is the file at `at`.
LEMMA ReadInv == PipelineInv /\ ReadFile => PipelineInv'
<1>. SUFFICES ASSUME PipelineInv, ReadFile
              PROVE  PipelineInv'
  OBVIOUS
<1>. USE DEF ReadFile, Seeding, around, facts
<1>1. bundle_paths[at] \in Paths
  BY DEF PipelineInv, TypeOK
<1>2. raw_bytes' \in Bytes
  BY <1>1, CorpusAssumption
<1>3. TypeOK'
  BY <1>2 DEF PipelineInv, TypeOK
<1>4. LoopInv'
  BY <1>2 DEF PipelineInv, LoopInv, Content
<1>5. StoreInv' /\ FactsInv'
  BY DEF PipelineInv, StoreInv, FactsInv
<1>. QED
  BY <1>3, <1>4, <1>5, BodyInv

\* The loop is the one caller of the store, and what it puts is new there or
\* there already.
LEMMA PutInv == PipelineInv /\ PutRaw => PipelineInv'
<1>. SUFFICES ASSUME PipelineInv, PutRaw
              PROVE  PipelineInv'
  OBVIOUS
<1>. DEFINE d0 == digest_of[raw_bytes]
<1>1. /\ phase = "seeding" /\ at <= Len(bundle_paths) /\ step = "put" /\ step' = "get"
      /\ store[d0] \in {Absent, raw_bytes}
      /\ store' = [store EXCEPT ![d0] = raw_bytes]
      /\ call' = [call EXCEPT ![Seeder] = Store!Stored(d0)]
      /\ UNCHANGED <<around, at, raw_bytes, verification, checked, facts>>
  BY DEF PutRaw, Seeding, Store!Put
<1>2. raw_bytes = Content(at) /\ raw_bytes \in Bytes /\ d0 \in Digests
  BY <1>1, DigestType DEF PipelineInv, LoopInv
<1>3. RawDigest' = d0
  BY <1>1 DEF PipelineInv, TypeOK, RawDigest, Store!Stored
<1>4. store'[d0] = raw_bytes /\ \A d \in Digests : d # d0 => store'[d] = store[d]
  BY <1>1, <1>2 DEF PipelineInv, TypeOK
<1>5. \A d \in Digests : store[d] # Absent => store'[d] = store[d]
  BY <1>1, <1>4
<1>6. TypeOK'
  BY <1>1, <1>2 DEF PipelineInv, TypeOK, around, facts
<1>7. LoopInv'
  BY <1>1, <1>2, <1>3, <1>4 DEF LoopInv, Content, around
<1>8. StoreInv'
  BY <1>2, <1>4 DEF PipelineInv, StoreInv
<1>9. FactsInv'
  BY <1>1, <1>5, CorpusAssumption DEF PipelineInv, FactsInv, facts
<1>. QED
  BY <1>1, <1>5, <1>6, <1>7, <1>8, <1>9, BodyInv DEF facts

\* What is read back is what was put: the record is there, and has its digest.
LEMMA GetInv == PipelineInv /\ GetStored => PipelineInv'
<1>. SUFFICES ASSUME PipelineInv, GetStored
              PROVE  PipelineInv'
  OBVIOUS
<1>1. /\ phase = "seeding" /\ at <= Len(bundle_paths) /\ step = "get" /\ step' = "verify"
      /\ call' = [call EXCEPT ![Seeder] = Store!Read(RawDigest, store[RawDigest])]
      /\ UNCHANGED <<around, at, raw_bytes, store, verification, checked, facts>>
  BY DEF GetStored, Seeding, Store!Get
<1>2. RawDigest = digest_of[raw_bytes] /\ store[RawDigest] = raw_bytes
  BY <1>1 DEF PipelineInv, LoopInv
<1>3. RawDigest' = RawDigest /\ StoredBytes' = raw_bytes
  BY <1>1, <1>2 DEF PipelineInv, TypeOK, RawDigest, StoredBytes, Store!Read
<1>4. TypeOK'
  BY <1>1 DEF PipelineInv, TypeOK, around, facts
<1>5. LoopInv'
  BY <1>1, <1>2, <1>3 DEF PipelineInv, LoopInv, Content, around
<1>6. StoreInv' /\ FactsInv'
  BY <1>1 DEF PipelineInv, StoreInv, FactsInv, facts
<1>. QED
  BY <1>1, <1>4, <1>5, <1>6, BodyInv DEF facts

\* The check is about the bytes that were stored, under the root of now, and
\* what it says of an earlier copy of them is out of date from here on.
LEMMA VerifyInv == PipelineInv /\ Verify => PipelineInv'
<1>. SUFFICES ASSUME PipelineInv, Verify
              PROVE  PipelineInv'
  OBVIOUS
<1>1. /\ phase = "seeding" /\ at <= Len(bundle_paths) /\ step = "verify"
      /\ Parsed[StoredBytes] # Malformed
      /\ verification' = VerifyFromRaw(Parsed[StoredBytes], RawDigest, root)
      /\ checked' = [checked EXCEPT ![RawDigest] = root]
      /\ step' = "normalize"
      /\ UNCHANGED <<around, at, raw_bytes, store, call, facts>>
  BY DEF Verify, Seeding
<1>2. /\ raw_bytes = Content(at) /\ raw_bytes \in Bytes
      /\ RawDigest = digest_of[raw_bytes] /\ store[RawDigest] = raw_bytes
      /\ StoredBytes = raw_bytes
      /\ RawDigest \in Digests
  BY <1>1, DigestType DEF PipelineInv, LoopInv
<1>3. RawDigest' = RawDigest /\ StoredBytes' = StoredBytes
  BY <1>1 DEF RawDigest, StoredBytes
<1>4. /\ checked' \in [Digests -> 1..MaxRoot \cup {None}]
      /\ checked'[RawDigest] = root
      /\ \A d \in Digests : d # RawDigest => checked'[d] = checked[d]
  BY <1>1, <1>2 DEF PipelineInv, TypeOK
<1>5. TypeOK'
  BY <1>1, <1>4 DEF PipelineInv, TypeOK, around, facts
<1>6. LoopInv'
  BY <1>1, <1>2, <1>3, <1>4 DEF PipelineInv, TypeOK, LoopInv, Content, around
<1>7. StoreInv'
  BY <1>1 DEF PipelineInv, StoreInv
<1>8. FactsInv'
  <2>. SUFFICES ASSUME NEW d \in Digests, records_by_raw_digest[d] # None
                PROVE  /\ store[d] \in Bytes
                       /\ \E r \in 1..MaxRoot :
                            /\ records_by_raw_digest[d] = EvidenceItem(d, store[d], r)
                            /\ r = checked'[d] \/ RawDigest = d
    BY <1>1, <1>3 DEF FactsInv, facts
  <2>1. store[d] \in Bytes
    BY DEF PipelineInv, FactsInv
  <2>2. PICK r \in 1..MaxRoot : /\ records_by_raw_digest[d] = EvidenceItem(d, store[d], r)
                                /\ r = checked[d]
    BY <1>1 DEF PipelineInv, FactsInv
  <2>. QED
    BY <1>4, <2>1, <2>2
<1>. QED
  BY <1>1, <1>5, <1>6, <1>7, <1>8, BodyInv DEF facts

\* The item is that of the stored bytes, and takes the place of an older one.
LEMMA NormalizeInv == PipelineInv /\ Normalize => PipelineInv'
<1>. SUFFICES ASSUME PipelineInv, Normalize
              PROVE  PipelineInv'
  OBVIOUS
<1>1. /\ phase = "seeding" /\ at <= Len(bundle_paths) /\ step = "normalize"
      /\ Normalized[StoredBytes] # Malformed
      /\ records_by_raw_digest' = [records_by_raw_digest EXCEPT ![RawDigest] = Item]
      /\ step' = "index"
      /\ UNCHANGED <<around, at, raw_bytes, store, call, verification, subject_index, checked>>
  BY DEF Normalize, Seeding
<1>2. /\ raw_bytes = Content(at) /\ raw_bytes \in Bytes
      /\ RawDigest = digest_of[raw_bytes] /\ store[RawDigest] = raw_bytes
      /\ StoredBytes = raw_bytes
      /\ Parsed[raw_bytes] # Malformed
      /\ verification = VerifyFromRaw(Parsed[raw_bytes], RawDigest, checked[RawDigest])
      /\ checked[RawDigest] \in 1..MaxRoot
      /\ RawDigest \in Digests
  BY <1>1, DigestType DEF PipelineInv, LoopInv
<1>3. RawDigest' = RawDigest /\ StoredBytes' = StoredBytes
  BY <1>1 DEF RawDigest, StoredBytes
<1>4. Item = EvidenceItem(RawDigest, raw_bytes, checked[RawDigest])
  BY <1>2 DEF Item, EvidenceItem
<1>5. Item # None
  BY <1>1, <1>2, <1>4, PipelineAssumption
<1>6. /\ DOMAIN records_by_raw_digest' = Digests
      /\ records_by_raw_digest'[RawDigest] = Item
      /\ \A d \in Digests : d # RawDigest =>
            records_by_raw_digest'[d] = records_by_raw_digest[d]
  BY <1>1, <1>2 DEF PipelineInv, TypeOK
<1>7. TypeOK'
  BY <1>1, <1>6 DEF PipelineInv, TypeOK, around
<1>8. LoopInv'
  BY <1>1, <1>2, <1>3, <1>5, <1>6 DEF PipelineInv, LoopInv, Content, around
<1>9. StoreInv'
  BY <1>1 DEF PipelineInv, StoreInv
<1>10. FactsInv'
  <2>. SUFFICES ASSUME NEW d \in Digests, records_by_raw_digest'[d] # None
                PROVE  /\ store[d] \in Bytes
                       /\ \E r \in 1..MaxRoot :
                            /\ records_by_raw_digest'[d] = EvidenceItem(d, store[d], r)
                            /\ r = checked[d]
    BY <1>1 DEF FactsInv
  <2>1. CASE d = RawDigest
    BY <1>2, <1>4, <1>6, <2>1
  <2>2. CASE d # RawDigest
    BY <1>6, <2>2 DEF PipelineInv, FactsInv
  <2>. QED
    BY <2>1, <2>2
<1>. QED
  BY <1>1, <1>5, <1>6, <1>7, <1>8, <1>9, <1>10, BodyInv

-----------------------------------------------------------------------------
(* The index grows by the listings of one bundle                           *)

\* Two enumerations, one after the other, enumerate both sets.
LEMMA BijectionConcat ==
    ASSUME NEW n \in Nat, NEW m \in Nat, NEW S, NEW T, S \cap T = {},
           NEW f \in Bijection(1..n, S), NEW g \in Bijection(1..m, T)
    PROVE  \E h \in Bijection(1..(n + m), S \cup T) :
              \A k \in 1..(n + m) : h[k] = IF k <= n THEN f[k] ELSE g[k - n]
<1>. DEFINE h == [k \in 1..(n + m) |-> IF k <= n THEN f[k] ELSE g[k - n]]
<1>1. /\ \A k \in 1..n : f[k] \in S
      /\ \A k, l \in 1..n : f[k] = f[l] => k = l
      /\ \A x \in S : \E k \in 1..n : f[k] = x
  BY DEF Bijection, Injection, Surjection, IsInjective
<1>2. /\ \A k \in 1..m : g[k] \in T
      /\ \A k, l \in 1..m : g[k] = g[l] => k = l
      /\ \A x \in T : \E k \in 1..m : g[k] = x
  BY DEF Bijection, Injection, Surjection, IsInjective
<1>3. \A k \in 1..(n + m) : \/ k \in 1..n /\ h[k] = f[k]
                            \/ k \notin 1..n /\ k - n \in 1..m /\ h[k] = g[k - n]
  OBVIOUS
<1>4. h \in [1..(n + m) -> S \cup T]
  BY <1>1, <1>2, <1>3
<1>5. ASSUME NEW k \in 1..(n + m), NEW l \in 1..(n + m), h[k] = h[l]
      PROVE  k = l
  BY <1>1, <1>2, <1>3, <1>5
<1>6. ASSUME NEW x \in S \cup T
      PROVE  \E k \in 1..(n + m) : h[k] = x
  <2>1. CASE x \in S
    BY <1>1, <2>1
  <2>2. CASE x \in T
    <3>1. PICK k \in 1..m : g[k] = x
      BY <1>2, <2>2
    <3>2. n + k \in 1..(n + m) /\ h[n + k] = g[k]
      OBVIOUS
    <3>. QED
      BY <3>1, <3>2
  <2>. QED
    BY <2>1, <2>2
<1>7. h \in Bijection(1..(n + m), S \cup T)
  BY <1>4, <1>5, <1>6, Zenon DEF Bijection, Injection, Surjection, IsInjective
<1>. QED
  BY <1>7

\* A statement lists a digest at some of its subjects.
LEMMA ListedType ==
    ASSUME NEW b \in Bytes, Subjects[b] # Malformed, NEW d
    PROVE  /\ Listed(b, d) \in SUBSET (1..MaxSubjects)
           /\ IsFiniteSet(Listed(b, d))
           /\ Cardinality(Listed(b, d)) \in Nat
           /\ ExistsBijection(1..Cardinality(Listed(b, d)), Listed(b, d))
<1>1. PICK n \in 0..MaxSubjects : DOMAIN Subjects[b] = 1..n
  BY CorpusAssumption
<1>2. Listed(b, d) \in SUBSET (1..MaxSubjects)
  BY <1>1, CorpusAssumption DEF Listed
<1>3. IsFiniteSet(1..MaxSubjects)
  BY FS_Interval, CorpusAssumption
<1>4. IsFiniteSet(Listed(b, d))
  BY <1>2, <1>3, FS_Subset
<1>. QED
  BY <1>2, <1>4, FS_CardinalityType

\* The listings of one more file, in whatever order it has them.
LEMMA FileListings ==
    ASSUME NEW n \in Nat, Content(n + 1) \in Bytes, Subjects[Content(n + 1)] # Malformed,
           NEW d
    PROVE  LET new == Listings(n + 1, d) \ Listings(n, d)
               m   == Cardinality(Listed(Content(n + 1), d))
           IN  /\ Listings(n, d) \subseteq Listings(n + 1, d)
               /\ \A p \in new : p[1] = n + 1
               /\ m \in Nat
               /\ ExistsBijection(1..m, new)
<1>. DEFINE b   == Content(n + 1)
            m   == Cardinality(Listed(b, d))
            new == Listings(n + 1, d) \ Listings(n, d)
<1>1. Listings(n, d) \subseteq Listings(n + 1, d) /\ \A p \in new : p[1] = n + 1
  BY DEF Listings
<1>2. Listed(b, d) \subseteq 1..MaxSubjects /\ m \in Nat
  BY ListedType
<1>3. PICK f \in Bijection(1..m, Listed(b, d)) : TRUE
  BY ListedType DEF ExistsBijection
<1>. DEFINE g == [j \in 1..m |-> <<n + 1, f[j]>>]
<1>4. \A j \in Listed(b, d) : <<n + 1, j>> \in new
  BY <1>2 DEF Listings
<1>5. \A p \in new : p[2] \in Listed(b, d) /\ p = <<n + 1, p[2]>>
  BY DEF Listings
<1>6. /\ \A k \in 1..m : f[k] \in Listed(b, d)
      /\ \A k, l \in 1..m : f[k] = f[l] => k = l
      /\ \A x \in Listed(b, d) : \E k \in 1..m : f[k] = x
  BY <1>3 DEF Bijection, Injection, Surjection, IsInjective
<1>7. g \in [1..m -> new]
  BY <1>4, <1>6
<1>8. \A k, l \in 1..m : g[k] = g[l] => k = l
  BY <1>6
<1>9. \A p \in new : \E k \in 1..m : g[k] = p
  BY <1>5, <1>6
<1>10. g \in Bijection(1..m, new)
  BY <1>7, <1>8, <1>9, Zenon DEF Bijection, Injection, Surjection, IsInjective
<1>. QED
  BY <1>1, <1>2, <1>10 DEF ExistsBijection

\* What Indexed appends are the entries of those listings, in their place.
LEMMA OrdersGrow ==
    ASSUME NEW n \in Nat, Content(n + 1) \in Bytes, Subjects[Content(n + 1)] # Malformed,
           NEW d, NEW entries \in Seq(Digests), Orders(entries, n, d) # {}
    PROVE  LET m == Cardinality(Listed(Content(n + 1), d))
               grown == entries \o [i \in 1..m |-> digest_of[Content(n + 1)]]
           IN  grown \in Seq(Digests) /\ Orders(grown, n + 1, d) # {}
<1>. DEFINE b     == Content(n + 1)
            m     == Cardinality(Listed(b, d))
            added == [i \in 1..m |-> digest_of[b]]
            grown == entries \o added
            new   == Listings(n + 1, d) \ Listings(n, d)
            size  == Len(entries)
<1>1. /\ Listings(n, d) \subseteq Listings(n + 1, d)
      /\ \A p \in new : p[1] = n + 1
      /\ m \in Nat
      /\ ExistsBijection(1..m, new)
  BY FileListings
<1>2. PICK g \in Bijection(1..m, new) : TRUE
  BY <1>1 DEF ExistsBijection
<1>3. PICK f \in Orders(entries, n, d) : TRUE
  OBVIOUS
<1>4. /\ f \in Bijection(1..size, Listings(n, d))
      /\ \A k, l \in 1..size : k <= l => f[k][1] <= f[l][1]
      /\ \A k \in 1..size : entries[k] = digest_of[Content(f[k][1])]
  BY DEF Orders
<1>5. size \in Nat /\ \A k \in 1..size : entries[k] \in Digests
  OBVIOUS
<1>6. added \in Seq(Digests) /\ Len(added) = m /\ \A k \in 1..m : added[k] = digest_of[b]
  <2>1. digest_of[b] \in Digests
    BY DigestType
  <2>. HIDE DEF m, b
  <2>2. m \in Nat
    BY <1>1
  <2>. QED
    BY <2>1, <2>2
<1>7. /\ grown \in Seq(Digests)
      /\ Len(grown) = size + m
      /\ \A k \in 1..(size + m) :
            grown[k] = IF k <= size THEN entries[k] ELSE digest_of[b]
  BY <1>1, <1>5, <1>6
<1>8. PICK h \in Bijection(1..(size + m), Listings(n + 1, d)) :
              \A k \in 1..(size + m) : h[k] = IF k <= size THEN f[k] ELSE g[k - size]
  <2>1. Listings(n, d) \cap new = {} /\ Listings(n + 1, d) = Listings(n, d) \cup new
    BY <1>1
  <2>2. /\ size \in Nat /\ m \in Nat
        /\ f \in Bijection(1..size, Listings(n, d)) /\ g \in Bijection(1..m, new)
    BY <1>1, <1>2, <1>4, <1>5
  <2>. HIDE DEF m, new, size
  <2>3. \E h \in Bijection(1..(size + m), Listings(n, d) \cup new) :
            \A k \in 1..(size + m) : h[k] = IF k <= size THEN f[k] ELSE g[k - size]
    BY <2>1, <2>2, BijectionConcat
  <2>. QED
    BY <2>1, <2>3
<1>9. \A k \in 1..size : f[k] \in Listings(n, d) /\ f[k][1] \in 1..n
  <2>1. \A k \in 1..size : f[k] \in Listings(n, d)
    BY <1>4 DEF Bijection, Injection
  <2>2. \A p \in Listings(n, d) : p[1] \in 1..n
    BY DEF Listings
  <2>. QED
    BY <2>1, <2>2
<1>10. \A k \in 1..m : g[k][1] = n + 1
  BY <1>1, <1>2 DEF Bijection, Injection
<1>11. \A k \in 1..(size + m) :
          \/ k \in 1..size /\ h[k] = f[k] /\ h[k][1] \in 1..n
          \/ k \notin 1..size /\ h[k][1] = n + 1
  <2>. SUFFICES ASSUME NEW k \in 1..(size + m)
                PROVE  \/ k \in 1..size /\ h[k] = f[k] /\ h[k][1] \in 1..n
                       \/ k \notin 1..size /\ h[k][1] = n + 1
    OBVIOUS
  <2>1. CASE k <= size
    BY <1>5, <1>8, <1>9, <2>1
  <2>2. CASE ~(k <= size)
    <3>1. k - size \in 1..m /\ h[k] = g[k - size]
      BY <1>1, <1>5, <1>8, <2>2
    <3>. QED
      BY <1>5, <1>10, <2>2, <3>1
  <2>. QED
    BY <2>1, <2>2
<1>12. \A k, l \in 1..(size + m) : k <= l => h[k][1] <= h[l][1]
  BY <1>4, <1>5, <1>11
<1>13. ASSUME NEW k \in 1..(size + m)
       PROVE  grown[k] = digest_of[Content(h[k][1])]
  <2>1. CASE k \in 1..size /\ h[k] = f[k]
    BY <1>4, <1>5, <1>7, <2>1
  <2>2. CASE k \notin 1..size /\ h[k][1] = n + 1
    <3>1. ~(k <= size)
      BY <1>5, <2>2
    <3>2. grown[k] = digest_of[b]
      BY <1>7, <3>1
    <3>. QED
      BY <2>2, <3>2, Zenon
  <2>. QED
    BY <1>11, <2>1, <2>2
<1>14. h \in Orders(grown, n + 1, d)
  BY <1>7, <1>8, <1>12, <1>13 DEF Orders
<1>. QED
  BY <1>7, <1>14

\* The loop is done with the bundle: it is in the store, has its record, and is
\* indexed as often as it lists an artifact.
LEMMA IndexedInv == PipelineInv /\ Index => PipelineInv'
<1>. SUFFICES ASSUME PipelineInv, Index
              PROVE  PipelineInv'
  OBVIOUS
<1>1. /\ phase = "seeding" /\ at <= Len(bundle_paths) /\ step = "index"
      /\ Subjects[StoredBytes] # Malformed
      /\ subject_index' = [d \in SubjectDigests |-> Indexed(d)]
      /\ at' = at + 1 /\ step' = "read"
      /\ UNCHANGED <<around, raw_bytes, store, call, verification,
                     records_by_raw_digest, checked>>
  BY DEF Index, Seeding
<1>2. /\ raw_bytes = Content(at) /\ raw_bytes \in Bytes
      /\ RawDigest = digest_of[raw_bytes] /\ store[RawDigest] = raw_bytes
      /\ StoredBytes = raw_bytes
      /\ Parsed[raw_bytes] # Malformed /\ Normalized[raw_bytes] # Malformed
      /\ records_by_raw_digest[RawDigest] # None
  BY <1>1 DEF PipelineInv, LoopInv
<1>3. at \in Nat \ {0} /\ Len(bundle_paths) \in Nat
  BY DEF PipelineInv, TypeOK
<1>4. ASSUME NEW d \in SubjectDigests
      PROVE  Indexed(d) \in Seq(Digests) /\ Orders(Indexed(d), at, d) # {}
  <2>1. subject_index[d] \in Seq(Digests) /\ Orders(subject_index[d], at - 1, d) # {}
    BY DEF PipelineInv, TypeOK, IndexInv
  <2>2. at - 1 \in Nat /\ at - 1 + 1 = at
    BY <1>3
  <2>. DEFINE m == Cardinality(Listed(Content(at), d))
              grown == subject_index[d] \o [i \in 1..m |-> digest_of[Content(at)]]
  <2>3. grown \in Seq(Digests) /\ Orders(grown, at, d) # {}
    BY <1>1, <1>2, <2>1, <2>2, OrdersGrow
  <2>4. Indexed(d) = grown
    BY <1>2 DEF Indexed
  <2>. QED
    BY <2>3, <2>4
<1>5. TypeOK'
  <2>1. subject_index' \in [SubjectDigests -> Seq(Digests)]
    BY <1>1, <1>4
  <2>2. at' \in 1..(Len(bundle_paths) + 1)
    BY <1>1, <1>3
  <2>. QED
    BY <1>1, <2>1, <2>2 DEF PipelineInv, TypeOK, around
<1>6. DownInv' /\ LoopInv' /\ ResponseInv'
  BY <1>1 DEF PipelineInv, DownInv, LoopInv, ResponseInv, around
<1>7. StoreInv' /\ FactsInv'
  BY <1>1 DEF PipelineInv, StoreInv, FactsInv
<1>8. SeededInv'
  <2>. SUFFICES ASSUME NEW i \in 1..at
                PROVE  /\ Fit(Content(i))
                       /\ store[digest_of[Content(i)]] = Content(i)
                       /\ records_by_raw_digest[digest_of[Content(i)]] # None
    BY <1>1, <1>3 DEF SeededInv, Content, Fit, around
  <2>1. CASE i = at
    BY <1>1, <1>2, <2>1 DEF Fit
  <2>2. CASE i # at
    <3>1. i \in 1..(at - 1)
      BY <1>3, <2>2
    <3>. QED
      BY <3>1 DEF PipelineInv, SeededInv
  <2>. QED
    BY <2>1, <2>2
<1>9. IndexInv'
  <2>1. at' - 1 = at
    BY <1>1, <1>3
  <2>2. ASSUME NEW d \in SubjectDigests
        PROVE  Orders(subject_index[d], at - 1, d)' = Orders(Indexed(d), at, d)
    <3>1. subject_index'[d] = Indexed(d) /\ bundle_paths' = bundle_paths
      BY <1>1 DEF around
    <3>2. Listings(at - 1, d)' = Listings(at, d)
      BY <2>1, <3>1, Zenon DEF Listings, Content
    <3>. QED
      BY <3>1, <3>2, Zenon DEF Orders, Content
  <2>. QED
    BY <1>4, <2>2 DEF IndexInv
<1>. QED
  BY <1>5, <1>6, <1>7, <1>8, <1>9 DEF PipelineInv

-----------------------------------------------------------------------------
(* Around the loop                                                         *)

\* Steps that leave the loop and its tables alone.
LEMMA AroundInv ==
    ASSUME PipelineInv, UNCHANGED <<bundle_paths, seeding>>,
           phase' = phase \/ (phase = "seeding" /\ phase' = "serving" /\ at > Len(bundle_paths)),
           root' \in 1..MaxRoot,
           ResponseInv'
    PROVE  PipelineInv'
<1>. USE DEF PipelineInv, seeding
<1>1. TypeOK'
  BY DEF TypeOK
<1>2. DownInv'
  BY DEF DownInv
<1>3. LoopInv'
  <2>1. StoredBytes' = StoredBytes /\ RawDigest' = RawDigest
    BY DEF StoredBytes, RawDigest
  <2>2. phase' = "serving" => at = Len(bundle_paths) + 1
    BY DEF TypeOK, LoopInv
  <2>3. step # "read" => phase' = "seeding"
    BY DEF TypeOK, LoopInv
  <2>. QED
    BY <2>1, <2>2, <2>3 DEF LoopInv, Content
<1>4. StoreInv' /\ FactsInv' /\ SeededInv'
  BY DEF StoreInv, FactsInv, SeededInv, Content, Fit, RawDigest
<1>5. IndexInv'
  <2>1. ASSUME NEW d \in SubjectDigests
        PROVE  Orders(subject_index[d], at - 1, d)' = Orders(subject_index[d], at - 1, d)
    <3>1. Listings(at - 1, d)' = Listings(at - 1, d)
      BY Zenon DEF Listings, Content
    <3>. QED
      BY <3>1, Zenon DEF Orders, Content
  <2>. QED
    BY <2>1 DEF IndexInv
<1>. QED
  BY <1>1, <1>2, <1>3, <1>4, <1>5

\* A process that starts has seeded nothing yet.
LEMMA StartInv == PipelineInv /\ (\E paths \in PathLists : Start(paths)) => PipelineInv'
<1>. SUFFICES ASSUME PipelineInv, NEW paths \in PathLists, Start(paths)
              PROVE  PipelineInv'
  OBVIOUS
<1>. USE DEF Start, seeding
<1>1. /\ paths \in Seq(Paths) /\ Len(paths) \in Nat
      /\ at = 1 /\ step = "read" /\ store = EmptyStore
      /\ records_by_raw_digest = NoRecords /\ subject_index = NoIndex
      /\ response = NoResponse
  BY CorpusAssumption DEF PipelineInv, DownInv, ResponseInv
<1>2. TypeOK'
  BY <1>1 DEF PipelineInv, TypeOK
<1>3. DownInv' /\ LoopInv' /\ ResponseInv'
  BY <1>1 DEF DownInv, LoopInv, ResponseInv
<1>4. StoreInv' /\ FactsInv' /\ SeededInv'
  BY <1>1 DEF StoreInv, FactsInv, SeededInv, EmptyStore, NoRecords
<1>5. IndexInv'
  <2>1. IndexInv' <=> \A d \in SubjectDigests : Orders(<<>>, 0, d)' # {}
    BY <1>1 DEF IndexInv, NoIndex
  <2>2. (\A d \in SubjectDigests : Orders(<<>>, 0, d) # {})'
    BY NoListings, PTL
  <2>. QED
    BY <2>1, <2>2
<1>. QED
  BY <1>2, <1>3, <1>4, <1>5 DEF PipelineInv

\* Serving changes nothing but the phase.
LEMMA ServeInv == PipelineInv /\ Serve => PipelineInv'
<1>. SUFFICES ASSUME PipelineInv, Serve
              PROVE  PipelineInv'
  OBVIOUS
<1>1. ResponseInv' /\ root' \in 1..MaxRoot
  BY DEF Serve, PipelineInv, TypeOK, ResponseInv
<1>. QED
  BY <1>1, AroundInv DEF Serve

\* An answer is that of the route, to the tables as they are.
LEMMA AnswerInv ==
    PipelineInv /\ (\E t \in Tenants, d \in SubjectDigests : GetProvenance(t, d)) => PipelineInv'
<1>. SUFFICES ASSUME PipelineInv, NEW t \in Tenants, NEW d \in SubjectDigests,
                     GetProvenance(t, d)
              PROVE  PipelineInv'
  OBVIOUS
<1>1. EvidenceFor(d)' = EvidenceFor(d)
  BY DEF GetProvenance, seeding, EvidenceFor
<1>2. ResponseInv'
  BY <1>1 DEF GetProvenance, ResponseInv
<1>3. root' \in 1..MaxRoot
  BY DEF GetProvenance, PipelineInv, TypeOK
<1>. QED
  BY <1>2, <1>3, AroundInv DEF GetProvenance

\* The tables do not depend on the root of now.
LEMMA QuietInv == PipelineInv /\ (RotateRoot \/ UNCHANGED vars) => PipelineInv'
<1>. SUFFICES ASSUME PipelineInv, RotateRoot \/ UNCHANGED vars
              PROVE  PipelineInv'
  OBVIOUS
<1>1. UNCHANGED <<phase, bundle_paths, seeding, response>>
  BY DEF RotateRoot, vars, around
<1>2. root' \in 1..MaxRoot
  BY PipelineAssumption DEF RotateRoot, vars, around, PipelineInv, TypeOK
<1>3. ResponseInv'
  BY <1>1 DEF seeding, PipelineInv, ResponseInv, EvidenceFor
<1>. QED
  BY <1>1, <1>2, <1>3, AroundInv

\* The invariant holds in every state, of however many processes.
THEOREM PipelineInvariant == Spec => []PipelineInv
<1>1. PipelineInv /\ [Next]_vars => PipelineInv'
  <2>1. Seed \/ Crash =>
          \/ ReadFile \/ PutRaw \/ GetStored \/ Verify \/ Normalize \/ Index \/ Serve
          \/ Exit
    BY DEF Seed, Crash, FileMissing, VerifyRaises, NormalizeRaises, IndexRaises
  <2>. QED
    BY <2>1, ReadInv, PutInv, GetInv, VerifyInv, NormalizeInv, IndexedInv, ServeInv, ExitInv,
       StartInv, AnswerInv, QuietInv, Zenon DEF Next
<1>. QED
  BY <1>1, InitInv, PTL DEF Spec

-----------------------------------------------------------------------------
(* What the tables hold                                                    *)

\* Every variable keeps its type, through all that seeding may meet.
THEOREM PipelineTypeCorrect == Spec => []TypeOK
<1>1. PipelineInv => TypeOK
  BY DEF PipelineInv
<1>. QED
  BY <1>1, PipelineInvariant, PTL

\* An entry of the index stands for a file that lists the artifact, with its
\* bytes in the store and its record made.
LEMMA EntryIsListing ==
    ASSUME PipelineInv, NEW d \in SubjectDigests, NEW k \in DOMAIN subject_index[d]
    PROVE  \E i \in 1..(at - 1) :
              /\ subject_index[d][k] = digest_of[Content(i)]
              /\ subject_index[d][k] \in Digests
              /\ Fit(Content(i)) /\ Names(Content(i), d)
              /\ store[subject_index[d][k]] = Content(i)
              /\ records_by_raw_digest[subject_index[d][k]] # None
<1>1. subject_index[d] \in Seq(Digests) /\ k \in 1..Len(subject_index[d])
  BY DEF PipelineInv, TypeOK
<1>2. PICK from \in Orders(subject_index[d], at - 1, d) : TRUE
  BY DEF PipelineInv, IndexInv
<1>3. /\ from[k] \in Listings(at - 1, d)
      /\ subject_index[d][k] = digest_of[Content(from[k][1])]
  BY <1>1, <1>2 DEF Orders, Bijection, Injection
<1>4. from[k][1] \in 1..(at - 1) /\ from[k][2] \in Listed(Content(from[k][1]), d)
  BY <1>3 DEF Listings
<1>5. /\ Fit(Content(from[k][1]))
      /\ store[digest_of[Content(from[k][1])]] = Content(from[k][1])
      /\ records_by_raw_digest[digest_of[Content(from[k][1])]] # None
  BY <1>4 DEF PipelineInv, SeededInv
<1>6. Names(Content(from[k][1]), d)
  BY <1>4, <1>5 DEF Names, Listed, Fit
<1>. QED
  BY <1>1, <1>3, <1>4, <1>5, <1>6

\* And the other way round: a file that lists the artifact has its entry.
LEMMA ListingHasEntry ==
    ASSUME PipelineInv, NEW d \in SubjectDigests, NEW i \in 1..(at - 1), Names(Content(i), d)
    PROVE  \E k \in DOMAIN subject_index[d] : subject_index[d][k] = digest_of[Content(i)]
<1>1. subject_index[d] \in Seq(Digests)
  BY DEF PipelineInv, TypeOK
<1>2. PICK from \in Orders(subject_index[d], at - 1, d) : TRUE
  BY DEF PipelineInv, IndexInv
<1>3. Content(i) \in Bytes /\ Subjects[Content(i)] # Malformed
  BY DEF PipelineInv, SeededInv, Fit
<1>4. PICK j \in Listed(Content(i), d) : TRUE
  BY DEF Names, Listed
<1>5. <<i, j>> \in Listings(at - 1, d)
  BY <1>3, <1>4, ListedType DEF Listings
<1>6. PICK k \in 1..Len(subject_index[d]) : from[k] = <<i, j>>
  BY <1>2, <1>5 DEF Orders, Bijection, Surjection
<1>7. subject_index[d][k] = digest_of[Content(i)]
  BY <1>2, <1>6 DEF Orders
<1>. QED
  BY <1>1, <1>6, <1>7

\* An entry stands for a listing of a seeded file, and that one has its item.
LEMMA EveryEntryHasItsItem == PipelineInv => NoDanglingIndex
<1>. SUFFICES ASSUME PipelineInv, NEW d \in SubjectDigests, NEW k \in DOMAIN subject_index[d]
              PROVE  records_by_raw_digest[subject_index[d][k]] # None
  BY DEF NoDanglingIndex, ItemsOf, EvidenceFor
<1>. QED
  BY EntryIsListing

\* The route never meets a raw digest without its item (app.py:33-36).
THEOREM IndexNeverDangles == Spec => []NoDanglingIndex
BY EveryEntryHasItsItem, PipelineInvariant, PTL

\* What is cached of a bundle is what the bytes in the store say, under the
\* root of their last check (store.py:8).
THEOREM FactsAreOfTheStore == Spec => []FactsMatchStore
<1>1. PipelineInv => FactsMatchStore
  <2>. SUFFICES ASSUME PipelineInv, NEW d \in Digests, records_by_raw_digest[d] # None
                PROVE  /\ store[d] \in Bytes
                       /\ digest_of[store[d]] = d
                       /\ records_by_raw_digest[d].raw_digest = d
                       /\ records_by_raw_digest[d].provenance = Normalized[store[d]]
                       /\ \/ step = "normalize" /\ RawDigest = d
                          \/ records_by_raw_digest[d].verification
                               = VerifyFromRaw(Parsed[store[d]], d, checked[d])
    BY DEF FactsMatchStore
  <2>1. store[d] \in Bytes
    BY DEF PipelineInv, FactsInv
  <2>2. digest_of[store[d]] = d
    BY <2>1, CorpusAssumption DEF PipelineInv, StoreInv
  <2>3. PICK r \in 1..MaxRoot :
            /\ records_by_raw_digest[d] = EvidenceItem(d, store[d], r)
            /\ r = checked[d] \/ (step = "normalize" /\ RawDigest = d)
    BY DEF PipelineInv, FactsInv
  <2>. QED
    BY <2>1, <2>2, <2>3 DEF EvidenceItem
<1>. QED
  BY <1>1, PipelineInvariant, PTL

\* A service that answers has done with all its files.
LEMMA ServedIsSeeded ==
    ASSUME PipelineInv, phase = "serving"
    PROVE  /\ DOMAIN bundle_paths = 1..(at - 1)
           /\ step = "read"
           /\ \A d \in SubjectDigests :
                 {store[raw] : raw \in ItemsOf(subject_index[d])} = BytesAbout(d)
<1>1. at = Len(bundle_paths) + 1 /\ step = "read" /\ bundle_paths \in Seq(Paths)
  BY DEF PipelineInv, TypeOK, LoopInv
<1>2. DOMAIN bundle_paths = 1..(at - 1)
  BY <1>1
<1>3. ASSUME NEW d \in SubjectDigests, NEW raw \in ItemsOf(subject_index[d])
      PROVE  store[raw] \in BytesAbout(d)
  <2>1. PICK k \in DOMAIN subject_index[d] : raw = subject_index[d][k]
    BY <1>3 DEF ItemsOf
  <2>2. PICK i \in 1..(at - 1) : /\ Fit(Content(i)) /\ Names(Content(i), d)
                                 /\ store[raw] = Content(i)
    BY <2>1, EntryIsListing
  <2>. QED
    BY <1>2, <2>2 DEF BytesAbout, Fit, Content
<1>4. ASSUME NEW d \in SubjectDigests, NEW b \in BytesAbout(d)
      PROVE  \E raw \in ItemsOf(subject_index[d]) : store[raw] = b
  <2>1. PICK i \in 1..(at - 1) : Content(i) = b /\ Names(Content(i), d)
    BY <1>2, <1>4 DEF BytesAbout, Content
  <2>2. PICK k \in DOMAIN subject_index[d] : subject_index[d][k] = digest_of[Content(i)]
    BY <2>1, ListingHasEntry
  <2>3. store[digest_of[Content(i)]] = b
    BY <2>1 DEF PipelineInv, SeededInv
  <2>. QED
    BY <2>2, <2>3 DEF ItemsOf
<1>. QED
  BY <1>1, <1>2, <1>3, <1>4

\* A service that answers has all the evidence that it was started with, as
\* often as the bundles list the artifact (seed_from_fixtures).
THEOREM ServiceIsComplete == Spec => []ServedIsComplete
<1>1. PipelineInv => ServedIsComplete
  <2>. SUFFICES ASSUME PipelineInv, phase = "serving", NEW d \in SubjectDigests
                PROVE  Len(subject_index[d]) =
                         Cardinality({p \in (DOMAIN bundle_paths) \X (1..MaxSubjects) :
                            LET subjects == Subjects[File[bundle_paths[p[1]]]]
                            IN  p[2] \in DOMAIN subjects /\ subjects[p[2]].sha256 = d})
    BY ServedIsSeeded DEF ServedIsComplete
  <2>1. {p \in (DOMAIN bundle_paths) \X (1..MaxSubjects) :
            LET subjects == Subjects[File[bundle_paths[p[1]]]]
            IN  p[2] \in DOMAIN subjects /\ subjects[p[2]].sha256 = d}
        = Listings(at - 1, d)
    BY ServedIsSeeded DEF Listings, Listed, Content
  <2>2. Len(subject_index[d]) \in Nat
    BY DEF PipelineInv, TypeOK
  <2>3. ExistsBijection(1..Len(subject_index[d]), Listings(at - 1, d))
    BY DEF PipelineInv, IndexInv, Orders, ExistsBijection
  <2>4. Cardinality(Listings(at - 1, d)) = Len(subject_index[d])
    BY <2>2, <2>3, FS_CountingElements
  <2>. QED
    BY <2>1, <2>4
<1>. QED
  BY <1>1, PipelineInvariant, PTL

-----------------------------------------------------------------------------
(* What is answered                                                        *)

\* An answer repeats the question, shows evidence only where the tenant has
\* the artifact, and allows only by evaluate().
LEMMA AnswerFacts ==
    ASSUME NEW t, NEW d, NEW evidence
    PROVE  LET answer == Answer(t, d, evidence) IN
           /\ answer.tenant = t /\ answer.digest = d
           /\ answer.status = 200 => <<t, d>> \in StubArtifacts /\ answer.evidence = evidence
           /\ answer.decision = "ALLOW" =>
                answer.status = 200 /\ Evaluate(evidence) = "ALLOW"
  BY PolicyAssumption DEF Answer, Associate

\* An item against which evaluate() finds nothing.
LEMMA FlawlessItem ==
    ASSUME NEW item, EvaluateItem(item) = {}
    PROVE  /\ FullyVerified(item.verification)
           /\ item.verification.issuer \in AcceptableIssuers
           /\ item.provenance.builder_id = item.verification.identity
           /\ item.verification.identity \in DOMAIN BuilderAllowlist
           /\ BuilderAllowlist[item.verification.identity] >= RequiredLevel
           /\ ~SignerIsReusableWorkflow(item.verification.cert_claims)
<1>1. /\ FullyVerified(item.verification)
      /\ item.provenance.builder_id = item.verification.identity
      /\ IssuerReasons(item) = {} /\ LevelReasons(item) = {}
  BY DEF EvaluateItem
<1>2. item.verification.issuer \in AcceptableIssuers
  BY <1>1 DEF IssuerReasons
<1>3. /\ item.provenance.builder_id \in DOMAIN BuilderAllowlist
      /\ ~(BuilderAllowlist[item.provenance.builder_id] < RequiredLevel)
      /\ RunnerReasons(item) = {}
  BY <1>1 DEF LevelReasons
<1>4. BuilderAllowlist[item.verification.identity] >= RequiredLevel
  BY <1>1, <1>3, PolicyAssumption
<1>5. RunnerEnvironment(item) # None
  BY <1>3 DEF RunnerReasons
<1>6. ~SignerIsReusableWorkflow(item.verification.cert_claims)
  BY <1>5 DEF RunnerEnvironment
<1>. QED
  BY <1>1, <1>2, <1>3, <1>4, <1>6

\* What ALLOW says of a set and of its items.
LEMMA AllowedItems ==
    ASSUME NEW evidence, Evaluate(evidence) = "ALLOW"
    PROVE  evidence # <<>> /\ \A item \in ItemsOf(evidence) : EvaluateItem(item) = {}
<1>1. evidence # <<>> /\ Reasons(evidence) = {}
  BY DEF Evaluate
<1>. QED
  BY <1>1 DEF Reasons

\* The items of an answer, one by one.
LEMMA ServedItem ==
    ASSUME PipelineInv, phase = "serving", NEW d \in SubjectDigests,
           NEW raw \in ItemsOf(subject_index[d])
    PROVE  /\ raw \in Digests
           /\ store[raw] \in Bytes /\ digest_of[store[raw]] = raw
           /\ Names(store[raw], d)
           /\ records_by_raw_digest[raw] = EvidenceItem(raw, store[raw], checked[raw])
           /\ records_by_raw_digest[raw] \in ItemsOf(EvidenceFor(d))
<1>1. PICK k \in DOMAIN subject_index[d] : raw = subject_index[d][k]
  BY DEF ItemsOf
<1>2. PICK i \in 1..(at - 1) :
          /\ raw \in Digests /\ Fit(Content(i)) /\ Names(Content(i), d)
          /\ raw = digest_of[Content(i)] /\ store[raw] = Content(i)
          /\ records_by_raw_digest[raw] # None
  BY <1>1, EntryIsListing
<1>3. step = "read"
  BY ServedIsSeeded
<1>4. records_by_raw_digest[raw] = EvidenceItem(raw, store[raw], checked[raw])
  BY <1>2, <1>3 DEF PipelineInv, FactsInv
<1>5. records_by_raw_digest[raw] \in ItemsOf(EvidenceFor(d))
  BY <1>1 DEF ItemsOf, EvidenceFor
<1>. QED
  BY <1>2, <1>4, <1>5 DEF Fit

\* What an answer shows is evidence about the artifact that it was asked for
\* (get_provenance), for a tenant who has it.
THEOREM AnswersAreAboutTheArtifact == Spec => []EvidenceIsAboutTheArtifact
<1>1. PipelineInv => EvidenceIsAboutTheArtifact
  <2>. SUFFICES ASSUME PipelineInv, response.status = 200
                PROVE  /\ <<response.tenant, response.digest>> \in StubArtifacts
                       /\ \A item \in ItemsOf(response.evidence) :
                             Names(store[item.raw_digest], response.digest)
    BY DEF EvidenceIsAboutTheArtifact
  <2>1. response # NoResponse
    BY DEF NoResponse
  <2>2. /\ phase = "serving"
        /\ \E t \in Tenants, d \in SubjectDigests : response = Answer(t, d, EvidenceFor(d))
    BY <2>1 DEF PipelineInv, ResponseInv
  <2>3. PICK t \in Tenants, d \in SubjectDigests : response = Answer(t, d, EvidenceFor(d))
    BY <2>2
  <2>4. /\ response.tenant = t /\ response.digest = d
        /\ <<t, d>> \in StubArtifacts /\ response.evidence = EvidenceFor(d)
    BY <2>3, AnswerFacts
  <2>5. ASSUME NEW item \in ItemsOf(EvidenceFor(d))
        PROVE  Names(store[item.raw_digest], d)
    <3>1. PICK k \in DOMAIN EvidenceFor(d) : item = EvidenceFor(d)[k]
      BY DEF ItemsOf
    <3>. DEFINE raw == subject_index[d][k]
    <3>2. raw \in ItemsOf(subject_index[d]) /\ item = records_by_raw_digest[raw]
      BY <3>1 DEF ItemsOf, EvidenceFor
    <3>3. item = EvidenceItem(raw, store[raw], checked[raw]) /\ Names(store[raw], d)
      BY <2>2, <3>2, ServedItem
    <3>4. item.raw_digest = raw
      BY <3>3 DEF EvidenceItem
    <3>. QED
      BY <3>3, <3>4
  <2>. QED
    BY <2>4, <2>5
<1>. QED
  BY <1>1, PipelineInvariant, PTL

\* A record that passes was made under a root by which the bundle verifies.
LEMMA VerifiedRoot ==
    ASSUME NEW record, FullyVerified(record), NEW roots, NEW r,
           record.checks = Checks(IF r \in roots THEN TRUE ELSE None)
    PROVE  r \in roots
<1>1. "signature" \in DOMAIN record.checks
  BY DEF Checks
<1>2. record.checks["signature"] = TRUE
  BY <1>1, Zenon DEF FullyVerified
<1>3. record.checks["signature"] = IF r \in roots THEN TRUE ELSE None
  BY DEF Checks
<1>4. None # TRUE
  BY PolicyAssumption
<1>. QED
  BY <1>2, <1>3, <1>4, Zenon

\* The certificate behind an item that evaluate() accepts, whatever the record
\* made of it: sigstore verified it, and it is that of a capable builder.
LEMMA FlawlessBundle ==
    ASSUME NEW b, NEW r, NEW d, EvaluateItem(EvidenceItem(d, b, r)) = {}
    PROVE  LET cert == Parsed[b].cert IN
           /\ r \in Parsed[b].verifies_under
           /\ cert.ext[8] \in AcceptableIssuers
           /\ cert.san # <<>>
           /\ cert.san[1] \in DOMAIN BuilderAllowlist
           /\ BuilderAllowlist[cert.san[1]] >= RequiredLevel
           /\ Normalized[b].builder_id = cert.san[1]
           /\ \/ cert.ext[9] \in {None, Malformed, cert.ext[18]}
              \/ cert.ext[18] \in {None, Malformed}
<1>. DEFINE item == EvidenceItem(d, b, r)
            cert == Parsed[b].cert
<1>1. /\ item.verification = VerifyFromRaw(Parsed[b], d, r)
      /\ item.provenance = Normalized[b]
  BY DEF EvidenceItem
<1>2. /\ item.verification.checks = Checks(IF r \in Parsed[b].verifies_under THEN TRUE ELSE None)
      /\ item.verification.identity = IF cert.san = <<>> THEN None ELSE cert.san[1]
      /\ item.verification.issuer = Utf8Extension(cert, 8)
      /\ item.verification.cert_claims.build_signer_uri = Utf8Extension(cert, 9)
      /\ item.verification.cert_claims.build_config_uri = Utf8Extension(cert, 18)
  BY <1>1 DEF VerifyFromRaw, ExtractIdentity, ExtractCertClaims
<1>. HIDE DEF item
<1>3. /\ FullyVerified(item.verification)
      /\ item.verification.issuer \in AcceptableIssuers
      /\ item.provenance.builder_id = item.verification.identity
      /\ item.verification.identity \in DOMAIN BuilderAllowlist
      /\ BuilderAllowlist[item.verification.identity] >= RequiredLevel
      /\ ~SignerIsReusableWorkflow(item.verification.cert_claims)
  BY FlawlessItem DEF item
<1>4. r \in Parsed[b].verifies_under
  BY <1>2, <1>3, VerifiedRoot
<1>5. /\ cert.san # <<>> /\ item.verification.identity = cert.san[1]
      /\ cert.ext[8] \in AcceptableIssuers
  BY <1>2, <1>3, PolicyAssumption DEF Utf8Extension
<1>6. \/ cert.ext[9] \in {None, Malformed, cert.ext[18]}
      \/ cert.ext[18] \in {None, Malformed}
  BY <1>2, <1>3 DEF SignerIsReusableWorkflow, Utf8Extension
<1>. QED
  BY <1>1, <1>3, <1>4, <1>5, <1>6

\* ALLOW over the API goes back to bundles of capable builders, all that are
\* about the artifact and at least one (evaluate() behind get_provenance).
THEOREM AllowGoesBackToBundles == Spec => []AllowIsBackedByBundles
<1>1. PipelineInv => AllowIsBackedByBundles
  <2>. SUFFICES ASSUME PipelineInv, response.decision = "ALLOW"
                PROVE  AllowIsBackedByBundles
    BY DEF AllowIsBackedByBundles
  <2>1. response # NoResponse
    BY PolicyAssumption DEF NoResponse
  <2>2. /\ phase = "serving"
        /\ \E t \in Tenants, d \in SubjectDigests : response = Answer(t, d, EvidenceFor(d))
    BY <2>1 DEF PipelineInv, ResponseInv
  <2>3. PICK t \in Tenants, d \in SubjectDigests : response = Answer(t, d, EvidenceFor(d))
    BY <2>2
  <2>4. /\ response.tenant = t /\ response.digest = d /\ <<t, d>> \in StubArtifacts
        /\ Evaluate(EvidenceFor(d)) = "ALLOW"
    BY <2>3, AnswerFacts
  <2>5. /\ EvidenceFor(d) # <<>>
        /\ \A item \in ItemsOf(EvidenceFor(d)) : EvaluateItem(item) = {}
    BY <2>4, AllowedItems
  <2>6. BytesAbout(d) = {store[raw] : raw \in ItemsOf(subject_index[d])}
    BY <2>2, ServedIsSeeded
  <2>7. BytesAbout(d) # {}
    <3>1. subject_index[d] \in Seq(Digests)
      BY DEF PipelineInv, TypeOK
    <3>2. subject_index[d] # <<>>
      BY <2>5, <3>1 DEF EvidenceFor
    <3>3. 1 \in DOMAIN subject_index[d]
      BY <3>1, <3>2
    <3>. QED
      BY <2>6, <3>3 DEF ItemsOf
  <2>8. ASSUME NEW b \in BytesAbout(d)
        PROVE  EvaluateItem(EvidenceItem(digest_of[b], b, checked[digest_of[b]])) = {}
    <3>1. PICK raw \in ItemsOf(subject_index[d]) : store[raw] = b
      BY <2>6, <2>8
    <3>. QED
      BY <2>2, <2>5, <3>1, ServedItem
  <2>9. ASSUME NEW b \in BytesAbout(d)
        PROVE  LET cert == Parsed[b].cert IN
               /\ checked[digest_of[b]] \in Parsed[b].verifies_under
               /\ cert.ext[8] \in AcceptableIssuers
               /\ cert.san # <<>>
               /\ cert.san[1] \in DOMAIN BuilderAllowlist
               /\ BuilderAllowlist[cert.san[1]] >= RequiredLevel
               /\ Normalized[b].builder_id = cert.san[1]
               /\ \/ cert.ext[9] \in {None, Malformed, cert.ext[18]}
                  \/ cert.ext[18] \in {None, Malformed}
    BY <2>8, FlawlessBundle
  <2>. QED
    BY <2>4, <2>7, <2>9, Zenon DEF AllowIsBackedByBundles
<1>. QED
  BY <1>1, PipelineInvariant, PTL

\* An item on which evaluate() raises, but for a claim that no certificate has.
LEMMA RaisingItem ==
    ASSUME NEW item, "AttributeError" \in EvaluateItem(item)
    PROVE  /\ FullyVerified(item.verification)
           /\ item.provenance.builder_id = item.verification.identity
           /\ \/ /\ item.provenance.build_type = GhaWorkflowBuildType
                 /\ item.provenance.runner_environment = Malformed
              \/ item.verification.cert_claims.runner_environment = Malformed
<1>1. /\ FullyVerified(item.verification)
      /\ item.provenance.builder_id = item.verification.identity
      /\ \/ "AttributeError" \in CertContradictions(item)
         \/ "AttributeError" \in LevelReasons(item)
  BY DEF EvaluateItem, IssuerReasons
<1>2. "AttributeError" \in CertContradictions(item)
        => PredicateRunnerEnvironment(item) = Malformed
  BY DEF CertContradictions
<1>3. "AttributeError" \in LevelReasons(item) => RunnerEnvironment(item) = Malformed
  BY DEF LevelReasons, RunnerReasons
<1>4. RunnerEnvironment(item) = Malformed =>
        \/ item.verification.cert_claims.runner_environment = Malformed
        \/ PredicateRunnerEnvironment(item) = Malformed
  BY PolicyAssumption DEF RunnerEnvironment
<1>5. PredicateRunnerEnvironment(item) = Malformed =>
        /\ item.provenance.build_type = GhaWorkflowBuildType
        /\ item.provenance.runner_environment = Malformed
  BY PolicyAssumption DEF PredicateRunnerEnvironment
<1>. QED
  BY <1>1, <1>2, <1>3, <1>4, <1>5

\* The bundle behind it.
LEMMA RaisingBundle ==
    ASSUME NEW b, NEW r, NEW d, "AttributeError" \in EvaluateItem(EvidenceItem(d, b, r))
    PROVE  /\ r \in Parsed[b].verifies_under
           /\ Normalized[b].builder_id = ExtractIdentity(Parsed[b].cert).identity
           /\ Normalized[b].build_type = GhaWorkflowBuildType
           /\ Normalized[b].runner_environment = Malformed
<1>. DEFINE item == EvidenceItem(d, b, r)
<1>1. /\ item.verification = VerifyFromRaw(Parsed[b], d, r)
      /\ item.provenance = Normalized[b]
  BY DEF EvidenceItem
<1>2. /\ item.verification.checks = Checks(IF r \in Parsed[b].verifies_under THEN TRUE ELSE None)
      /\ item.verification.identity = ExtractIdentity(Parsed[b].cert).identity
      /\ item.verification.cert_claims.runner_environment = Utf8Extension(Parsed[b].cert, 11)
  BY <1>1 DEF VerifyFromRaw, ExtractCertClaims
<1>. HIDE DEF item
<1>3. /\ FullyVerified(item.verification)
      /\ item.provenance.builder_id = item.verification.identity
      /\ \/ /\ item.provenance.build_type = GhaWorkflowBuildType
            /\ item.provenance.runner_environment = Malformed
         \/ item.verification.cert_claims.runner_environment = Malformed
  BY RaisingItem DEF item
<1>4. r \in Parsed[b].verifies_under
  BY <1>2, <1>3, VerifiedRoot
<1>5. item.verification.cert_claims.runner_environment # Malformed
  BY <1>2, PolicyAssumption DEF Utf8Extension
<1>. QED
  BY <1>1, <1>2, <1>3, <1>4, <1>5

\* A request fails on nothing but a signed predicate with no object on the way
\* to its runner (_predicate_runner_environment).
THEOREM FailuresAreOfSignedPredicates == Spec => []FailureIsASignedPredicate
<1>1. PipelineInv => FailureIsASignedPredicate
  <2>. SUFFICES ASSUME PipelineInv, response.status = 500
                PROVE  FailureIsASignedPredicate
    BY DEF FailureIsASignedPredicate
  <2>1. response # NoResponse
    BY DEF NoResponse
  <2>2. phase = "serving"
    BY <2>1 DEF PipelineInv, ResponseInv
  <2>3. PICK t \in Tenants, d \in SubjectDigests : response = Answer(t, d, EvidenceFor(d))
    BY <2>1 DEF PipelineInv, ResponseInv
  <2>4. /\ response.digest = d
        /\ None \in ItemsOf(EvidenceFor(d)) \/ Evaluate(EvidenceFor(d)) = "AttributeError"
    BY <2>3 DEF Answer
  <2>5. None \notin ItemsOf(EvidenceFor(d))
    BY EveryEntryHasItsItem DEF NoDanglingIndex
  <2>6. "AttributeError" \in Reasons(EvidenceFor(d))
    BY <2>4, <2>5 DEF Evaluate
  <2>7. PICK item \in ItemsOf(EvidenceFor(d)) : "AttributeError" \in EvaluateItem(item)
    BY <2>6 DEF Reasons, DisagreementReasons
  <2>8. PICK k \in DOMAIN subject_index[d] : item = records_by_raw_digest[subject_index[d][k]]
    <3>1. PICK k \in DOMAIN EvidenceFor(d) : item = EvidenceFor(d)[k]
      BY <2>7 DEF ItemsOf
    <3>2. k \in DOMAIN subject_index[d] /\ item = records_by_raw_digest[subject_index[d][k]]
      BY <3>1 DEF EvidenceFor
    <3>. QED
      BY <3>2
  <2>. DEFINE raw == subject_index[d][k]
              b   == store[raw]
  <2>9. raw \in ItemsOf(subject_index[d])
    BY DEF ItemsOf
  <2>10. digest_of[b] = raw /\ item = EvidenceItem(raw, b, checked[raw])
    BY <2>2, <2>8, <2>9, ServedItem
  <2>11. b \in BytesAbout(d)
    BY <2>2, <2>9, ServedIsSeeded
  <2>12. Normalized[b] # Malformed
    BY EntryIsListing DEF Fit
  <2>. HIDE DEF raw, b
  <2>13. /\ checked[digest_of[b]] \in Parsed[b].verifies_under
         /\ Normalized[b].builder_id = ExtractIdentity(Parsed[b].cert).identity
         /\ Normalized[b].build_type = GhaWorkflowBuildType
         /\ Normalized[b].runner_environment = Malformed
    BY <2>7, <2>10, RaisingBundle
  <2>. QED
    BY <2>4, <2>11, <2>12, <2>13, Zenon DEF FailureIsASignedPredicate
<1>. QED
  BY <1>1, PipelineInvariant, PTL

=============================================================================
