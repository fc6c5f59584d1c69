------------------------------ MODULE RawStore ------------------------------
(***************************************************************************)
(* raw_store/store.py: RawEnvelopeStore, one action per file-system call   *)
(* of put and get, by any number of callers that share one root.           *)
(*                                                                         *)
(* put writes "<digest>.tmp", a name shared by every caller that stores    *)
(* the same bytes, and renames it to "<digest>.bin". Nothing locks, so     *)
(* every step of one caller may fall between any two steps of another.     *)
(* An open file is an inode: a descriptor follows its file through a       *)
(* rename, and loses its name when another file is renamed over it.        *)
(***************************************************************************)
CONSTANTS
    Callers,    \* threads or processes that hold a RawEnvelopeStore on root
    Bytes,      \* the byte strings that are ever ingested
    Digests,    \* content addresses
    digest_of,  \* digest_of[b]: the sha256 of b
    Dirs,       \* fan-out directories root/dd/dd
    FanOut,     \* FanOut[d]: the directory that holds the files of d
    MayPut,     \* MayPut[c]: the bytes that caller c ingests
    Faults,     \* the failures of the environment, among FaultKinds
    Absent,     \* no file under this name
    Torn        \* a file that lacks some of its bytes

FaultKinds == {"crash",     \* a caller is killed between two steps
               "oserror"}   \* a file-system call raises OSError

ASSUME RawStoreAssumption ==
    /\ digest_of \in [Bytes -> Digests]
    /\ \A b1, b2 \in Bytes : digest_of[b1] = digest_of[b2] => b1 = b2
    /\ FanOut \in [Digests -> Dirs]
    /\ MayPut \in [Callers -> SUBSET Bytes]
    /\ Faults \subseteq FaultKinds
    /\ Absent \notin Bytes \cup Digests
    /\ Torn \notin Bytes
    /\ Absent # Torn

\* No two callers ingest the same bytes.
Sharded == \A c1, c2 \in Callers : c1 # c2 => MayPut[c1] \cap MayPut[c2] = {}

VARIABLES
    fs,       \* fs[n]: the content of the file named n
    dirs,     \* the fan-out directories that exist
    pc,       \* pc[c]: the next file-system call of c
    raw,      \* raw[c]: raw_bytes, the argument of put
    digest,   \* digest[c]: the local variable digest of put and get
    fd,       \* fd[c]: the name of the file that write_bytes holds open
    result,   \* result[c]: what the last call of c returned or raised
    acked     \* history: the digests that put has returned to a caller

vars == <<fs, dirs, pc, raw, digest, fd, result, acked>>

-----------------------------------------------------------------------------

\* mutant: every put writes through one temporary name
OneTmpFor(d) == <<CHOOSE e \in Digests : TRUE, "tmp">>

PathFor(d) == <<d, "bin">>
TmpFor(d)  == <<d, "tmp">>     \* path.with_suffix(".tmp")

Names    == Digests \X {"bin", "tmp"}
Contents == Bytes \cup {Absent, Torn}

Closed   == <<Absent, "closed">>      \* no file is open
Unlinked == <<Absent, "unlinked">>    \* the open file has no name any more

Steps == {"idle", "exists", "mkdir", "open", "write", "rename", "lookup", "read"}

NoResult   == [out |-> "none",     digest |-> Absent, value |-> Absent]
Stored(d)  == [out |-> "stored",   digest |-> d,      value |-> Absent]
Read(d, v) == [out |-> "bytes",    digest |-> d,      value |-> v]
Missing(d) == [out |-> "KeyError", digest |-> d,      value |-> Absent]
Raised(d)  == [out |-> "raised",   digest |-> d,      value |-> Absent]

Results ==
    [out : {"none", "stored", "bytes", "KeyError", "raised"},
     digest : Digests \cup {Absent},
     value : Contents]

Init ==
    /\ fs = [n \in Names |-> Absent]
    /\ dirs = {}
    /\ pc = [c \in Callers |-> "idle"]
    /\ raw = [c \in Callers |-> Absent]
    /\ digest = [c \in Callers |-> Absent]
    /\ fd = [c \in Callers |-> Closed]
    /\ result = [c \in Callers |-> NoResult]
    /\ acked = {}

\* The call of c moves on to the step s.
Goto(c, s) == pc' = [pc EXCEPT ![c] = s]

\* The call of c ends with r and its locals are gone.
End(c, r) ==
    /\ Goto(c, "idle")
    /\ raw' = [raw EXCEPT ![c] = Absent]
    /\ digest' = [digest EXCEPT ![c] = Absent]
    /\ result' = [result EXCEPT ![c] = r]

\* The call of c ends with r, and a file it holds open is closed.
Return(c, r) == End(c, r) /\ fd' = [fd EXCEPT ![c] = Closed]

\* mutant: put returns its argument where it should return the digest
AcknowledgeRaw(c) ==
    /\ Return(c, Stored(digest[c]))
    /\ acked' = acked \cup {raw[c]}

\* put returns the digest: from here on the caller may count on the record.
Acknowledge(c) ==
    /\ Return(c, Stored(digest[c]))
    /\ acked' = acked \cup {digest[c]}

-----------------------------------------------------------------------------
(* put *)

\* RawEnvelopeStore.exists, and the test put and get open with
Exists(d) == fs[PathFor(d)] # Absent

\* digest = digest_of(raw_bytes); path = self._path_for(digest)
BeginPut(c, b) ==
    /\ pc[c] = "idle"
    /\ raw' = [raw EXCEPT ![c] = b]
    /\ digest' = [digest EXCEPT ![c] = digest_of[b]]
    /\ Goto(c, "exists")
    /\ UNCHANGED <<fs, dirs, fd, result, acked>>

\* mutant: a leftover temporary file passes for a stored record
PutExistsOrTmp(c) ==
    /\ pc[c] = "exists"
    /\ Exists(digest[c]) \/ fs[TmpFor(digest[c])] # Absent
    /\ Acknowledge(c)
    /\ UNCHANGED <<fs, dirs>>

\* path.exists(): the record is there, nothing is written.
PutExists(c) ==
    /\ pc[c] = "exists"
    /\ Exists(digest[c])
    /\ Acknowledge(c)
    /\ UNCHANGED <<fs, dirs>>

\* not path.exists(): what was seen here may be out of date one step later.
PutAbsent(c) ==
    /\ pc[c] = "exists"
    /\ ~Exists(digest[c])
    /\ Goto(c, "mkdir")
    /\ UNCHANGED <<fs, dirs, raw, digest, fd, result, acked>>

\* path.parent.mkdir(parents=True, exist_ok=True)
MakeDir(c) ==
    /\ pc[c] = "mkdir"
    /\ dirs' = dirs \cup {FanOut[digest[c]]}
    /\ Goto(c, "open")
    /\ UNCHANGED <<fs, raw, digest, fd, result, acked>>

\* mutant: put writes the record in place, with no temporary file
OpenFinal(c) ==
    /\ pc[c] = "open"
    /\ fs' = [fs EXCEPT ![PathFor(digest[c])] = Torn]
    /\ fd' = [fd EXCEPT ![c] = PathFor(digest[c])]
    /\ Goto(c, "write")
    /\ UNCHANGED <<dirs, raw, digest, result, acked>>

\* mutant: the temporary file is a lock, and put waits while there is one
OpenExclusive(c) ==
    /\ pc[c] = "open"
    /\ fs[TmpFor(digest[c])] = Absent
    /\ fs' = [fs EXCEPT ![TmpFor(digest[c])] = Torn]
    /\ fd' = [fd EXCEPT ![c] = TmpFor(digest[c])]
    /\ Goto(c, "write")
    /\ UNCHANGED <<dirs, raw, digest, result, acked>>

\* write_bytes opens the temporary file for writing: an existing one, a
\* leftover of a dead caller or the file of a live one, is truncated.
OpenTmp(c) ==
    /\ pc[c] = "open"
    /\ IF FanOut[digest[c]] \in dirs
       THEN /\ fs' = [fs EXCEPT ![TmpFor(digest[c])] = Torn]
            /\ fd' = [fd EXCEPT ![c] = TmpFor(digest[c])]
            /\ Goto(c, "write")
            /\ UNCHANGED <<raw, digest, result>>
       ELSE /\ Return(c, Raised(digest[c]))
            /\ UNCHANGED fs
    /\ UNCHANGED <<dirs, acked>>

\* mutant: one write call that may stop short, with no loop around it
WriteShort(c) ==
    /\ pc[c] = "write"
    /\ fd' = [fd EXCEPT ![c] = Closed]
    /\ Goto(c, "rename")
    /\ UNCHANGED <<fs, dirs, raw, digest, result, acked>>

\* write_bytes writes the whole of raw_bytes into the open file, whatever
\* its name is by now, and closes it.
WriteTmp(c) ==
    /\ pc[c] = "write"
    /\ fs' = IF fd[c] \in Names THEN [fs EXCEPT ![fd[c]] = raw[c]] ELSE fs
    /\ fd' = [fd EXCEPT ![c] = Closed]
    /\ Goto(c, "rename")
    /\ UNCHANGED <<dirs, raw, digest, result, acked>>

\* A descriptor on the temporary file follows it to its new name; one on
\* the record that it replaces is left without a name.
Renamed(d) ==
    [f \in Callers |->
        IF fd[f] = TmpFor(d) THEN PathFor(d)
        ELSE IF fd[f] = PathFor(d) THEN Unlinked ELSE fd[f]]

\* tmp.rename(path), then return digest
Rename(c) ==
    /\ pc[c] = "rename"
    /\ fs[TmpFor(digest[c])] # Absent
    /\ LET d == digest[c] IN
       /\ fs' = [fs EXCEPT ![PathFor(d)] = fs[TmpFor(d)], ![TmpFor(d)] = Absent]
       /\ fd' = Renamed(d)
       /\ acked' = acked \cup {d}
       /\ End(c, Stored(d))
    /\ UNCHANGED dirs

\* Another caller has renamed the shared temporary file away.
RenameMissing(c) ==
    /\ pc[c] = "rename"
    /\ fs[TmpFor(digest[c])] = Absent
    /\ Return(c, Raised(digest[c]))
    /\ UNCHANGED <<fs, dirs, acked>>

-----------------------------------------------------------------------------
(* get *)

BeginGet(c, d) ==
    /\ pc[c] = "idle"
    /\ digest' = [digest EXCEPT ![c] = d]
    /\ Goto(c, "lookup")
    /\ UNCHANGED <<fs, dirs, raw, fd, result, acked>>

\* mutant: get answers from a listing of the directory made earlier
GetMissingStale(c) ==
    /\ pc[c] = "lookup"
    /\ Return(c, Missing(digest[c]))
    /\ UNCHANGED <<fs, dirs, acked>>

\* not path.exists(): raise KeyError
GetMissing(c) ==
    /\ pc[c] = "lookup"
    /\ ~Exists(digest[c])
    /\ Return(c, Missing(digest[c]))
    /\ UNCHANGED <<fs, dirs, acked>>

GetFound(c) ==
    /\ pc[c] = "lookup"
    /\ Exists(digest[c])
    /\ Goto(c, "read")
    /\ UNCHANGED <<fs, dirs, raw, digest, fd, result, acked>>

\* path.read_bytes(): whatever the file holds at this moment
ReadBytes(c) ==
    /\ pc[c] = "read"
    /\ Return(c, Read(digest[c], fs[PathFor(digest[c])]))
    /\ UNCHANGED <<fs, dirs, acked>>

-----------------------------------------------------------------------------
(* The environment *)

\* Disk full, no permission, I/O error: any call on a file, path.exists()
\* among them, raises OSError. It has done nothing, or, for write_bytes, left
\* the file as its opening and a first part of the bytes made it. The
\* exception leaves put or get: nothing is cleaned up.
Fails(c) ==
    /\ "oserror" \in Faults
    /\ pc[c] # "idle"
    /\ Return(c, Raised(digest[c]))
    /\ UNCHANGED <<fs, dirs, acked>>

\* The caller is killed: its files stay as they are, and are closed.
Crash(c) ==
    /\ "crash" \in Faults
    /\ pc[c] # "idle"
    /\ Return(c, NoResult)
    /\ UNCHANGED <<fs, dirs, acked>>

-----------------------------------------------------------------------------

Put(c) ==
    \/ \E b \in MayPut[c] : BeginPut(c, b)
    \/ PutExists(c)
    \/ PutAbsent(c)
    \/ MakeDir(c)
    \/ OpenTmp(c)
    \/ WriteTmp(c)
    \/ Rename(c)
    \/ RenameMissing(c)

Get(c) ==
    \/ \E d \in Digests : BeginGet(c, d)
    \/ GetMissing(c)
    \/ GetFound(c)
    \/ ReadBytes(c)

Next ==
    \E c \in Callers : Put(c) \/ Get(c) \/ Fails(c) \/ Crash(c)

Spec == Init /\ [][Next]_vars

\* The thread of a caller goes on with the call that it is in. Nothing makes
\* it begin another, and nothing makes calls fail or kills it.
Continue(c) == pc[c] # "idle" /\ (Put(c) \/ Get(c))

FairSpec == Spec /\ \A c \in Callers : WF_vars(Continue(c))

-----------------------------------------------------------------------------

\* The whole bytes of d, and nothing else.
Verbatim(d, v) == v \in Bytes /\ digest_of[v] = d

TypeOK ==
    /\ fs \in [Names -> Contents]
    /\ dirs \subseteq Dirs
    /\ pc \in [Callers -> Steps]
    /\ raw \in [Callers -> Bytes \cup {Absent}]
    /\ digest \in [Callers -> Digests \cup {Absent}]
    /\ fd \in [Callers -> Names \cup {Closed, Unlinked}]
    /\ result \in [Callers -> Results]
    /\ acked \subseteq Digests

\* get "reads back the exact bytes previously stored under digest"
\* (store.py:66), whatever put is doing to the same files meanwhile.
GetIsVerbatim ==
    \A c \in Callers :
        result[c].out = "bytes" => Verbatim(result[c].digest, result[c].value)

\* Once put has returned a digest, the record of that digest is there and
\* whole: "re-verification must always be possible by reading back from
\* here" (store.py:5).
AckedReadable == \A d \in acked : Verbatim(d, fs[PathFor(d)])

\* A file never holds the bytes of another digest, not even by way of a
\* descriptor that outlived a rename: what a torn store loses, it never mixes.
ContentAddressed ==
    \A d \in Digests :
        /\ fs[PathFor(d)] \in Bytes => Verbatim(d, fs[PathFor(d)])
        /\ fs[TmpFor(d)] \in Bytes => Verbatim(d, fs[TmpFor(d)])

\* A record is "never rewritten" (store.py:5): once there is a file under
\* its final name, no step changes or removes it.
Immutable ==
    [][\A d \in Digests :
          fs[PathFor(d)] # Absent => fs'[PathFor(d)] = fs[PathFor(d)]]_vars

\* "Storing identical bytes twice is a no-op" (store.py:49): put returns,
\* it does not raise because another put of the same bytes got there first.
PutNeverRaises == \A c \in Callers : result[c].out # "raised"

\* Callers that race on the same bytes can tear a record, but only while one
\* of them still has the file open: with every writer done, each record is
\* whole again.
QuiescentVerbatim ==
    (\A c \in Callers : fd[c] = Closed) =>
        \A d \in Digests : fs[PathFor(d)] # Torn

\* Every call ends, and a put that neither fails nor is killed ends with its
\* record acknowledged: no caller waits for another one, nor for the temporary
\* file that a dead one has left (store.py:61 truncates it and goes on).
CallsReturn ==
    \A c \in Callers :
        /\ pc[c] # "idle" ~> pc[c] = "idle"
        /\ \A d \in Digests :
              (pc[c] = "exists" /\ digest[c] = d) ~>
                  (\/ d \in acked
                   \/ pc[c] = "idle" /\ result[c] \in {NoResult, Raised(d)})

\* The store of the code seen as the atomic store of ContentStore: the
\* record of d is the file under its final name.
Abstract == INSTANCE ContentStore
                WITH records <- [d \in Digests |-> fs[PathFor(d)]]

\* put and get appear to act at one instant, on a map that never loses or
\* changes an entry.
ImplementsContentStore == Abstract!Spec

=============================================================================
