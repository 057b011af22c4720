------------------------------- MODULE Indexer --------------------------------
(***************************************************************************)
(* The index over the documents: build_index of ingest/indexer.py with the *)
(* fingerprints of ingest/fingerprint.py, started by an administrator      *)
(* (app/admin/reindex.py, one run at a time in the server) or from the     *)
(* command line (ingest/__main__.py, another process, no lock).            *)
(*                                                                         *)
(* A run keeps index_meta.json in memory and goes over the files in the    *)
(* order of their paths: it compares the hash, loads and splits, adds the  *)
(* chunks to the vector store, hashes again and records.  The file is      *)
(* written once, at the end.  Each of these is a step.                     *)
(*                                                                         *)
(* A version of a file is its content, and stands for its hash and for the *)
(* chunks made of it.  Files of other types are skipped and left out.      *)
(***************************************************************************)
EXTENDS Naturals

CONSTANTS
    File,        \* paths in their order
    Version,     \* contents
    Unreadable,  \* contents the loader raises on
    Blank,       \* contents without text: no documents or no chunks
    Thread,      \* threads of the server that serve POST /reindex
    Tool,        \* python -m ingest
    Forced,       \* the values of force that are asked for
    Edits,       \* files may change while a run is under way
    Crashes,     \* the server and the tools may die at any step
    MaxCopies,   \* bound: no run begins once some chunks are stored so often
    Absent, NoEntry, Torn, Nobody

ASSUME FileAssumption == File \subseteq Nat \ {0}
ASSUME VersionAssumption ==
    /\ Unreadable \subseteq Version /\ Blank \subseteq Version
    /\ Absent \notin Version /\ NoEntry \notin Version
ASSUME RunnerAssumption == Thread \cap Tool = {} /\ Nobody \notin Thread
ASSUME MetaAssumption == Torn \notin [File -> Version \cup {NoEntry}]
ASSUME SwitchAssumption ==
    Edits \in BOOLEAN /\ Crashes \in BOOLEAN /\ Forced \subseteq BOOLEAN

VARIABLES
    disk,      \* the content of each file, or Absent
    store,     \* the vector store: copies of the chunks of each version
    saved,     \* index_meta.json: the recorded version of each file, or Torn
    lock,      \* _REINDEX_LOCK
    pc, force,
    meta,      \* IndexMeta of each run
    todo,      \* files it has still to process
    path,      \* the file it is processing
    docs,      \* the content it loaded
    failed,    \* the failures it will report
    exempt     \* history, not in the code: the files whose chunks may come to be
               \* stored again, for what Begin, Edit and Die say

locals == <<force, meta, todo, path, docs, failed>>
vars == <<disk, store, saved, lock, pc, locals, exempt>>

Runner == Thread \cup Tool
Entries == [File -> Version \cup {NoEntry}]
Indexable == Version \ (Unreadable \cup Blank)
Quiet == \A r \in Runner : pc[r] = "idle"

Goto(r, label) == pc' = [pc EXCEPT ![r] = label]

\* finally: _REINDEX_LOCK.release()
Release(r) == lock' = IF lock = r THEN Nobody ELSE lock

NoEntries == [f \in File |-> NoEntry]
NoFile == 0

\* What the runs of R had in memory is gone.
Forget(R) ==
    /\ pc' = [r \in Runner |-> IF r \in R THEN "idle" ELSE pc[r]]
    /\ force' = [r \in Runner |-> IF r \in R THEN FALSE ELSE force[r]]
    /\ meta' = [r \in Runner |-> IF r \in R THEN NoEntries ELSE meta[r]]
    /\ todo' = [r \in Runner |-> IF r \in R THEN {} ELSE todo[r]]
    /\ path' = [r \in Runner |-> IF r \in R THEN NoFile ELSE path[r]]
    /\ docs' = [r \in Runner |-> IF r \in R THEN Absent ELSE docs[r]]
    /\ failed' = [r \in Runner |-> IF r \in R THEN {} ELSE failed[r]]

Fail(r, f) == failed' = [failed EXCEPT ![r] = @ \cup {f}]

-------------------------------------------------------------------------------
\* A second administrator is answered 409, and nothing changes.
Acquire(r) ==
    /\ r \in Thread
    /\ lock = Nobody
    /\ lock' = r

\* A forced run takes no notice of the hashes, and two runs at once not of each
\* other: every file may be added again.
Begin(r) ==
    /\ pc[r] = "idle"
    /\ \A f \in File, v \in Version : store[f][v] < MaxCopies
    /\ Acquire(r) \/ (r \in Tool /\ UNCHANGED lock)
    /\ \E b \in Forced :
          /\ force' = [force EXCEPT ![r] = b]
          /\ exempt' = IF b \/ ~Quiet THEN File ELSE exempt
    /\ Goto(r, "load")
    /\ UNCHANGED <<disk, store, saved, meta, todo, path, docs, failed>>

\* Mutation of LoadTorn: the lock stays with the run that raised.
LoadTornKeepsLock(r) ==
    /\ pc[r] = "load"
    /\ saved = Torn
    /\ Forget({r})
    /\ UNCHANGED <<disk, store, saved, lock>>

\* index_meta.json cannot be parsed: build_index raises before it did anything.
LoadTorn(r) ==
    /\ pc[r] = "load"
    /\ saved = Torn
    /\ Release(r)
    /\ Forget({r})
    /\ UNCHANGED <<disk, store, saved>>

\* Mutation of LoadMeta: whatever is in the file is taken.
LoadAnything(r) ==
    /\ pc[r] = "load"
    /\ meta' = [meta EXCEPT ![r] = saved]
    /\ todo' = [todo EXCEPT ![r] = {f \in File : disk[f] # Absent}]
    /\ failed' = [failed EXCEPT ![r] = {}]
    /\ Goto(r, "next")
    /\ UNCHANGED <<disk, store, saved, lock, force, path, docs>>

\* IndexMeta, and the listing of the documents.
LoadMeta(r) ==
    /\ pc[r] = "load"
    /\ saved # Torn
    /\ meta' = [meta EXCEPT ![r] = saved]
    /\ todo' = [todo EXCEPT ![r] = {f \in File : disk[f] # Absent}]
    /\ failed' = [failed EXCEPT ![r] = {}]
    /\ Goto(r, "next")
    /\ UNCHANGED <<disk, store, saved, lock, force, path, docs>>

IsNext(r, f) == f \in todo[r] /\ \A g \in todo[r] : f <= g

\* Mutation of Unchanged: a file with an entry is taken to be unchanged.
UnchangedIfKnown(r, f) == ~force[r] /\ meta[r][f] # NoEntry

\* Mutation of Unchanged: force is taken the wrong way round.
UnchangedIfForced(r, f) == force[r] /\ meta[r][f] # NoEntry /\ disk[f] = meta[r][f]

\* The hash is the recorded one.  Only without force, and for a file that has an
\* entry, is it computed.
Unchanged(r, f) == ~force[r] /\ meta[r][f] # NoEntry /\ disk[f] = meta[r][f]

\* hash_file raises on a file that is gone by now.
HashRaises(r, f) == ~force[r] /\ meta[r][f] # NoEntry /\ disk[f] = Absent

Compare(r) ==
    /\ pc[r] = "next"
    /\ \E f \in File :
          /\ IsNext(r, f)
          /\ todo' = [todo EXCEPT ![r] = @ \ {f}]
          /\ IF HashRaises(r, f) THEN Fail(r, f) ELSE UNCHANGED failed
          /\ IF Unchanged(r, f) \/ HashRaises(r, f)
             THEN UNCHANGED <<path, pc>>
             ELSE path' = [path EXCEPT ![r] = f] /\ Goto(r, "read")
    /\ UNCHANGED <<disk, store, saved, lock, force, meta, docs>>

\* load raises, or there is nothing to add, or the chunks are ready.
Read(r) ==
    LET v == disk[path[r]] IN
    /\ pc[r] = "read"
    /\ docs' = [docs EXCEPT ![r] = v]
    /\ IF v \in Unreadable \cup {Absent} THEN Fail(r, path[r]) ELSE UNCHANGED failed
    /\ Goto(r, IF v \in Indexable THEN "add" ELSE "next")
    /\ UNCHANGED <<disk, store, saved, lock, force, meta, todo, path>>

\* add_documents without ids: the chunks are new whatever is there already.
Add(r) ==
    /\ pc[r] = "add"
    /\ store' = [store EXCEPT ![path[r]][docs[r]] = @ + 1]
    /\ Goto(r, "record")
    /\ UNCHANGED <<disk, saved, lock, force, meta, todo, path, docs, failed>>

\* Mutation of AddFails: the failure is reported, and the file recorded.
AddFailsRecorded(r) ==
    /\ pc[r] = "add"
    /\ Fail(r, path[r])
    /\ Goto(r, "record")
    /\ UNCHANGED <<disk, store, saved, lock, force, meta, todo, path, docs>>

\* The embedding or the vector store raises.  A part of the chunks that got in
\* before is no copy of them.
AddFails(r) ==
    /\ pc[r] = "add"
    /\ Fail(r, path[r])
    /\ Goto(r, "next")
    /\ UNCHANGED <<disk, store, saved, lock, force, meta, todo, path, docs>>

\* The hash is taken anew, of what is on disk by now; stat raises if nothing is.
Record(r) ==
    LET v == disk[path[r]] IN
    /\ pc[r] = "record"
    /\ IF v = Absent
       THEN Fail(r, path[r]) /\ UNCHANGED meta
       ELSE meta' = [meta EXCEPT ![r][path[r]] = v] /\ UNCHANGED failed
    /\ Goto(r, "next")
    /\ UNCHANGED <<disk, store, saved, lock, force, todo, path, docs>>

\* open(path, "w")
Truncate(r) ==
    /\ pc[r] = "next"
    /\ todo[r] = {}
    /\ saved' = Torn
    /\ Goto(r, "write")
    /\ UNCHANGED <<disk, store, lock, force, meta, todo, path, docs, failed>>

\* json.dump and close.  When another run has written since this one truncated,
\* what is longer in its text stays behind the new one.
Write(r) ==
    /\ pc[r] = "write"
    /\ saved' = meta[r] \/ (saved # Torn /\ saved' = Torn)
    /\ Release(r)
    /\ Forget({r})
    /\ UNCHANGED <<disk, store>>

Step(r) ==
    /\ \/ LoadTorn(r) \/ LoadMeta(r) \/ Compare(r) \/ Read(r) \/ Add(r) \/ AddFails(r)
       \/ Record(r) \/ Truncate(r) \/ Write(r)
    /\ UNCHANGED exempt

\* Version v of f is in the store, and the record has another by now.
Superseded(f, v) == v \in Version /\ store[f][v] > 0 /\ saved # Torn /\ saved[f] # v

\* A document is added, replaced or removed.  The chunks of a content that is
\* put back are there still, but not recorded any more.
Edit(f) ==
    /\ Edits \/ Quiet
    /\ \E v \in Version \cup {Absent} :
          /\ disk' = [disk EXCEPT ![f] = v]
          /\ exempt' = IF Superseded(f, v) THEN exempt \cup {f} ELSE exempt
    /\ UNCHANGED <<store, saved, lock, pc, locals>>

\* What run r has stored of f and not saved.
Unsaved(r, f) ==
    /\ saved # Torn
    /\ \/ pc[r] \notin {"idle", "load"} /\ meta[r][f] # saved[f]
       \/ pc[r] = "record" /\ path[r] = f

Die(R) ==
    /\ Crashes
    /\ Forget(R)
    /\ exempt' = exempt \cup {f \in File : \E r \in R : Unsaved(r, f)}
    /\ lock' = IF lock \in R THEN Nobody ELSE lock
    /\ UNCHANGED <<disk, store, saved>>

\* The lock is the server's and goes with it; the store and the files stay.
Crash == Die(Thread) \/ \E t \in Tool : Die({t})

Init ==
    /\ disk \in [File -> Version \cup {Absent}]
    /\ store = [f \in File |-> [v \in Version |-> 0]]
    /\ saved = NoEntries
    /\ lock = Nobody
    /\ pc = [r \in Runner |-> "idle"]
    /\ force = [r \in Runner |-> FALSE]
    /\ meta = [r \in Runner |-> NoEntries]
    /\ todo = [r \in Runner |-> {}]
    /\ path = [r \in Runner |-> NoFile]
    /\ docs = [r \in Runner |-> Absent]
    /\ failed = [r \in Runner |-> {}]
    /\ exempt = {}

Next ==
    \/ \E r \in Runner : Begin(r) \/ Step(r)
    \/ \E f \in File : Edit(f)
    \/ Crash

Spec == Init /\ [][Next]_vars

-------------------------------------------------------------------------------
\* The type of every variable.
TypeOK ==
    /\ disk \in [File -> Version \cup {Absent}]
    /\ store \in [File -> [Version -> Nat]]
    /\ saved \in Entries \cup {Torn}
    /\ lock \in Thread \cup {Nobody}
    /\ pc \in [Runner -> {"idle", "load", "next", "read", "add", "record", "write"}]
    /\ force \in [Runner -> BOOLEAN]
    /\ meta \in [Runner -> Entries]
    /\ todo \in [Runner -> SUBSET File]
    /\ path \in [Runner -> File \cup {NoFile}]
    /\ \A r \in Runner : pc[r] \in {"read", "add", "record"} => path[r] \in File
    /\ docs \in [Runner -> Version \cup {Absent}]
    /\ \A r \in Runner : pc[r] \in {"add", "record"} => docs[r] \in Indexable
    /\ failed \in [Runner -> SUBSET File]
    /\ exempt \subseteq File

Backed(entries) ==
    \A f \in File : entries[f] # NoEntry => store[f][entries[f]] > 0

\* A file that the next run will skip as unchanged has the chunks of that very
\* content in the store, whichever runs died, failed or wrote over each other:
\* the store is written before the record, and the record saved after both.
RecordedIsStored == saved # Torn => Backed(saved)

\* When a run has been over its files, each of them that has text is recorded
\* with the content it has now, or is among the failures the run reports.
RunIndexesAll ==
    \A r \in Runner :
        pc[r] = "next" /\ todo[r] = {} =>
            \A f \in File : disk[f] \in Indexable => meta[r][f] = disk[f] \/ f \in failed[r]

\* The server builds one index at a time, under the lock; and a run that ended,
\* whichever call raised, or died, has left the lock to the next administrator.
LockIsTheRuns == \A t \in Thread : pc[t] # "idle" <=> lock = t

\* add_documents is given no ids, so nothing but the record keeps a file from
\* being stored twice.  It does for every file that no forced run and no two runs
\* at once went over, whose content never went back to an earlier one, and that no
\* run died between adding and saving; after failures of any kind, edits between
\* runs and deaths elsewhere, each content of such a file is in the store at most
\* once.  Of the others the code may store copies: the design document gives the
\* chunks ids of the hash, with which they would replace each other.
StoredOnce == \A f \in File \ exempt : \A v \in Version : store[f][v] <= 1
===============================================================================
