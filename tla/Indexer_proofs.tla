---------------------------- MODULE Indexer_proofs ----------------------------
(***************************************************************************)
(* What holds of the index for any files, contents, threads and command    *)
(* line runs, whatever dies at whichever step.                             *)
(***************************************************************************)
EXTENDS Indexer, TLAPS

LEMMA TypeInit == Init => TypeOK
BY FileAssumption, VersionAssumption, RunnerAssumption
   DEF Init, TypeOK, NoEntries, Entries, Runner

LEMMA ForgetType ==
    ASSUME TypeOK, NEW R, Forget(R)
    PROVE  /\ pc' \in [Runner -> {"idle", "load", "next", "read", "add", "record", "write"}]
           /\ force' \in [Runner -> BOOLEAN]
           /\ meta' \in [Runner -> Entries]
           /\ todo' \in [Runner -> SUBSET File]
           /\ path' \in [Runner -> File \cup {NoFile}]
           /\ \A r \in Runner : pc'[r] \in {"read", "add", "record"} => path'[r] \in File
           /\ docs' \in [Runner -> Version \cup {Absent}]
           /\ \A r \in Runner : pc'[r] \in {"add", "record"} => docs'[r] \in Indexable
           /\ failed' \in [Runner -> SUBSET File]
BY DEF TypeOK, Forget, NoEntries, Entries

LEMMA TypeStep == TypeOK /\ [Next]_vars => TypeOK'
<1> SUFFICES ASSUME TypeOK, [Next]_vars PROVE TypeOK'
  OBVIOUS
<1> USE FileAssumption, VersionAssumption, RunnerAssumption, SwitchAssumption
<1>1. ASSUME NEW r \in Runner, Begin(r) PROVE TypeOK'
  BY <1>1 DEF TypeOK, Begin, Acquire, Goto
<1>2. ASSUME NEW r \in Runner, LoadTorn(r), UNCHANGED exempt PROVE TypeOK'
  BY <1>2, ForgetType DEF TypeOK, LoadTorn, Release
<1>3. ASSUME NEW r \in Runner, LoadMeta(r), UNCHANGED exempt PROVE TypeOK'
  BY <1>3 DEF TypeOK, LoadMeta, Goto
<1>4. ASSUME NEW r \in Runner, Compare(r), UNCHANGED exempt PROVE TypeOK'
  <2> PICK f \in File :
          /\ todo' = [todo EXCEPT ![r] = @ \ {f}]
          /\ IF HashRaises(r, f) THEN Fail(r, f) ELSE UNCHANGED failed
          /\ IF Unchanged(r, f) \/ HashRaises(r, f)
             THEN UNCHANGED <<path, pc>>
             ELSE path' = [path EXCEPT ![r] = f] /\ Goto(r, "read")
    BY <1>4 DEF Compare
  <2>1. failed' \in [Runner -> SUBSET File]
    BY DEF TypeOK, Fail
  <2>2. todo' \in [Runner -> SUBSET File]
    BY DEF TypeOK
  <2>3. CASE UNCHANGED <<path, pc>>
    BY <1>4, <2>1, <2>2, <2>3 DEF TypeOK, Compare
  <2>4. CASE path' = [path EXCEPT ![r] = f] /\ Goto(r, "read")
    <3>1. path' \in [Runner -> File \cup {NoFile}]
      BY <2>4 DEF TypeOK
    <3>2. pc' \in [Runner -> {"idle", "load", "next", "read", "add", "record", "write"}]
      BY <2>4 DEF TypeOK, Goto
    <3>3. \A q \in Runner : pc'[q] \in {"read", "add", "record"} => path'[q] \in File
      BY <2>4 DEF TypeOK, Goto
    <3>4. \A q \in Runner : pc'[q] \in {"add", "record"} => docs'[q] \in Indexable
      BY <1>4, <2>4 DEF TypeOK, Goto, Compare
    <3> QED
      BY <1>4, <2>1, <2>2, <3>1, <3>2, <3>3, <3>4 DEF TypeOK, Compare
  <2> QED
    BY <2>3, <2>4
<1>5. ASSUME NEW r \in Runner, Read(r), UNCHANGED exempt PROVE TypeOK'
  <2>1. path[r] \in File /\ disk[path[r]] \in Version \cup {Absent}
    BY <1>5 DEF TypeOK, Read
  <2>2. failed' \in [Runner -> SUBSET File]
    BY <1>5, <2>1 DEF TypeOK, Read, Fail
  <2>3. docs' \in [Runner -> Version \cup {Absent}]
    BY <1>5, <2>1 DEF TypeOK, Read
  <2>4. pc' \in [Runner -> {"idle", "load", "next", "read", "add", "record", "write"}]
    BY <1>5 DEF TypeOK, Read, Goto
  <2>5. \A q \in Runner : /\ pc'[q] \in {"read", "add", "record"} => path'[q] \in File
                          /\ pc'[q] \in {"add", "record"} => docs'[q] \in Indexable
    BY <1>5, <2>1 DEF TypeOK, Read, Goto
  <2> QED
    BY <1>5, <2>1, <2>2, <2>3, <2>4, <2>5 DEF TypeOK, Read
<1>6. ASSUME NEW r \in Runner, Add(r), UNCHANGED exempt PROVE TypeOK'
  <2>1. store' \in [File -> [Version -> Nat]]
    <3>1. store[path[r]] \in [Version -> Nat] /\ docs[r] \in Version
      BY <1>6 DEF TypeOK, Add, Indexable
    <3>2. [store[path[r]] EXCEPT ![docs[r]] = @ + 1] \in [Version -> Nat]
      BY <3>1
    <3> QED
      BY <1>6, <3>2 DEF TypeOK, Add
  <2> QED
    BY <1>6, <2>1 DEF TypeOK, Add, Goto
<1>7. ASSUME NEW r \in Runner, AddFails(r), UNCHANGED exempt PROVE TypeOK'
  BY <1>7 DEF TypeOK, AddFails, Goto, Fail
<1>8. ASSUME NEW r \in Runner, Record(r), UNCHANGED exempt PROVE TypeOK'
  <2>1. path[r] \in File /\ disk[path[r]] \in Version \cup {Absent}
    BY <1>8 DEF TypeOK, Record
  <2>2. failed' \in [Runner -> SUBSET File]
    BY <1>8, <2>1 DEF TypeOK, Record, Fail
  <2>3. meta' \in [Runner -> Entries]
    <3>1. CASE disk[path[r]] = Absent
      BY <1>8, <3>1 DEF TypeOK, Record
    <3>2. CASE disk[path[r]] # Absent
      <4>1. [meta[r] EXCEPT ![path[r]] = disk[path[r]]] \in Entries
        BY <2>1, <3>2 DEF TypeOK, Entries
      <4> QED
        BY <1>8, <3>2, <4>1 DEF TypeOK, Record
    <3> QED
      BY <3>1, <3>2
  <2> QED
    BY <1>8, <2>1, <2>2, <2>3 DEF TypeOK, Record, Goto
<1>9. ASSUME NEW r \in Runner, Truncate(r), UNCHANGED exempt PROVE TypeOK'
  BY <1>9 DEF TypeOK, Truncate, Goto
<1>10. ASSUME NEW r \in Runner, Write(r), UNCHANGED exempt PROVE TypeOK'
  BY <1>10, ForgetType DEF TypeOK, Write, Release
<1>11. ASSUME NEW f \in File, Edit(f) PROVE TypeOK'
  BY <1>11 DEF TypeOK, Edit, locals
<1>12. ASSUME NEW R, Die(R) PROVE TypeOK'
  BY <1>12, ForgetType DEF TypeOK, Die
<1>13. CASE UNCHANGED vars
  BY <1>13 DEF TypeOK, vars, locals
<1> QED
  BY <1>1, <1>2, <1>3, <1>4, <1>5, <1>6, <1>7, <1>8, <1>9, <1>10, <1>11, <1>12, <1>13
     DEF Next, Step, Crash

(* The store, the record and what every run has in memory keep their types  *)
(* (the state of ingest/indexer.py and app/admin/reindex.py).               *)
THEOREM TypeCorrect == Spec => []TypeOK
BY TypeInit, TypeStep, PTL DEF Spec

-------------------------------------------------------------------------------
LEMMA LockInit == Init => LockIsTheRuns
BY RunnerAssumption DEF Init, LockIsTheRuns, Runner

LEMMA LockStep == TypeOK /\ LockIsTheRuns /\ [Next]_vars => LockIsTheRuns'
<1> SUFFICES ASSUME TypeOK, LockIsTheRuns, [Next]_vars PROVE LockIsTheRuns'
  OBVIOUS
<1> USE RunnerAssumption
<1>1. ASSUME NEW r \in Runner, Begin(r) PROVE LockIsTheRuns'
  <2>1. CASE Acquire(r)
    BY <1>1, <2>1 DEF TypeOK, LockIsTheRuns, Begin, Acquire, Goto, Runner
  <2>2. CASE r \in Tool /\ UNCHANGED lock
    BY <1>1, <2>2 DEF TypeOK, LockIsTheRuns, Begin, Goto, Runner
  <2> QED
    BY <1>1, <2>1, <2>2 DEF Begin
<1>2. ASSUME NEW r \in Runner, Release(r), Forget({r}), pc[r] # "idle"
      PROVE  LockIsTheRuns'
  BY <1>2 DEF TypeOK, LockIsTheRuns, Release, Forget, Runner
<1>3. ASSUME NEW r \in Runner, UNCHANGED lock, pc[r] # "idle",
             UNCHANGED pc \/ \E label \in {"next", "read", "add", "record", "write"} :
                                 Goto(r, label)
      PROVE  LockIsTheRuns'
  BY <1>3 DEF TypeOK, LockIsTheRuns, Goto, Runner
<1>4. ASSUME NEW r \in Runner, Step(r) PROVE LockIsTheRuns'
  <2>1. CASE LoadTorn(r)
    BY <2>1, <1>2 DEF LoadTorn
  <2>2. CASE LoadMeta(r)
    BY <2>2, <1>3 DEF LoadMeta
  <2>3. CASE Compare(r)
    BY <2>3, <1>3 DEF Compare
  <2>4. CASE Read(r)
    BY <2>4, <1>3 DEF Read
  <2>5. CASE Add(r)
    BY <2>5, <1>3 DEF Add
  <2>6. CASE AddFails(r)
    BY <2>6, <1>3 DEF AddFails
  <2>7. CASE Record(r)
    BY <2>7, <1>3 DEF Record
  <2>8. CASE Truncate(r)
    BY <2>8, <1>3 DEF Truncate
  <2>9. CASE Write(r)
    BY <2>9, <1>2 DEF Write
  <2> QED
    BY <1>4, <2>1, <2>2, <2>3, <2>4, <2>5, <2>6, <2>7, <2>8, <2>9 DEF Step
<1>5. CASE Crash
  <2>1. CASE Die(Thread)
    BY <2>1 DEF TypeOK, LockIsTheRuns, Die, Forget, Runner
  <2>2. ASSUME NEW t \in Tool, Die({t}) PROVE LockIsTheRuns'
    BY <2>2 DEF TypeOK, LockIsTheRuns, Die, Forget, Runner
  <2> QED
    BY <1>5, <2>1, <2>2 DEF Crash
<1>6. ASSUME NEW f \in File, Edit(f) PROVE LockIsTheRuns'
  BY <1>6 DEF Edit, LockIsTheRuns
<1>7. CASE UNCHANGED vars
  BY <1>7 DEF vars, LockIsTheRuns
<1> QED
  BY <1>1, <1>4, <1>5, <1>6, <1>7 DEF Next

(* The lock of app/admin/reindex.py is held exactly by the run under way,   *)
(* however runs end: no second build in the server, and no lock left behind *)
(* by one that raised.                                                      *)
THEOREM LockAlwaysTheRuns == Spec => []LockIsTheRuns
BY LockInit, LockStep, TypeInit, TypeStep, PTL DEF Spec

-------------------------------------------------------------------------------
(* Why RecordedIsStored holds: a run's own record is backed as the saved one *)
(* is, and between add_documents and the second hash nothing changes the     *)
(* file, so that what is recorded is what was added.                         *)
RunsBacked ==
    \A r \in Runner :
        /\ Backed(meta[r])
        /\ pc[r] \in {"add", "record"} => docs[r] = disk[path[r]]
        /\ pc[r] = "record" => store[path[r]][docs[r]] > 0

StoredInv == RecordedIsStored /\ RunsBacked

LEMMA StoredInit == Init => StoredInv
BY FileAssumption, VersionAssumption
   DEF Init, StoredInv, RecordedIsStored, RunsBacked, Backed, NoEntries, Runner

\* What add_documents does to the count of any chunks.
LEMMA AddCounts ==
    ASSUME TypeOK, NEW r \in Runner, Add(r), NEW f \in File, NEW v \in Version
    PROVE  /\ store[f][v] \in Nat
           /\ store'[f][v] = IF f = path[r] /\ v = docs[r]
                             THEN store[f][v] + 1 ELSE store[f][v]
<1>1. store \in [File -> [Version -> Nat]]
  BY DEF TypeOK
<1>2. store[f] \in [Version -> Nat] /\ store[f][v] \in Nat
  BY <1>1
<1>3. path[r] \in File /\ docs[r] \in Version
  BY DEF TypeOK, Add, Indexable
<1>4. store' = [store EXCEPT ![path[r]][docs[r]] = @ + 1]
  BY DEF Add
<1> QED
  BY <1>1, <1>2, <1>3, <1>4

\* Adding chunks leaves what is backed backed.
LEMMA AddKeepsBacked ==
    ASSUME TypeOK, NEW entries \in Entries, Backed(entries),
           NEW r \in Runner, Add(r)
    PROVE  \A f \in File : entries[f] # NoEntry => store'[f][entries[f]] > 0
<1> SUFFICES ASSUME NEW f \in File, entries[f] # NoEntry
             PROVE  store'[f][entries[f]] > 0
  OBVIOUS
<1>1. entries[f] \in Version
  BY DEF Entries
<1>2. store[f][entries[f]] > 0
  BY DEF Backed
<1> QED
  BY <1>1, <1>2, AddCounts

LEMMA StoredStep ==
    ASSUME ~Edits, TypeOK, StoredInv, [Next]_vars
    PROVE  StoredInv'
<1> USE FileAssumption, VersionAssumption, MetaAssumption
<1>1. ASSUME NEW r \in Runner, Begin(r) PROVE StoredInv'
  BY <1>1 DEF TypeOK, StoredInv, RecordedIsStored, RunsBacked, Backed, Begin, Goto
<1>2. ASSUME NEW R, Forget(R), UNCHANGED <<disk, store, saved>> PROVE StoredInv'
  BY <1>2 DEF StoredInv, RecordedIsStored, RunsBacked, Backed, Forget, NoEntries
<1>3. ASSUME NEW r \in Runner, LoadTorn(r) PROVE StoredInv'
  BY <1>2, <1>3 DEF LoadTorn
<1>4. ASSUME NEW r \in Runner, LoadMeta(r) PROVE StoredInv'
  BY <1>4 DEF TypeOK, StoredInv, RecordedIsStored, RunsBacked, Backed, LoadMeta, Goto
<1>5. ASSUME NEW r \in Runner, Compare(r) PROVE StoredInv'
  <2>1. \A q \in Runner : pc'[q] \in {"add", "record"} =>
           pc[q] = pc'[q] /\ path'[q] = path[q]
    BY <1>5 DEF TypeOK, Compare, Goto
  <2>2. UNCHANGED <<disk, store, saved, meta, docs>>
    BY <1>5 DEF Compare
  <2> QED
    BY <2>1, <2>2 DEF StoredInv, RecordedIsStored, RunsBacked, Backed
<1>6. ASSUME NEW r \in Runner, Read(r) PROVE StoredInv'
  BY <1>6 DEF TypeOK, StoredInv, RecordedIsStored, RunsBacked, Backed, Read, Goto
<1>7. ASSUME NEW r \in Runner, Add(r) PROVE StoredInv'
  <2>1. RecordedIsStored'
    <3>1. CASE saved = Torn
      BY <1>7, <3>1 DEF Add, RecordedIsStored
    <3>2. CASE saved # Torn
      <4>1. saved \in Entries /\ Backed(saved)
        BY <3>2 DEF TypeOK, StoredInv, RecordedIsStored
      <4> QED
        BY <1>7, <4>1, AddKeepsBacked DEF Add, RecordedIsStored, Backed
    <3> QED
      BY <3>1, <3>2
  <2>2. ASSUME NEW q \in Runner PROVE Backed(meta[q])'
    <3>1. meta[q] \in Entries /\ Backed(meta[q])
      BY DEF TypeOK, StoredInv, RunsBacked
    <3> QED
      BY <1>7, <3>1, AddKeepsBacked DEF Add, Backed
  <2>3. \A q \in Runner : pc'[q] \in {"add", "record"} => docs'[q] = disk'[path'[q]]
    BY <1>7 DEF TypeOK, StoredInv, RunsBacked, Add, Goto
  <2>4. ASSUME NEW q \in Runner, pc'[q] = "record"
        PROVE  store'[path'[q]][docs'[q]] > 0
    <3>1. path[q] \in File /\ docs[q] \in Version
      BY <1>7, <2>4 DEF TypeOK, Add, Goto, Indexable
    <3>2. path'[q] = path[q] /\ docs'[q] = docs[q]
      BY <1>7 DEF Add
    <3> DEFINE f == path[q]
               v == docs[q]
    <3>3. f \in File /\ v \in Version
      BY <3>1
    <3>4. store'[path'[q]][docs'[q]] = store'[f][v]
      BY <3>2
    <3> HIDE DEF f, v
    <3>5. CASE f = path[r] /\ v = docs[r]
      <4>1. store[f][v] \in Nat /\ store'[f][v] = store[f][v] + 1
        BY <1>7, <3>3, <3>5, AddCounts
      <4> QED
        BY <3>4, <4>1
    <3>6. CASE ~(f = path[r] /\ v = docs[r])
      <4>1. store'[f][v] = store[f][v]
        BY <1>7, <3>3, <3>6, AddCounts
      <4>2. q # r
        BY <3>6 DEF f, v
      <4>3. store[f][v] > 0
        BY <1>7, <2>4, <4>2 DEF TypeOK, Add, Goto, StoredInv, RunsBacked, f, v
      <4> QED
        BY <3>4, <4>1, <4>3
    <3> QED
      BY <3>5, <3>6
  <2> QED
    BY <2>1, <2>2, <2>3, <2>4 DEF StoredInv, RunsBacked
<1>8. ASSUME NEW r \in Runner, AddFails(r) PROVE StoredInv'
  BY <1>8 DEF TypeOK, StoredInv, RecordedIsStored, RunsBacked, Backed, AddFails, Goto
<1>9. ASSUME NEW r \in Runner, Record(r) PROVE StoredInv'
  <2>1. path[r] \in File /\ docs[r] \in Version /\ docs[r] = disk[path[r]]
        /\ store[path[r]][docs[r]] > 0
    BY <1>9 DEF TypeOK, StoredInv, RunsBacked, Record, Indexable
  <2>2. meta' = [meta EXCEPT ![r] = [@ EXCEPT ![path[r]] = docs[r]]]
    BY <1>9, <2>1 DEF Record
  <2>3. ASSUME NEW q \in Runner, NEW f \in File, meta'[q][f] # NoEntry
        PROVE  store[f][meta'[q][f]] > 0
    <3>1. CASE q = r /\ f = path[r]
      BY <2>1, <2>2, <3>1 DEF TypeOK, Entries
    <3>2. CASE ~(q = r /\ f = path[r])
      <4>1. meta'[q][f] = meta[q][f]
        BY <2>1, <2>2, <3>2 DEF TypeOK, Entries
      <4> QED
        BY <2>3, <4>1 DEF StoredInv, RunsBacked, Backed
    <3> QED
      BY <3>1, <3>2
  <2>4. \A q \in Runner : Backed(meta[q])'
    BY <1>9, <2>3 DEF Backed, Record
  <2>5. \A q \in Runner : pc'[q] \in {"add", "record"} => pc'[q] = pc[q]
    BY <1>9 DEF TypeOK, Record, Goto
  <2> QED
    BY <1>9, <2>4, <2>5 DEF StoredInv, RecordedIsStored, RunsBacked, Backed, Record
<1>10. ASSUME NEW r \in Runner, Truncate(r) PROVE StoredInv'
  BY <1>10 DEF TypeOK, StoredInv, RecordedIsStored, RunsBacked, Backed, Truncate, Goto
<1>11. ASSUME NEW r \in Runner, Write(r) PROVE StoredInv'
  <2>1. RunsBacked'
    BY <1>11 DEF StoredInv, RunsBacked, Backed, Write, Forget, NoEntries
  <2>2. saved' # Torn => Backed(saved')
    BY <1>11 DEF StoredInv, RunsBacked, Write
  <2> QED
    BY <1>11, <2>1, <2>2 DEF StoredInv, RecordedIsStored, Backed, Write
<1>12. ASSUME NEW f \in File, Edit(f) PROVE StoredInv'
  BY <1>12 DEF StoredInv, RecordedIsStored, RunsBacked, Backed, Edit, Quiet, locals
<1>13. ASSUME NEW R, Die(R) PROVE StoredInv'
  BY <1>2, <1>13 DEF Die
<1>14. CASE UNCHANGED vars
  BY <1>14 DEF StoredInv, RecordedIsStored, RunsBacked, Backed, vars, locals
<1> QED
  BY <1>1, <1>3, <1>4, <1>5, <1>6, <1>7, <1>8, <1>9, <1>10, <1>11, <1>12, <1>13, <1>14
     DEF Next, Step, Crash

(* A file that the next run skips as unchanged has its chunks in the store,  *)
(* as long as files do not change under a run (ingest/indexer.py takes the   *)
(* hash it records after it loaded the file).                                *)
THEOREM RecordedAlwaysStored ==
    ASSUME ~Edits
    PROVE  Spec => []RecordedIsStored
<1>1. TypeOK /\ StoredInv /\ [Next]_vars => StoredInv'
  BY StoredStep
<1>2. StoredInv => RecordedIsStored
  BY DEF StoredInv
<1> QED
  BY <1>1, <1>2, StoredInit, TypeInit, TypeStep, PTL DEF Spec

-------------------------------------------------------------------------------
(* Why RunIndexesAll holds: at any moment of a run, a file that has text is *)
(* still to come, or being processed, or recorded, or a failure.            *)
Accounted(r, f) ==
    \/ f \in todo[r]
    \/ f = path[r] /\ pc[r] \in {"read", "add", "record"}
    \/ meta[r][f] = disk[f]
    \/ f \in failed[r]

AllAccounted ==
    \A r \in Runner : \A f \in File :
        pc[r] \notin {"idle", "load"} /\ disk[f] \in Indexable => Accounted(r, f)

LEMMA AccountedInit == Init => AllAccounted
BY DEF Init, AllAccounted

LEMMA AccountedStep ==
    ASSUME ~Edits, TypeOK, AllAccounted, [Next]_vars
    PROVE  AllAccounted'
<1> USE VersionAssumption DEF AllAccounted, Accounted
<1>1. ASSUME NEW r \in Runner, Begin(r) PROVE AllAccounted'
  BY <1>1 DEF TypeOK, Begin, Goto
<1>2. ASSUME NEW R, Forget(R), UNCHANGED disk PROVE AllAccounted'
  BY <1>2 DEF Forget
<1>3. ASSUME NEW r \in Runner, LoadTorn(r) PROVE AllAccounted'
  BY <1>2, <1>3 DEF LoadTorn
<1>4. ASSUME NEW r \in Runner, LoadMeta(r) PROVE AllAccounted'
  BY <1>4 DEF TypeOK, LoadMeta, Goto, Indexable
<1>5. ASSUME NEW r \in Runner, Compare(r) PROVE AllAccounted'
  <2> PICK f \in File :
          /\ todo' = [todo EXCEPT ![r] = @ \ {f}]
          /\ IF HashRaises(r, f) THEN Fail(r, f) ELSE UNCHANGED failed
          /\ IF Unchanged(r, f) \/ HashRaises(r, f)
             THEN UNCHANGED <<path, pc>>
             ELSE path' = [path EXCEPT ![r] = f] /\ Goto(r, "read")
    BY <1>5 DEF Compare
  <2> pc[r] = "next" /\ UNCHANGED <<disk, meta>>
    BY <1>5 DEF Compare
  <2>1. \A g \in failed[r] : g \in failed'[r]
    BY DEF TypeOK, Fail
  <2>2. CASE Unchanged(r, f) \/ HashRaises(r, f)
    BY <2>1, <2>2 DEF TypeOK, Unchanged, HashRaises, Fail
  <2>3. CASE ~(Unchanged(r, f) \/ HashRaises(r, f))
    BY <2>3 DEF TypeOK, Goto
  <2> QED
    BY <2>2, <2>3
<1>6. ASSUME NEW r \in Runner, Read(r) PROVE AllAccounted'
  <2>1. CASE disk[path[r]] \in Indexable
    BY <1>6, <2>1 DEF TypeOK, Read, Goto, Indexable
  <2>2. CASE disk[path[r]] \notin Indexable
    <3>1. \A g \in failed[r] : g \in failed'[r]
      BY <1>6 DEF TypeOK, Read, Fail
    <3>2. \A q \in Runner \ {r} : failed'[q] = failed[q] /\ pc'[q] = pc[q]
      BY <1>6 DEF TypeOK, Read, Fail, Goto
    <3>3. pc'[r] = "next" /\ pc[r] = "read" /\ UNCHANGED <<disk, meta, todo, path>>
      BY <1>6, <2>2 DEF TypeOK, Read, Goto
    <3> QED
      BY <2>2, <3>1, <3>2, <3>3
  <2> QED
    BY <2>1, <2>2
<1>7. ASSUME NEW r \in Runner, Add(r) PROVE AllAccounted'
  BY <1>7 DEF TypeOK, Add, Goto
<1>8. ASSUME NEW r \in Runner, AddFails(r) PROVE AllAccounted'
  BY <1>8 DEF TypeOK, AddFails, Goto, Fail
<1>9. ASSUME NEW r \in Runner, Record(r) PROVE AllAccounted'
  <2>1. path[r] \in File /\ pc[r] = "record" /\ UNCHANGED <<disk, todo, path>>
    BY <1>9 DEF TypeOK, Record
  <2>2. CASE disk[path[r]] = Absent
    BY <1>9, <2>1, <2>2 DEF TypeOK, Record, Goto, Fail
  <2>3. CASE disk[path[r]] # Absent
    <3>1. \A q \in Runner, g \in File :
             meta'[q][g] = IF q = r /\ g = path[r] THEN disk[g] ELSE meta[q][g]
      BY <1>9, <2>1, <2>3 DEF TypeOK, Record, Entries
    <3>2. UNCHANGED failed /\ \A q \in Runner \ {r} : pc'[q] = pc[q]
      BY <1>9, <2>3 DEF TypeOK, Record, Goto
    <3> QED
      BY <2>1, <3>1, <3>2
  <2> QED
    BY <2>2, <2>3
<1>10. ASSUME NEW r \in Runner, Truncate(r) PROVE AllAccounted'
  BY <1>10 DEF TypeOK, Truncate, Goto
<1>11. ASSUME NEW r \in Runner, Write(r) PROVE AllAccounted'
  BY <1>2, <1>11 DEF Write
<1>12. ASSUME NEW f \in File, Edit(f) PROVE AllAccounted'
  BY <1>12 DEF Edit, Quiet, locals
<1>13. ASSUME NEW R, Die(R) PROVE AllAccounted'
  BY <1>2, <1>13 DEF Die
<1>14. CASE UNCHANGED vars
  BY <1>14 DEF vars, locals
<1> QED
  BY <1>1, <1>3, <1>4, <1>5, <1>6, <1>7, <1>8, <1>9, <1>10, <1>11, <1>12, <1>13, <1>14
     DEF Next, Step, Crash

(* When a run of build_index has been over its files, each that has text is *)
(* recorded with its content or reported as a failure, unless files change  *)
(* under the run.                                                           *)
THEOREM RunAlwaysIndexesAll ==
    ASSUME ~Edits
    PROVE  Spec => []RunIndexesAll
<1>1. TypeOK /\ AllAccounted /\ [Next]_vars => AllAccounted'
  BY AccountedStep
<1>2. AllAccounted => RunIndexesAll
  BY DEF AllAccounted, Accounted, RunIndexesAll
<1> QED
  BY <1>1, <1>2, AccountedInit, TypeInit, TypeStep, PTL DEF Spec

-------------------------------------------------------------------------------
(* Why StoredOnce holds: of a file that is not exempt, what is in the store  *)
(* is known to the one run under way, or to the record when none is.         *)
Past(r) == pc[r] \notin {"idle", "load"}

OneRun ==
    /\ \A q, r \in Runner : pc[q] # "idle" /\ pc[r] # "idle" => q = r
    /\ \A r \in Runner : pc[r] # "idle" => ~force[r]

IsStored(f) == disk[f] \in Version /\ store[f][disk[f]] > 0

\* What run r has to do with file f.
RunKnows(r, f) ==
    /\ Past(r) /\ IsStored(f) =>
          meta[r][f] = disk[f] \/ (pc[r] = "record" /\ path[r] = f)
    /\ pc[r] \in {"read", "add"} /\ path[r] = f => ~IsStored(f)

RecordKnows(f) ==
    (\A r \in Runner : ~Past(r)) /\ IsStored(f) => saved = Torn \/ saved[f] = disk[f]

OnceInv ==
    \A f \in File \ exempt :
        /\ OneRun
        /\ \A v \in Version : store[f][v] <= 1
        /\ RecordKnows(f)
        /\ \A r \in Runner : RunKnows(r, f)

LEMMA OnceInit == Init => OnceInv
<1> SUFFICES ASSUME Init PROVE OnceInv
  OBVIOUS
<1>1. \A r \in Runner : pc[r] = "idle"
  BY DEF Init
<1>2. \A f \in File, v \in Version : store[f][v] = 0
  BY DEF Init
<1>3. OneRun
  BY <1>1 DEF OneRun
<1>4. \A f \in File : ~IsStored(f)
  <2> SUFFICES ASSUME NEW f \in File, IsStored(f) PROVE FALSE
    OBVIOUS
  <2>1. disk[f] \in Version /\ store[f][disk[f]] > 0
    BY DEF IsStored
  <2>2. store[f][disk[f]] = 0
    BY <1>2, <2>1
  <2> QED
    BY <2>1, <2>2
<1>5. \A f \in File, v \in Version : store[f][v] <= 1
  BY <1>2
<1>6. \A f \in File : RecordKnows(f) /\ \A r \in Runner : RunKnows(r, f)
  BY <1>1, <1>4 DEF RecordKnows, RunKnows, Past
<1> QED
  BY <1>3, <1>5, <1>6 DEF OnceInv

\* A step that takes a run from one place to another and leaves the rest.
LEMMA RunOnly ==
    ASSUME TypeOK, NEW r \in Runner, NEW l, Goto(r, l)
    PROVE  /\ pc'[r] = l
           /\ \A q \in Runner : q # r => pc'[q] = pc[q]
BY DEF TypeOK, Goto

LEMMA OnceStep ==
    ASSUME ~Edits, TypeOK, StoredInv, OnceInv, NEW r \in Runner, Step(r)
    PROVE  OnceInv'
<1> SUFFICES ASSUME NEW f \in File, f \notin exempt
             PROVE  /\ OneRun'
                    /\ \A v \in Version : store'[f][v] <= 1
                    /\ RecordKnows(f)'
                    /\ \A q \in Runner : RunKnows(q, f)'
  BY DEF OnceInv, Step
<1> USE VersionAssumption
<1>1. /\ OneRun /\ \A v \in Version : store[f][v] <= 1
      /\ RecordKnows(f) /\ \A q \in Runner : RunKnows(q, f)
  BY DEF OnceInv
<1>2. pc[r] # "idle"
  BY DEF Step, LoadTorn, LoadMeta, Compare, Read, Add, AddFails, Record, Truncate, Write
<1>3. \A q \in Runner : q # r => pc[q] = "idle"
  BY <1>1, <1>2 DEF OneRun
<1>4. ~force[r]
  BY <1>1, <1>2 DEF OneRun
<1>5. ASSUME Forget({r}), UNCHANGED <<disk, store>>,
             IsStored(f) => saved' = Torn \/ saved'[f] = disk[f]
      PROVE  /\ OneRun' /\ RecordKnows(f)' /\ \A q \in Runner : RunKnows(q, f)'
  <2>1. \A q \in Runner : pc'[q] = "idle"
    BY <1>3, <1>5 DEF Forget
  <2> QED
    BY <1>5, <2>1 DEF OneRun, RecordKnows, RunKnows, Past, IsStored
<1>6. ASSUME NEW l \in {"next", "read", "add", "record", "write"},
             (UNCHANGED pc /\ pc[r] = l) \/ Goto(r, l), UNCHANGED force
      PROVE  /\ OneRun' /\ RecordKnows(f)' /\ pc'[r] = l
             /\ \A q \in Runner : q # r => pc'[q] = "idle" /\ RunKnows(q, f)'
  <2>1. pc'[r] = l /\ \A q \in Runner : q # r => pc'[q] = "idle"
    BY <1>3, <1>6, RunOnly
  <2>2. OneRun'
    BY <1>4, <1>6, <2>1 DEF OneRun
  <2>3. RecordKnows(f)' /\ \A q \in Runner : q # r => RunKnows(q, f)'
    BY <2>1 DEF RecordKnows, RunKnows, Past
  <2> QED
    BY <2>1, <2>2, <2>3
<1>7. CASE LoadTorn(r)
  BY <1>1, <1>5, <1>7 DEF LoadTorn
<1>8. CASE LoadMeta(r)
  <2>1. pc[r] = "load" /\ pc'[r] = "next" /\ meta'[r] = saved /\ saved # Torn
    BY <1>8, RunOnly DEF LoadMeta, TypeOK
  <2>2. IsStored(f) => saved[f] = disk[f]
    BY <1>1, <1>3, <2>1 DEF RecordKnows, Past
  <2>3. RunKnows(r, f)'
    BY <1>8, <2>1, <2>2 DEF LoadMeta, RunKnows, IsStored
  <2>4. OneRun' /\ RecordKnows(f)' /\ \A q \in Runner : q # r => RunKnows(q, f)'
    BY <1>6, <1>8 DEF LoadMeta
  <2> QED
    BY <1>1, <1>8, <2>3, <2>4 DEF LoadMeta
<1>9. CASE Compare(r)
  <2> PICK g \in File :
          IF Unchanged(r, g) \/ HashRaises(r, g)
          THEN UNCHANGED <<path, pc>>
          ELSE path' = [path EXCEPT ![r] = g] /\ Goto(r, "read")
    BY <1>9 DEF Compare
  <2>1. pc[r] = "next" /\ UNCHANGED <<disk, store, saved, meta, force>>
    BY <1>9 DEF Compare
  <2>2. CASE UNCHANGED <<path, pc>>
    <3>1. RunKnows(r, f)'
      BY <1>1, <2>1, <2>2 DEF RunKnows, Past, IsStored
    <3> QED
      BY <1>1, <1>6, <2>1, <2>2, <3>1
  <2>3. CASE /\ ~Unchanged(r, g) /\ ~HashRaises(r, g)
             /\ path' = [path EXCEPT ![r] = g] /\ Goto(r, "read")
    <3>1. path'[r] = g /\ pc'[r] = "read"
      BY <2>3, RunOnly DEF TypeOK
    <3>2. IsStored(f) => meta[r][f] = disk[f]
      BY <1>1, <2>1 DEF RunKnows, Past
    <3>3. f = g => ~IsStored(f)
      BY <1>4, <2>3, <3>2 DEF Unchanged, IsStored
    <3>4. RunKnows(r, f)'
      BY <2>1, <3>1, <3>2, <3>3 DEF RunKnows, Past, IsStored
    <3> QED
      BY <1>1, <1>6, <2>1, <2>3, <3>4
  <2> QED
    BY <2>2, <2>3
<1>10. CASE Read(r)
  <2>1. /\ pc[r] = "read" /\ UNCHANGED <<disk, store, saved, meta, force, path>>
        /\ Goto(r, IF disk[path[r]] \in Indexable THEN "add" ELSE "next")
    BY <1>10 DEF Read
  <2>2. pc'[r] \in {"add", "next"}
    BY <2>1, RunOnly
  <2>3. RunKnows(r, f)'
    BY <1>1, <2>1, <2>2 DEF RunKnows, Past, IsStored
  <2>4. OneRun' /\ RecordKnows(f)' /\ \A q \in Runner : q # r => RunKnows(q, f)'
    BY <1>6, <2>1
  <2> QED
    BY <1>1, <2>1, <2>3, <2>4
<1>11. CASE Add(r)
  <2>1. /\ pc[r] = "add" /\ UNCHANGED <<disk, saved, meta, force, path, docs>>
        /\ Goto(r, "record") /\ pc'[r] = "record"
    BY <1>11, RunOnly DEF Add
  <2>2. docs[r] \in Version /\ path[r] \in File /\ docs[r] = disk[path[r]]
    BY <2>1 DEF TypeOK, StoredInv, RunsBacked, Indexable
  <2>3. f = path[r] => ~(store[f][docs[r]] > 0)
    BY <1>1, <2>1, <2>2 DEF RunKnows, IsStored
  <2>4. \A v \in Version : store'[f][v] <= 1
    <3> TAKE v \in Version
    <3>1. /\ store[f][v] \in Nat /\ store[f][v] <= 1
          /\ store'[f][v] = IF f = path[r] /\ v = docs[r]
                            THEN store[f][v] + 1 ELSE store[f][v]
      BY <1>1, <1>11, AddCounts
    <3> QED
      BY <2>3, <3>1
  <2>5. RunKnows(r, f)'
    <3>1. CASE f = path[r]
      BY <2>1, <3>1 DEF RunKnows
    <3>2. CASE f # path[r]
      <4>1. \A v \in Version : store'[f][v] = store[f][v]
        BY <1>11, <3>2, AddCounts
      <4>2. IsStored(f)' => IsStored(f)
        BY <2>1, <4>1 DEF IsStored
      <4> QED
        BY <1>1, <2>1, <3>2, <4>2 DEF RunKnows, Past
    <3> QED
      BY <3>1, <3>2
  <2>6. OneRun' /\ RecordKnows(f)' /\ \A q \in Runner : q # r => RunKnows(q, f)'
    BY <1>6, <2>1
  <2> QED
    BY <2>4, <2>5, <2>6
<1>12. CASE AddFails(r)
  <2>1. /\ pc[r] = "add" /\ UNCHANGED <<disk, store, saved, meta, force, path>>
        /\ Goto(r, "next") /\ pc'[r] = "next"
    BY <1>12, RunOnly DEF AddFails
  <2>2. RunKnows(r, f)'
    BY <1>1, <2>1 DEF RunKnows, Past, IsStored
  <2>3. OneRun' /\ RecordKnows(f)' /\ \A q \in Runner : q # r => RunKnows(q, f)'
    BY <1>6, <2>1
  <2> QED
    BY <1>1, <2>1, <2>2, <2>3
<1>13. CASE Record(r)
  <2>1. /\ pc[r] = "record" /\ UNCHANGED <<disk, store, saved, force, path>>
        /\ Goto(r, "next") /\ pc'[r] = "next"
    BY <1>13, RunOnly DEF Record
  <2>2. RunKnows(r, f)'
    <3>1. CASE f = path[r]
      <4>1. disk[f] \in Version => meta'[r][f] = disk[f]
        BY <1>13, <3>1 DEF TypeOK, Record, Entries
      <4> QED
        BY <2>1, <4>1 DEF RunKnows, Past, IsStored
    <3>2. CASE f # path[r]
      <4>1. meta'[r][f] = meta[r][f]
        BY <1>13, <3>2 DEF TypeOK, Record, Entries
      <4> QED
        BY <1>1, <2>1, <3>2, <4>1 DEF RunKnows, Past, IsStored
    <3> QED
      BY <3>1, <3>2
  <2>3. OneRun' /\ RecordKnows(f)' /\ \A q \in Runner : q # r => RunKnows(q, f)'
    BY <1>6, <2>1
  <2> QED
    BY <1>1, <2>1, <2>2, <2>3
<1>14. CASE Truncate(r)
  <2>1. /\ pc[r] = "next" /\ UNCHANGED <<disk, store, meta, force, path>>
        /\ Goto(r, "write") /\ pc'[r] = "write"
    BY <1>14, RunOnly DEF Truncate
  <2>2. RunKnows(r, f)'
    BY <1>1, <2>1 DEF RunKnows, Past, IsStored
  <2>3. OneRun' /\ RecordKnows(f)' /\ \A q \in Runner : q # r => RunKnows(q, f)'
    BY <1>6, <2>1
  <2> QED
    BY <1>1, <2>1, <2>2, <2>3
<1>15. CASE Write(r)
  <2>1. IsStored(f) => meta[r][f] = disk[f]
    BY <1>1, <1>15 DEF Write, RunKnows, Past
  <2>2. Forget({r}) /\ UNCHANGED <<disk, store>> /\ (saved' = meta[r] \/ saved' = Torn)
    BY <1>15 DEF Write
  <2> QED
    BY <1>1, <1>5, <2>1, <2>2
<1> QED
  BY <1>7, <1>8, <1>9, <1>10, <1>11, <1>12, <1>13, <1>14, <1>15 DEF Step

LEMMA OnceNext ==
    ASSUME ~Edits, TypeOK, StoredInv, OnceInv, [Next]_vars
    PROVE  OnceInv'
<1>1. ASSUME NEW r \in Runner, Begin(r) PROVE OnceInv'
  <2> SUFFICES ASSUME NEW f \in File, f \notin exempt'
               PROVE  /\ OneRun'
                      /\ \A v \in Version : store'[f][v] <= 1
                      /\ RecordKnows(f)'
                      /\ \A q \in Runner : RunKnows(q, f)'
    BY DEF OnceInv
  <2>1. /\ Quiet /\ f \notin exempt /\ ~force'[r]
        /\ pc'[r] = "load" /\ \A q \in Runner : q # r => pc'[q] = "idle"
        /\ UNCHANGED <<disk, store, saved>>
    BY <1>1, SwitchAssumption, RunOnly DEF TypeOK, Begin, Quiet
  <2>2. \A q \in Runner : ~Past(q) /\ ~Past(q)'
    BY <2>1 DEF Past, Quiet
  <2> QED
    BY <2>1, <2>2 DEF OnceInv, OneRun, RecordKnows, RunKnows, Past, IsStored
<1>2. ASSUME NEW g \in File, Edit(g) PROVE OnceInv'
  <2> SUFFICES ASSUME NEW f \in File, f \notin exempt'
               PROVE  /\ OneRun'
                      /\ \A v \in Version : store'[f][v] <= 1
                      /\ RecordKnows(f)'
                      /\ \A q \in Runner : RunKnows(q, f)'
    BY DEF OnceInv
  <2>1. PICK v \in Version \cup {Absent} :
            /\ disk' = [disk EXCEPT ![g] = v]
            /\ exempt' = IF Superseded(g, v) THEN exempt \cup {g} ELSE exempt
    BY <1>2 DEF Edit
  <2>2. f \notin exempt /\ Quiet /\ UNCHANGED <<store, saved, pc, force>>
    BY <1>2, <2>1 DEF Edit, locals
  <2>3. \A q \in Runner : pc'[q] = "idle"
    BY <2>2 DEF Quiet
  <2>4. RecordKnows(f)'
    <3>1. CASE f = g
      <4>1. disk'[f] = v /\ ~Superseded(f, v)
        BY <2>1, <3>1 DEF TypeOK
      <4> QED
        BY <2>2, <4>1 DEF RecordKnows, IsStored, Superseded
    <3>2. CASE f # g
      <4>1. disk'[f] = disk[f]
        BY <2>1, <3>2 DEF TypeOK
      <4>2. \A q \in Runner : ~Past(q)
        BY <2>2 DEF Quiet, Past
      <4> QED
        BY <2>2, <4>1, <4>2 DEF OnceInv, RecordKnows, IsStored
    <3> QED
      BY <3>1, <3>2
  <2> QED
    BY <2>2, <2>3, <2>4 DEF OnceInv, OneRun, RunKnows, Past
<1>3. ASSUME NEW R, Die(R) PROVE OnceInv'
  <2> SUFFICES ASSUME NEW f \in File, f \notin exempt'
               PROVE  /\ OneRun'
                      /\ \A v \in Version : store'[f][v] <= 1
                      /\ RecordKnows(f)'
                      /\ \A q \in Runner : RunKnows(q, f)'
    BY DEF OnceInv
  <2>1. /\ f \notin exempt /\ \A r \in R : ~Unsaved(r, f)
        /\ UNCHANGED <<disk, store, saved>> /\ Forget(R)
    BY <1>3 DEF Die
  <2>2. /\ OneRun /\ \A v \in Version : store[f][v] <= 1
        /\ RecordKnows(f) /\ \A q \in Runner : RunKnows(q, f)
    BY <2>1 DEF OnceInv
  <2>3. \A q \in Runner :
           \/ pc'[q] = "idle"
           \/ /\ q \notin R /\ pc'[q] = pc[q] /\ force'[q] = force[q]
              /\ meta'[q] = meta[q] /\ path'[q] = path[q]
    BY <2>1 DEF Forget
  <2>4. OneRun'
    BY <2>2, <2>3 DEF OneRun
  <2>5. \A q \in Runner : RunKnows(q, f)'
    BY <2>1, <2>2, <2>3 DEF RunKnows, Past, IsStored
  <2>6. RecordKnows(f)'
    <3> SUFFICES ASSUME \A q \in Runner : ~Past(q)', IsStored(f)
                 PROVE  saved = Torn \/ saved[f] = disk[f]
      BY <2>1 DEF RecordKnows, IsStored
    <3>1. CASE \A q \in Runner : ~Past(q)
      BY <2>2, <3>1 DEF RecordKnows
    <3>2. ASSUME NEW q \in Runner, Past(q) PROVE saved = Torn \/ saved[f] = disk[f]
      <4>1. q \in R
        BY <2>1, <3>2 DEF Forget, Past
      <4>2. ~Unsaved(q, f)
        BY <2>1, <4>1
      <4>3. meta[q][f] = disk[f] \/ (pc[q] = "record" /\ path[q] = f)
        BY <2>2, <3>2 DEF RunKnows
      <4> QED
        BY <3>2, <4>2, <4>3 DEF Unsaved, Past
    <3> QED
      BY <3>1, <3>2
  <2> QED
    BY <2>1, <2>2, <2>4, <2>5, <2>6
<1>4. CASE UNCHANGED vars
  BY <1>4 DEF vars, locals, OnceInv, OneRun, RecordKnows, RunKnows, Past, IsStored
<1> QED
  BY <1>1, <1>2, <1>3, <1>4, OnceStep DEF Next, Crash

(* Between runs a document may change, be removed and be put back, and runs  *)
(* may fail at every call and die at every step: a content that              *)
(* add_documents, without ids, has stored is not stored again as long as no  *)
(* forced run and no two at once went over the file, no earlier content came *)
(* back and no run died between adding and saving it.                        *)
THEOREM StoredAtMostOnce ==
    ASSUME ~Edits
    PROVE  Spec => []StoredOnce
<1>1. TypeOK /\ StoredInv /\ [Next]_vars => StoredInv'
  BY StoredStep
<1>2. TypeOK /\ StoredInv /\ OnceInv /\ [Next]_vars => OnceInv'
  BY OnceNext
<1>3. OnceInv => StoredOnce
  BY DEF OnceInv, StoredOnce
<1> QED
  BY <1>1, <1>2, <1>3, StoredInit, OnceInit, TypeInit, TypeStep, PTL DEF Spec
===============================================================================
