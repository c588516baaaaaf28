---------------------------- MODULE SoDiffProofs ----------------------------
(***************************************************************************)
(* Proofs about SoDiff for every set of files, hashes and processes, every *)
(* number of runs and any clock: its types, and that the uploads of the    *)
(* orderly uses cover every change of a hash, by way of the invariant      *)
(* DiffInv, and every change if hashes tell contents apart.                *)
(***************************************************************************)
EXTENDS SoDiff, TLAPS

\* Merging the hashes of one map into another gives a map of hashes.
LEMMA OverrideType ==
  ASSUME NEW old \in Md5Map, NEW rows \in Md5Map
  PROVE  Override(old, rows) \in Md5Map
  BY DEF Override, Md5Map

\* The hashes of a build are hashes, of the files it has.
LEMMA HashesType ==
  /\ NoMd5s \in Builds /\ Hashes(NoMd5s) = NoMd5s
  /\ \A b \in Builds : /\ Hashes(b) \in Md5Map
                       /\ \A f \in Files : Hashes(b)[f] = Absent <=> b[f] = Absent
  BY DiffAssumption DEF NoMd5s, Builds, Hashes, Md5Map

\* What was uploaded changes only with a deployment.
LEMMA SentSame == offered' = offered => Sent' = Sent
  BY DEF Sent

\* Of the files a deployment uploads the target has the hash of the build, if
\* there still is one; of the others what it had.
LEMMA SentFinish ==
  ASSUME TypeOK, NEW p \in Procs, Finish(p), Mode[p] # "compare"
  PROVE  Sent' = [f \in Files |-> IF f \in DiffFile(p) /\ Hashes(disk)[f] # Absent
                                  THEN Hashes(disk)[f] ELSE Sent[f]]
<1>1. offered' = [f \in Files |-> IF f \in DiffFile(p) /\ disk[f] # Absent
                                  THEN disk[f] ELSE offered[f]]
  BY DEF Finish
<1>2. \A f \in Files : Hashes(disk)[f] # Absent <=> disk[f] # Absent
  BY HashesType DEF TypeOK
<1>3. QED
  BY <1>1, <1>2 DEF Sent, Hashes

\* At the start nothing is stored, read or uploaded.
LEMMA TypeInit == Init => TypeOK
<1> SUFFICES ASSUME Init PROVE TypeOK
  OBVIOUS
<1>1. NoMd5s \in Md5Map
  BY DEF NoMd5s, Md5Map
<1>2. Entries(NoMd5s) = {} /\ 0 \in Versions /\ minute \in 1..MaxMinute
  BY DiffAssumption DEF Init, Entries, NoMd5s, Versions
<1>3. table \in [Versions -> Md5Map] /\ table[0] = NoMd5s
  BY <1>1, <1>2 DEF Init
<1>4. file_md5s \in [Procs -> Md5Map] /\ new_md5s \in [Procs -> Md5Map]
      /\ last_md5s \in [Procs -> Md5Map] /\ disk \in Builds /\ offered \in Builds
  BY <1>1, HashesType DEF Init
<1>5. version \in [Procs -> Versions] /\ stamp \in [Procs -> Versions]
  BY <1>2 DEF Init
<1>6. QED
  BY <1>2, <1>3, <1>4, <1>5, DiffAssumption DEF Init, TypeOK

\* Every action keeps the types: rows are stored only under the minute a run
\* took from the clock, and only rows of its own files are left to insert.
LEMMA TypeStep == TypeOK /\ [Next]_vars => TypeOK'
<1> SUFFICES ASSUME TypeOK, [Next]_vars PROVE TypeOK'
  OBVIOUS
<1> USE DiffAssumption DEF TypeOK
<1>1. NoMd5s \in Md5Map
  BY DEF NoMd5s, Md5Map
<1>2. ASSUME NEW p \in Procs, Start(p) PROVE TypeOK'
  <2>1. new_md5s' \in [Procs -> Md5Map] /\ last_md5s' \in [Procs -> Md5Map]
    BY <1>1, <1>2, HashesType DEF Start, NewLocals
  <2>2. pc[p] = "idle" /\ todo' = todo
    BY <1>2 DEF Start
  <2>3. todo[p] = {} /\ \A q \in Procs \ {p} : new_md5s'[q] = new_md5s[q]
    BY <1>2, <2>2 DEF Start
  <2>4. pc' = [pc EXCEPT ![p] = "create"]
    BY <1>2 DEF Start
  <2>5. QED
    BY <1>2, <2>1, <2>2, <2>3, <2>4 DEF Start, NewLocals
<1>3. ASSUME NEW p \in Procs, CreateTable(p) PROVE TypeOK'
  BY <1>3 DEF CreateTable, rvars, hist, world
<1>4. ASSUME NEW p \in Procs, SelectLastVersion(p) PROVE TypeOK'
  BY <1>4 DEF SelectLastVersion, rvars, hist, world
<1>5. ASSUME NEW p \in Procs, BeginInsert(p), UNCHANGED <<table, minute, new_md5s>>
      PROVE  /\ pc' \in [Procs -> {"idle", "create", "version", "md5s", "insert"}]
             /\ todo' \in [Procs -> SUBSET Files]
             /\ \A q \in Procs : /\ todo'[q] \subseteq Entries(new_md5s'[q])
                                 /\ todo'[q] # {} => pc'[q] = "insert"
                                 /\ pc'[q] = "insert" => stamp'[q] # 0
             /\ stamp' \in [Procs -> Versions]
  <2>1. Entries(new_md5s[p]) \subseteq Files
    BY DEF Entries
  <2>2. minute \in Versions /\ minute # 0
    BY DEF Versions
  <2>3. todo' \in [Procs -> SUBSET Files]
    BY <1>5, <2>1 DEF BeginInsert
  <2>4. stamp' \in [Procs -> Versions]
    BY <1>5, <2>2 DEF BeginInsert
  <2>5. ASSUME NEW q \in Procs
        PROVE  /\ todo'[q] \subseteq Entries(new_md5s'[q])
               /\ todo'[q] # {} => pc'[q] = "insert"
               /\ pc'[q] = "insert" => stamp'[q] # 0
    <3>1. CASE q = p
      <4>1. todo'[p] = Entries(new_md5s'[p])
        BY <1>5 DEF BeginInsert
      <4>2. pc'[p] = "insert" /\ stamp'[p] = minute
        BY <1>5 DEF BeginInsert
      <4>3. QED
        BY <2>2, <3>1, <4>1, <4>2
    <3>2. CASE q # p
      BY <1>5, <3>2 DEF BeginInsert
    <3>3. QED
      BY <3>1, <3>2
  <2>6. QED
    BY <1>5, <2>3, <2>4, <2>5 DEF BeginInsert
<1>6. ASSUME NEW p \in Procs, SelectLastFileMd5s(p) PROVE TypeOK'
  <2>1. file_md5s' \in [Procs -> Md5Map]
    BY <1>6, OverrideType DEF SelectLastFileMd5s
  <2>2. last_md5s' \in [Procs -> Md5Map]
    BY <1>6, <2>1 DEF SelectLastFileMd5s
  <2>3. /\ BeginInsert(p)
        /\ UNCHANGED <<disk, table, minute, version, new_md5s, rc, offered, known, runs, alone>>
    BY <1>6 DEF SelectLastFileMd5s, hist, world
  <2>4. QED
    BY <1>5, <2>1, <2>2, <2>3
<1>7. ASSUME NEW p \in Procs, ReadError(p) PROVE TypeOK'
  <2>1. PICK seen \in SUBSET Files :
          file_md5s' = [file_md5s EXCEPT ![p] =
            Override(@, [f \in Files |->
                           IF f \in seen THEN table[version[p]][f] ELSE Absent])]
    BY <1>7 DEF ReadError
  <2>2. [f \in Files |-> IF f \in seen THEN table[version[p]][f] ELSE Absent] \in Md5Map
    BY DEF Md5Map
  <2>3. file_md5s' \in [Procs -> Md5Map]
    BY <2>1, <2>2, OverrideType
  <2>4. /\ BeginInsert(p) /\ rc' = [rc EXCEPT ![p] = 1]
        /\ UNCHANGED <<disk, table, minute, version, new_md5s, last_md5s, offered, known, runs, alone>>
    BY <1>7 DEF ReadError, hist, world
  <2>5. QED
    BY <1>5, <2>3, <2>4
<1>8. ASSUME NEW p \in Procs, InsertRow(p) PROVE TypeOK'
  <2>1. PICK f \in todo[p] :
          /\ table' = [table EXCEPT ![stamp[p]][f] = new_md5s[p][f]]
          /\ todo' = [todo EXCEPT ![p] = @ \ {f}]
    BY <1>8 DEF InsertRow
  <2>2. table' \in [Versions -> Md5Map]
    BY <2>1 DEF Md5Map
  <2>3. table'[0] = NoMd5s
    <3>1. pc[p] = "insert"
      BY <2>1
    <3>2. stamp[p] # 0 /\ stamp[p] \in Versions
      BY <3>1
    <3>3. QED
      BY <2>1, <3>2 DEF Versions
  <2>4. todo' \in [Procs -> SUBSET Files]
        /\ \A q \in Procs : todo'[q] \subseteq todo[q]
    BY <2>1
  <2>5. QED
    BY <1>8, <2>2, <2>3, <2>4 DEF InsertRow, rvars, hist, world
<1>9. ASSUME NEW p \in Procs, InsertError(p) PROVE TypeOK'
  BY <1>9 DEF InsertError, rvars, hist, world
<1>10. ASSUME NEW p \in Procs, EndRun(p)
       PROVE  /\ pc' \in [Procs -> {"idle", "create", "version", "md5s", "insert"}]
              /\ \A q \in Procs : pc'[q] = IF q = p THEN "idle" ELSE pc[q]
              /\ known' \subseteq Files \X Md5s
  <2>1. \A f \in Entries(new_md5s[p]) : <<f, new_md5s[p][f]>> \in Files \X Md5s
    BY DEF Entries, Md5Map
  <2>2. QED
    BY <1>10, <2>1 DEF EndRun
<1>11. ASSUME NEW p \in Procs, ResetStatics(p)
       PROVE  version' \in [Procs -> Versions] /\ file_md5s' \in [Procs -> Md5Map]
  <2>1. 0 \in Versions
    BY DEF Versions
  <2>2. QED
    BY <1>1, <1>11, <2>1 DEF ResetStatics
<1>12. ASSUME NEW p \in Procs, Finish(p) PROVE TypeOK'
  <2>1. version' \in [Procs -> Versions] /\ file_md5s' \in [Procs -> Md5Map]
    BY <1>11, <1>12 DEF Finish
  <2>2. offered' \in Builds
    BY <1>12 DEF Finish, Builds
  <2>3. todo[p] = {} /\ UNCHANGED <<disk, todo, table, minute, rvars, stamp, runs, alone>>
    BY <1>12 DEF Finish, Compared, EndRun
  <2>4. EndRun(p)
    BY <1>12 DEF Finish
  <2>5. QED
    BY <1>10, <2>1, <2>2, <2>3, <2>4 DEF rvars
<1>13. ASSUME NEW p \in Procs, Crash(p) PROVE TypeOK'
  <2>1. EndRun(p) /\ ResetStatics(p) /\ todo' = [todo EXCEPT ![p] = {}]
    BY <1>13 DEF Crash
  <2>2. UNCHANGED <<disk, table, minute, new_md5s, last_md5s, rc, stamp, runs, alone, offered>>
    BY <1>13 DEF Crash, EndRun, rvars
  <2>3. \A q \in Procs : todo'[q] = IF q = p THEN {} ELSE todo[q]
    BY <2>1
  <2>4. todo' \in [Procs -> SUBSET Files]
    BY <2>1
  <2>5. QED
    BY <1>10, <1>11, <2>1, <2>2, <2>3, <2>4
<1>14. ASSUME NEW p \in Procs, Restart(p) PROVE TypeOK'
  BY <1>11, <1>14 DEF Restart, rvars, hist, world
<1>15. CASE Tick \/ ClockBack
  BY <1>15 DEF Tick, ClockBack, rvars, hist, world
<1>16. CASE UNCHANGED vars
  BY <1>16 DEF vars, rvars, hist, world
<1>17. QED
  BY <1>2, <1>3, <1>4, <1>6, <1>7, <1>8, <1>9, <1>12, <1>13, <1>14, <1>15, <1>16 DEF Next

\* Types of SoDiff, of the database, the static members and a run's own maps.
THEOREM TypeCorrect == Spec => []TypeOK
  BY TypeInit, TypeStep, PTL DEF Spec
-----------------------------------------------------------------------------
\* The answer of a run is empty until every statement has succeeded.
LEMMA ErrorStep == TypeOK /\ ErrorMeansEmpty /\ [Next]_vars => ErrorMeansEmpty'
<1> SUFFICES ASSUME TypeOK, ErrorMeansEmpty, [Next]_vars PROVE ErrorMeansEmpty'
  OBVIOUS
<1> USE DEF TypeOK, ErrorMeansEmpty
<1>1. ASSUME NEW p \in Procs,
             Start(p) \/ CreateTable(p) \/ SelectLastVersion(p) \/ SelectLastFileMd5s(p)
      PROVE  ErrorMeansEmpty'
  BY <1>1 DEF Start, NewLocals, CreateTable, SelectLastVersion, SelectLastFileMd5s,
              BeginInsert, rvars
<1>2. ASSUME NEW p \in Procs, ReadError(p) PROVE ErrorMeansEmpty'
  BY <1>2 DEF ReadError, BeginInsert
<1>3. ASSUME NEW p \in Procs, InsertRow(p) \/ InsertError(p) PROVE ErrorMeansEmpty'
  BY <1>3 DEF InsertRow, InsertError, rvars
<1>4. ASSUME NEW p \in Procs, EndRun(p) PROVE ErrorMeansEmpty'
  BY <1>4 DEF EndRun, rvars
<1>5. CASE (\E p \in Procs : Restart(p)) \/ Tick \/ ClockBack \/ UNCHANGED vars
  BY <1>5 DEF Restart, Tick, ClockBack, vars, rvars
<1>6. \A p \in Procs : Finish(p) \/ Crash(p) => EndRun(p)
  BY DEF Finish, Crash
<1>7. QED
  BY <1>1, <1>2, <1>3, <1>4, <1>5, <1>6 DEF Next

\* Whatever fails: when the last hashes cannot be read a run takes every file
\* for changed.
THEOREM ErrorsOfferAll == Spec => []ReadErrorOffersAll
<1>1. Init => ErrorMeansEmpty
  BY DEF Init, ErrorMeansEmpty
<1>2. TypeOK /\ ErrorMeansEmpty => ReadErrorOffersAll
  BY DEF TypeOK, ErrorMeansEmpty, ReadErrorOffersAll, Compared, DiffFile, Entries, NoMd5s
<1>3. QED
  BY <1>1, <1>2, ErrorStep, TypeCorrect, PTL DEF Spec
-----------------------------------------------------------------------------
\* What the order of the uses means for one process.
LEMMA OrderlyProcess ==
  ASSUME Orderly, NEW p \in Procs
  PROVE  /\ Mode[p] \in {"once", "daemon"}
         /\ Mode[p] = "daemon" => Procs = {p} /\ "read_error" \notin Faults
         /\ "insert_error" \notin Faults /\ "late_crash" \notin Faults
         /\ "clock_back" \notin Faults /\ "overlap" \notin Faults
  BY DEF Orderly

\* The empty map has no entries, and merging it changes nothing.
LEMMA NoMd5sNeutral == /\ Entries(NoMd5s) = {}
                       /\ \A m \in Md5Map : Override(m, NoMd5s) = m
                       /\ \A m \in Md5Map : Override(NoMd5s, m) = m
  BY DEF Entries, NoMd5s, Override, Md5Map

\* A run is begun, moves on to its queries or finds the last version.
LEMMA ReadingStep ==
  ASSUME TypeOK, DiffInv, Orderly, NEW p \in Procs,
         Start(p) \/ CreateTable(p) \/ SelectLastVersion(p)
  PROVE  SerialRuns' /\ VersionRead' /\ MemoryMatchesTarget' /\ InsertMatchesTarget'
<1> USE DEF TypeOK, DiffInv, SerialRuns, VersionRead
<1>1. /\ UNCHANGED <<table, minute, file_md5s, Sent>>
      /\ \A q \in Procs \ {p} : pc[q] = "idle" /\ pc'[q] = "idle"
      /\ pc'[p] \in {"create", "version", "md5s"}
      /\ pc[p] # "insert"
  <2>1. CASE Start(p)
    <3>1. (\A q \in Procs : pc[q] = "idle") /\ pc' = [pc EXCEPT ![p] = "create"]
      BY <2>1, OrderlyProcess DEF Start
    <3>2. QED
      BY <2>1, <3>1, SentSame DEF Start
  <2>2. CASE CreateTable(p) \/ SelectLastVersion(p)
    BY <2>2, SentSame DEF CreateTable, SelectLastVersion, world, hist
  <2>3. QED
    BY <2>1, <2>2
<1>2. \A v \in Versions : (HasRows(v) <=> HasRows(v)') /\ (LastVersion(v) <=> LastVersion(v)')
  BY <1>1 DEF HasRows, LastVersion
<1>3. last_md5s'[p] = NoMd5s
  BY DEF Start, NewLocals, CreateTable, SelectLastVersion, rvars
<1>4. rc'[p] = 0 \/ rc' = rc
  BY DEF Start, NewLocals, CreateTable, SelectLastVersion, rvars
<1>5. SerialRuns'
  <2>1. new_md5s'[p] = Hashes(disk')
    <3>1. CASE Start(p)
      BY <3>1 DEF Start
    <3>2. CASE CreateTable(p) \/ SelectLastVersion(p)
      BY <3>2 DEF CreateTable, SelectLastVersion, rvars, world
    <3>3. QED
      BY <3>1, <3>2
  <2>2. QED
    BY <1>1, <1>2, <1>4, <2>1 DEF Start, NewLocals, CreateTable, SelectLastVersion, rvars
<1>6. VersionRead'
  <2>1. CASE Start(p) \/ CreateTable(p)
    <3>1. version' = version /\ pc'[p] # "md5s"
      BY <2>1 DEF Start, CreateTable
    <3>2. QED
      BY <1>1, <1>2, <1>3, <3>1
  <2>2. CASE SelectLastVersion(p)
    <3>1. CASE (\A v \in Versions : ~HasRows(v)) /\ version' = version
      BY <1>1, <1>2, <1>3, <3>1
    <3>2. CASE \E v \in Versions : LastVersion(v) /\ version' = [version EXCEPT ![p] = v]
      <4>1. PICK v \in Versions : LastVersion(v) /\ version' = [version EXCEPT ![p] = v]
        BY <3>2
      <4>2. HasRows(v)'
        BY <1>2, <4>1 DEF LastVersion
      <4>3. LastVersion(version[p])'
        BY <1>2, <4>1 DEF LastVersion
      <4>4. QED
        BY <1>1, <1>3, <4>2, <4>3
    <3>3. QED
      BY <2>2, <3>1, <3>2 DEF SelectLastVersion
  <2>3. QED
    BY <2>1, <2>2
<1>7. MemoryMatchesTarget'
  BY <1>1, <1>2 DEF MemoryMatchesTarget
<1>8. InsertMatchesTarget'
  BY <1>1 DEF InsertMatchesTarget
<1>9. QED
  BY <1>5, <1>6, <1>7, <1>8

\* The hashes are answered, or cannot be read: whatever the run goes on with is
\* what was uploaded, because the last version was.
LEMMA BeginInsertStep ==
  ASSUME TypeOK, TypeOK', DiffInv, Orderly, NEW p \in Procs,
         SelectLastFileMd5s(p) \/ ReadError(p)
  PROVE  SerialRuns' /\ VersionRead' /\ MemoryMatchesTarget' /\ InsertMatchesTarget'
<1> USE DEF TypeOK, DiffInv
<1>1. /\ UNCHANGED <<disk, table, minute, version, new_md5s, Sent>>
      /\ \A q \in Procs \ {p} : pc[q] = "idle" /\ pc'[q] = "idle"
      /\ pc[p] \in {"create", "version", "md5s"} /\ pc'[p] = "insert"
      /\ todo'[p] = Entries(new_md5s[p]) /\ stamp'[p] = minute
  BY SentSame DEF SelectLastFileMd5s, ReadError, BeginInsert, SerialRuns, hist, world
<1>2. \A v \in Versions : (HasRows(v) <=> HasRows(v)') /\ (LastVersion(v) <=> LastVersion(v)')
  BY <1>1 DEF HasRows, LastVersion
<1>3. SerialRuns'
  <2>1. ReadError(p) => "read_error" \in Faults
    BY DEF ReadError
  <2>2. SelectLastFileMd5s(p) => rc' = rc
    BY DEF SelectLastFileMd5s
  <2>3. ReadError(p) => rc' = [rc EXCEPT ![p] = 1]
    BY DEF ReadError
  <2>4. \A q \in Procs \ {p} : file_md5s'[q] = file_md5s[q]
    BY DEF SelectLastFileMd5s, ReadError
  <2>5. QED
    BY <1>1, <1>2, <2>1, <2>2, <2>3, <2>4 DEF SerialRuns
<1>4. (\A v \in Versions : ~HasRows(v)) => \A q \in Procs : file_md5s'[q] = NoMd5s
  <2> SUFFICES ASSUME \A v \in Versions : ~HasRows(v), NEW q \in Procs
               PROVE  file_md5s'[q] = NoMd5s
    OBVIOUS
  <2>1. version[p] = 0 /\ file_md5s[q] = NoMd5s /\ file_md5s[p] = NoMd5s
    BY DEF VersionRead
  <2>2. table[version[p]] = NoMd5s
    BY <2>1
  <2>3. NoMd5s \in Md5Map
    BY DEF NoMd5s, Md5Map
  <2>4. Override(NoMd5s, NoMd5s) = NoMd5s
    BY <2>3, NoMd5sNeutral
  <2>5. CASE SelectLastFileMd5s(p)
    BY <2>1, <2>2, <2>4, <2>5 DEF SelectLastFileMd5s
  <2>6. CASE ReadError(p)
    <3>1. PICK seen : file_md5s' = [file_md5s EXCEPT ![p] =
            Override(@, [f \in Files |->
                           IF f \in seen THEN table[version[p]][f] ELSE Absent])]
      BY <2>6 DEF ReadError
    <3> DEFINE rows == [f \in Files |->
                          IF f \in seen THEN table[version[p]][f] ELSE Absent]
    <3>2. rows = NoMd5s
      BY <2>2 DEF NoMd5s
    <3>3. file_md5s' = [file_md5s EXCEPT ![p] = Override(@, rows)]
      BY <3>1
    <3> HIDE DEF rows
    <3>4. file_md5s'[p] = Override(NoMd5s, NoMd5s) /\ (q # p => file_md5s'[q] = file_md5s[q])
      BY <2>1, <3>2, <3>3
    <3>5. QED
      BY <2>1, <2>4, <3>4
  <2>7. QED
    BY <2>5, <2>6
<1>5. VersionRead'
  BY <1>1, <1>2, <1>4 DEF VersionRead
<1>6. MemoryMatchesTarget'
  BY <1>1 DEF MemoryMatchesTarget
<1>7. \A f \in Entries(last_md5s'[p]) : last_md5s'[p][f] = Sent[f]
  <2>1. CASE SelectLastFileMd5s(p) /\ LastVersion(version[p])
    <3>1. last_md5s'[p] = Override(file_md5s[p], table[version[p]])
      BY <2>1 DEF SelectLastFileMd5s
    <3>2. \A q \in Procs : pc[q] # "insert"
      BY <1>1
    <3>3. QED
      BY <2>1, <3>1, <3>2 DEF MemoryMatchesTarget
  <2>2. CASE SelectLastFileMd5s(p) /\ \A v \in Versions : ~HasRows(v)
    <3>1. last_md5s'[p] = file_md5s'[p]
      BY <2>2 DEF SelectLastFileMd5s
    <3>2. QED
      BY <1>4, <2>2, <3>1, NoMd5sNeutral
  <2>3. CASE ReadError(p)
    <3>1. last_md5s'[p] = NoMd5s
      BY <1>1, <2>3 DEF ReadError, VersionRead
    <3>2. QED
      BY <3>1, NoMd5sNeutral
  <2>4. SelectLastFileMd5s(p) =>
          LastVersion(version[p]) \/ \A v \in Versions : ~HasRows(v)
    BY DEF SelectLastFileMd5s, VersionRead
  <2>5. QED
    BY <2>1, <2>2, <2>3, <2>4
<1>8. Mode[p] = "daemon" => file_md5s'[p] = last_md5s'[p]
  <2>1. ReadError(p) => Mode[p] # "daemon"
    BY OrderlyProcess DEF ReadError
  <2>2. SelectLastFileMd5s(p) => last_md5s'[p] = file_md5s'[p]
    BY DEF SelectLastFileMd5s
  <2>3. QED
    BY <2>1, <2>2
<1>9. \A v \in Versions : LastVersion(v) =>
        \A f \in Entries(table[v]) : table[v][f] = Sent[f]
  <2> SUFFICES ASSUME NEW v \in Versions, LastVersion(v), NEW f \in Entries(table[v])
               PROVE  table[v][f] = Sent[f]
    OBVIOUS
  <2>1. f \in Files /\ Override(file_md5s[p], table[v])[f] = table[v][f]
    BY DEF Entries, Override
  <2>2. f \in Entries(Override(file_md5s[p], table[v]))
    BY <2>1 DEF Entries
  <2>3. \A q \in Procs : pc[q] # "insert"
    BY <1>1
  <2>4. QED
    BY <2>1, <2>2, <2>3 DEF MemoryMatchesTarget
<1>10. InsertMatchesTarget'
  <2>1. stamp'[p] \in 1..minute' /\ Done(p)' = {}
    BY <1>1 DEF Done
  <2>2. \A v \in Versions : HasRows(v)' => v <= stamp'[p]
    BY <1>1, <1>2 DEF SerialRuns
  <2>3. \A q \in Procs : pc'[q] = "insert" => q = p
    BY <1>1
  <2>4. QED
    BY <1>1, <1>2, <1>7, <1>8, <1>9, <2>1, <2>2, <2>3 DEF InsertMatchesTarget
<1>11. QED
  BY <1>3, <1>5, <1>6, <1>10

\* A row is inserted: the version of the run is now the last one, and its rows
\* are the new hashes or what was uploaded.
LEMMA InsertRowStep ==
  ASSUME TypeOK, TypeOK', DiffInv, NEW p \in Procs, InsertRow(p)
  PROVE  SerialRuns' /\ VersionRead' /\ MemoryMatchesTarget' /\ InsertMatchesTarget'
<1> USE DEF TypeOK, DiffInv
<1>1. PICK f \in todo[p] : /\ table' = [table EXCEPT ![stamp[p]][f] = new_md5s[p][f]]
                           /\ todo' = [todo EXCEPT ![p] = @ \ {f}]
  BY DEF InsertRow
<1>2. /\ UNCHANGED <<disk, minute, version, file_md5s, pc, new_md5s, last_md5s, rc, stamp, Sent>>
      /\ pc[p] = "insert"
      /\ \A q \in Procs \ {p} : pc[q] = "idle"
  BY SentSame DEF InsertRow, rvars, hist, world, SerialRuns
<1>3. stamp[p] \in Versions /\ f \in Files /\ new_md5s[p][f] # Absent
      /\ table'[stamp[p]] = [table[stamp[p]] EXCEPT ![f] = new_md5s[p][f]]
  BY <1>1 DEF Entries
<1>4. \A v \in Versions : HasRows(v)' <=> HasRows(v) \/ v = stamp[p]
  <2>1. HasRows(stamp[p])'
    BY <1>2, <1>3 DEF HasRows, Entries, Md5Map
  <2>2. \A v \in Versions \ {stamp[p]} : table'[v] = table[v]
    BY <1>1
  <2>3. QED
    BY <1>2, <2>1, <2>2 DEF HasRows
<1>5. \A v \in Versions : LastVersion(v)' <=> v = stamp[p]
  <2>1. \A v \in Versions : HasRows(v) => v <= stamp[p]
    BY <1>2 DEF InsertMatchesTarget
  <2>2. \A v \in Versions : HasRows(v)' => v <= stamp[p]
    BY <1>3, <1>4, <2>1 DEF Versions
  <2>3. HasRows(stamp[p])'
    BY <1>2, <1>3, <1>4
  <2>4. \A v, w \in Versions : v <= w /\ w <= v => v = w
    BY DiffAssumption DEF Versions
  <2>5. QED
    BY <1>2, <1>3, <2>2, <2>3, <2>4 DEF LastVersion
<1>6. SerialRuns'
  BY <1>2, <1>3, <1>4 DEF SerialRuns, InsertMatchesTarget
<1>7. VersionRead'
  BY <1>2, <1>3, <1>4 DEF VersionRead
<1>8. MemoryMatchesTarget'
  BY <1>2 DEF MemoryMatchesTarget
<1>9. Done(p)' = Done(p) \cup {f}
  BY <1>1, <1>2 DEF Done
<1>10. \A g \in Done(p)' : table'[stamp[p]][g] = new_md5s[p][g]
  BY <1>2, <1>3, <1>9 DEF InsertMatchesTarget, Done, Entries, Md5Map
<1>11. \A g \in Entries(table'[stamp[p]]) :
         g \in Done(p)' \/ table'[stamp[p]][g] = Sent[g]
  <2> SUFFICES ASSUME NEW g \in Entries(table'[stamp[p]]), g \notin Done(p)'
               PROVE  table'[stamp[p]][g] = Sent[g]
    OBVIOUS
  <2>1. g \in Entries(table[stamp[p]]) /\ table'[stamp[p]][g] = table[stamp[p]][g]
    BY <1>3, <1>9 DEF Entries, Md5Map
  <2>2. LastVersion(stamp[p])
    BY <1>2, <1>3, <2>1 DEF LastVersion, HasRows, InsertMatchesTarget
  <2>3. QED
    BY <1>2, <1>3, <1>9, <2>1, <2>2 DEF InsertMatchesTarget
<1>12. InsertMatchesTarget'
  BY <1>2, <1>4, <1>5, <1>10, <1>11 DEF InsertMatchesTarget
<1>13. QED
  BY <1>6, <1>7, <1>8, <1>12

\* A run ends with its uploads: what the last version says is on the target.
LEMMA FinishStep ==
  ASSUME TypeOK, TypeOK', DiffInv, Orderly, NEW p \in Procs, Finish(p)
  PROVE  SerialRuns' /\ VersionRead' /\ MemoryMatchesTarget' /\ InsertMatchesTarget'
<1> USE DEF TypeOK, DiffInv
<1>1. /\ UNCHANGED <<disk, table, minute, new_md5s, last_md5s, rc>>
      /\ pc[p] = "insert" /\ todo[p] = {}
      /\ \A q \in Procs \ {p} : pc[q] = "idle"
      /\ \A q \in Procs : pc'[q] = "idle"
  BY DEF Finish, Compared, EndRun, rvars, SerialRuns
<1>2. \A v \in Versions : (HasRows(v) <=> HasRows(v)') /\ (LastVersion(v) <=> LastVersion(v)')
  BY <1>1 DEF HasRows, LastVersion
<1>3. \A q \in Procs : \/ version'[q] = version[q] /\ file_md5s'[q] = file_md5s[q]
                       \/ version'[q] = 0 /\ file_md5s'[q] = NoMd5s
  BY DEF Finish, ResetStatics
<1>4. \A q \in Procs : Mode[q] = "once" => file_md5s'[q] = NoMd5s
  <2>1. Mode[p] = "once" => file_md5s'[p] = NoMd5s
    BY DEF Finish, ResetStatics
  <2>2. \A q \in Procs \ {p} : Mode[q] = "once" => file_md5s[q] = NoMd5s
    BY <1>1 DEF SerialRuns
  <2>3. QED
    BY <1>3, <2>1, <2>2
<1>5. SerialRuns'
  BY <1>1, <1>2, <1>4 DEF SerialRuns
<1>6. VersionRead'
  BY <1>1, <1>2, <1>3 DEF VersionRead
<1>7. InsertMatchesTarget'
  BY <1>1 DEF InsertMatchesTarget
<1>8. /\ \A f \in Entries(new_md5s[p]) : Sent'[f] = new_md5s[p][f]
      /\ \A f \in Files \ Entries(new_md5s[p]) : Sent'[f] = Sent[f]
  <2>1. Sent' = [f \in Files |-> IF f \in DiffFile(p) /\ Hashes(disk)[f] # Absent
                                 THEN Hashes(disk)[f] ELSE Sent[f]]
    BY SentFinish, OrderlyProcess
  <2>2. \A f \in Entries(new_md5s[p]) \ DiffFile(p) : Sent[f] = new_md5s[p][f]
    BY <1>1 DEF DiffFile, InsertMatchesTarget, Entries
  <2>3. Entries(new_md5s[p]) \subseteq Files
    BY DEF Entries
  <2>4. Hashes(disk) = new_md5s[p]
    BY <1>1 DEF SerialRuns
  <2>5. QED
    BY <2>1, <2>2, <2>3, <2>4 DEF DiffFile, Entries
<1>9. ASSUME NEW v \in Versions, LastVersion(v), NEW f \in Entries(table[v])
      PROVE  table[v][f] = Sent'[f]
  <2>1. CASE f \in Entries(new_md5s[p])
    <3>1. f \in Done(p) /\ Done(p) = Entries(new_md5s[p])
      BY <1>1, <2>1 DEF Done
    <3>2. table[stamp[p]][f] = new_md5s[p][f] /\ f \in Files /\ new_md5s[p][f] # Absent
      BY <1>1, <2>1, <3>1 DEF InsertMatchesTarget, Entries
    <3>3. HasRows(stamp[p])
      BY <3>2 DEF HasRows, Entries
    <3>4. v <= stamp[p] /\ stamp[p] <= v
      BY <1>1, <1>9, <3>3 DEF LastVersion, InsertMatchesTarget
    <3>5. v = stamp[p]
      BY <3>4 DEF Versions
    <3>6. QED
      BY <1>8, <2>1, <3>2, <3>5
  <2>2. CASE f \notin Entries(new_md5s[p])
    BY <1>1, <1>8, <1>9, <2>2 DEF InsertMatchesTarget, Done, Entries
  <2>3. QED
    BY <2>1, <2>2
<1>10. ASSUME NEW q \in Procs, NEW f \in Entries(file_md5s'[q])
       PROVE  f \in Entries(new_md5s[p]) \/ file_md5s'[q][f] = Sent'[f]
  <2>1. Mode[q] = "daemon" /\ q = p
    BY <1>4, <1>10, NoMd5sNeutral, OrderlyProcess
  <2>2. file_md5s'[p] = last_md5s[p]
    BY <1>1, <2>1 DEF Finish, InsertMatchesTarget
  <2>3. f \in Files /\ file_md5s'[q][f] = Sent[f]
    BY <1>1, <1>10, <2>1, <2>2 DEF InsertMatchesTarget, Entries
  <2>4. QED
    BY <1>8, <2>3
<1>11. MemoryMatchesTarget'
  <2> SUFFICES ASSUME NEW q \in Procs, NEW v \in Versions, LastVersion(v),
                      NEW f \in Entries(Override(file_md5s'[q], table[v]))
               PROVE  Override(file_md5s'[q], table[v])[f] = Sent'[f]
    BY <1>1, <1>2 DEF MemoryMatchesTarget
  <2>1. CASE f \in Entries(table[v])
    BY <1>9, <2>1 DEF Override, Entries
  <2>2. CASE f \notin Entries(table[v])
    <3>1. f \in Files /\ table[v][f] = Absent
      BY <2>2 DEF Entries, Override
    <3>2. Override(file_md5s'[q], table[v])[f] = file_md5s'[q][f]
      BY <3>1 DEF Override
    <3>3. f \in Entries(file_md5s'[q])
      BY <3>1, <3>2 DEF Entries
    <3>4. f \notin Entries(new_md5s[p])
      <4>1. SUFFICES ASSUME f \in Entries(new_md5s[p]) PROVE FALSE
        OBVIOUS
      <4>2. f \in Done(p)
        BY <1>1, <4>1 DEF Done
      <4>3. table[stamp[p]][f] = new_md5s[p][f] /\ new_md5s[p][f] # Absent
        BY <1>1, <4>1, <4>2 DEF InsertMatchesTarget, Entries
      <4>4. HasRows(stamp[p])
        BY <3>1, <4>3 DEF HasRows, Entries
      <4>5. v <= stamp[p] /\ stamp[p] <= v
        BY <1>1, <4>4 DEF LastVersion, InsertMatchesTarget
      <4>6. v = stamp[p]
        BY <4>5 DEF Versions
      <4>7. QED
        BY <3>1, <4>3, <4>6
    <3>5. QED
      BY <1>10, <3>2, <3>3, <3>4
  <2>3. QED
    BY <2>1, <2>2
<1>12. QED
  BY <1>5, <1>6, <1>7, <1>11

\* A process dies before it inserts, or a daemon is started again: what was in
\* memory is gone, the database still matches the target.
LEMMA CrashStep ==
  ASSUME TypeOK, TypeOK', DiffInv, Orderly, NEW p \in Procs, Crash(p) \/ Restart(p)
  PROVE  SerialRuns' /\ VersionRead' /\ MemoryMatchesTarget' /\ InsertMatchesTarget'
<1> USE DEF TypeOK, DiffInv
<1>1. /\ UNCHANGED <<disk, table, minute, new_md5s, last_md5s, rc, Sent>>
      /\ \A q \in Procs : pc[q] # "insert" /\ pc'[q] = "idle"
      /\ version'[p] = 0 /\ file_md5s'[p] = NoMd5s
      /\ \A q \in Procs \ {p} : version'[q] = version[q] /\ file_md5s'[q] = file_md5s[q]
  <2>1. CASE Crash(p)
    <3>1. /\ pc[p] \in {"create", "version", "md5s"} /\ EndRun(p) /\ ResetStatics(p)
          /\ UNCHANGED Sent
      BY <2>1, OrderlyProcess, SentSame DEF Crash
    <3>2. \A q \in Procs \ {p} : pc[q] = "idle"
      BY <3>1 DEF SerialRuns
    <3>3. QED
      BY <3>1, <3>2 DEF EndRun, ResetStatics, rvars
  <2>2. CASE Restart(p)
    <3>1. Mode[p] = "daemon" /\ pc[p] = "idle"
      BY <2>2 DEF Restart
    <3>2. \A q \in Procs : q = p
      BY <3>1, OrderlyProcess
    <3>3. QED
      BY <2>2, <3>1, <3>2, SentSame DEF Restart, ResetStatics, rvars, hist, world
  <2>3. QED
    BY <2>1, <2>2
<1>2. \A v \in Versions : (HasRows(v) <=> HasRows(v)') /\ (LastVersion(v) <=> LastVersion(v)')
  BY <1>1 DEF HasRows, LastVersion
<1>3. SerialRuns'
  <2>1. \A q \in Procs : Mode[q] = "once" => file_md5s'[q] = NoMd5s
    <3>1. CASE Mode[p] = "daemon"
      BY <1>1, <3>1, OrderlyProcess
    <3>2. CASE Mode[p] = "once" /\ Crash(p)
      <4>1. pc[p] # "idle"
        BY <3>2 DEF Crash
      <4>2. \A q \in Procs \ {p} : pc[q] = "idle"
        BY <4>1 DEF SerialRuns
      <4>3. \A q \in Procs \ {p} : Mode[q] = "once" => file_md5s[q] = NoMd5s
        BY <4>2 DEF SerialRuns
      <4>4. QED
        BY <1>1, <4>3
    <3>3. QED
      BY <3>1, <3>2, OrderlyProcess DEF Restart
  <2>2. QED
    BY <1>1, <1>2, <2>1 DEF SerialRuns
<1>4. VersionRead'
  BY <1>1, <1>2 DEF VersionRead
<1>5. MemoryMatchesTarget'
  <2> SUFFICES ASSUME NEW q \in Procs, NEW v \in Versions, LastVersion(v),
                      NEW f \in Entries(Override(file_md5s'[q], table[v]))
               PROVE  Override(file_md5s'[q], table[v])[f] = Sent[f]
    BY <1>1, <1>2 DEF MemoryMatchesTarget
  <2>1. \A g \in Entries(Override(file_md5s[q], table[v])) :
          Override(file_md5s[q], table[v])[g] = Sent[g]
    BY <1>1 DEF MemoryMatchesTarget
  <2>2. CASE q = p
    <3>1. f \in Files /\ table[v][f] # Absent
          /\ Override(file_md5s'[q], table[v])[f] = table[v][f]
      BY <1>1, <2>2 DEF Entries, Override, NoMd5s
    <3>2. f \in Entries(Override(file_md5s[q], table[v]))
          /\ Override(file_md5s[q], table[v])[f] = table[v][f]
      BY <3>1 DEF Entries, Override
    <3>3. QED
      BY <2>1, <3>1, <3>2
  <2>3. QED
    BY <1>1, <2>1, <2>2
<1>6. InsertMatchesTarget'
  BY <1>1 DEF InsertMatchesTarget
<1>7. QED
  BY <1>3, <1>4, <1>5, <1>6

\* The clock goes on, or nothing happens.
LEMMA ClockStep ==
  ASSUME TypeOK, TypeOK', DiffInv, Tick \/ UNCHANGED vars
  PROVE  SerialRuns' /\ VersionRead' /\ MemoryMatchesTarget' /\ InsertMatchesTarget'
<1> USE DEF TypeOK, DiffInv
<1>1. /\ UNCHANGED <<disk, table, version, file_md5s, pc, new_md5s, last_md5s, rc, todo, stamp, Sent>>
      /\ minute' >= minute
  BY SentSame DEF Tick, vars, rvars, hist, world
<1>2. \A v \in Versions : (HasRows(v) <=> HasRows(v)') /\ (LastVersion(v) <=> LastVersion(v)')
  BY <1>1 DEF HasRows, LastVersion
<1>3. SerialRuns'
  BY <1>1, <1>2 DEF SerialRuns, Versions
<1>4. VersionRead' /\ MemoryMatchesTarget'
  BY <1>1, <1>2 DEF VersionRead, MemoryMatchesTarget
<1>5. InsertMatchesTarget'
  BY <1>1, <1>2 DEF InsertMatchesTarget, Done, Versions
<1>6. QED
  BY <1>3, <1>4, <1>5

\* At the start there is nothing to disagree.
LEMMA DiffInit == Init => DiffInv
<1> SUFFICES ASSUME Init PROVE DiffInv
  OBVIOUS
<1>1. \A v \in Versions : ~HasRows(v)
  BY NoMd5sNeutral DEF Init, HasRows
<1>2. SerialRuns /\ VersionRead
  BY <1>1 DEF Init, SerialRuns, VersionRead
<1>3. MemoryMatchesTarget /\ InsertMatchesTarget
  BY <1>1 DEF Init, MemoryMatchesTarget, InsertMatchesTarget, LastVersion
<1>4. QED
  BY <1>2, <1>3, TypeInit DEF DiffInv

\* DiffInv is kept by every step of the orderly uses.
LEMMA DiffStep == Orderly /\ DiffInv /\ [Next]_vars => DiffInv'
<1> SUFFICES ASSUME Orderly, DiffInv, [Next]_vars PROVE DiffInv'
  OBVIOUS
<1>1. TypeOK /\ TypeOK'
  BY TypeStep DEF DiffInv
<1>2. SerialRuns' /\ VersionRead' /\ MemoryMatchesTarget' /\ InsertMatchesTarget'
  <2>1. CASE \E p \in Procs : Start(p) \/ CreateTable(p) \/ SelectLastVersion(p)
    BY <1>1, <2>1, ReadingStep
  <2>2. CASE \E p \in Procs : SelectLastFileMd5s(p) \/ ReadError(p)
    BY <1>1, <2>2, BeginInsertStep
  <2>3. CASE \E p \in Procs : InsertRow(p)
    BY <1>1, <2>3, InsertRowStep
  <2>4. CASE \E p \in Procs : Finish(p)
    BY <1>1, <2>4, FinishStep
  <2>5. CASE \E p \in Procs : Crash(p) \/ Restart(p)
    BY <1>1, <2>5, CrashStep
  <2>6. CASE Tick \/ UNCHANGED vars
    BY <1>1, <2>6, ClockStep
  <2>7. ~ClockBack /\ \A p \in Procs : ~InsertError(p)
    BY DEF Orderly, ClockBack, InsertError
  <2>8. QED
    BY <2>1, <2>2, <2>3, <2>4, <2>5, <2>6, <2>7 DEF Next
<1>3. QED
  BY <1>1, <1>2 DEF DiffInv

\* DiffInv is an invariant of the orderly uses.
THEOREM DiffInvariant == ASSUME Orderly PROVE Spec => []DiffInv
<1>1. DiffInv /\ [Next]_vars => DiffInv'
  BY DiffStep
<1>2. QED
  BY DiffInit, <1>1, PTL DEF Spec

\* In the orderly uses a deployment leaves out no file whose hash is not that of
\* the content last uploaded.
THEOREM UploadsCover == ASSUME Orderly PROVE Spec => []UploadsCoverChanges
<1>1. DiffInv => UploadsCoverChanges
  BY DEF DiffInv, UploadsCoverChanges, InsertMatchesTarget, Compared, DiffFile, Entries
<1>2. QED
  BY <1>1, DiffInvariant, PTL

\* When hashes tell contents apart it leaves out no file whose content is not the
\* one last uploaded: the prefix is all that stands between the two statements.
LEMMA HashesEqual ==
  ASSUME HashesTell, NEW b \in Builds, NEW c \in Builds, NEW f \in Files,
         Hashes(b)[f] = Hashes(c)[f]
  PROVE  b[f] = c[f]
  BY DiffAssumption DEF HashesTell, Hashes, Builds

THEOREM ContentsUploaded ==
  ASSUME Orderly, HashesTell PROVE Spec => []ChangedFilesAreUploaded
<1>1. ASSUME DiffInv PROVE ChangedFilesAreUploaded
  <2>1. SUFFICES ASSUME NEW p \in Procs, Compared(p), NEW f \in Entries(new_md5s[p]),
                        f \notin DiffFile(p)
                 PROVE  offered[f] = disk[f]
    BY DEF ChangedFilesAreUploaded
  <2>2. pc[p] = "insert" /\ f \in Files
    BY <2>1 DEF Compared, Entries
  <2>3. last_md5s[p][f] = new_md5s[p][f] /\ f \in Entries(last_md5s[p])
    BY <2>1 DEF DiffFile, Entries
  <2>4. new_md5s[p] = Hashes(disk) /\ last_md5s[p][f] = Sent[f]
    BY <1>1, <2>2, <2>3 DEF DiffInv, SerialRuns, InsertMatchesTarget
  <2>5. QED
    BY <1>1, <2>2, <2>3, <2>4, HashesEqual DEF Sent, DiffInv, TypeOK
<1>2. QED
  BY <1>1, DiffInvariant, PTL
-----------------------------------------------------------------------------
\* A deployment that uploads what its comparison found leaves the target with the
\* hashes that one that uploads every file would.
LEMMA FinishDeploys ==
  ASSUME Orderly, DiffInv, NEW p \in Procs, Finish(p)
  PROVE  Mirror!Deploy
<1> USE DEF DiffInv, TypeOK
<1>1. pc[p] = "insert" /\ new_md5s[p] = Hashes(disk) /\ Mode[p] # "compare" /\ disk' = disk
  BY OrderlyProcess DEF Finish, Compared, EndRun, SerialRuns
<1>2. \A f \in Entries(last_md5s[p]) : last_md5s[p][f] = Sent[f]
  BY <1>1 DEF InsertMatchesTarget
<1>3. Sent' = [f \in Files |-> IF f \in DiffFile(p) /\ Hashes(disk)[f] # Absent
                               THEN Hashes(disk)[f] ELSE Sent[f]]
  BY <1>1, SentFinish
<1>4. ASSUME NEW f \in Files
      PROVE  Sent'[f] = IF Hashes(disk)[f] # Absent THEN Hashes(disk)[f] ELSE Sent[f]
  BY <1>1, <1>2, <1>3, <1>4 DEF DiffFile, Entries
<1>5. Sent' = [f \in Files |-> IF Hashes(disk)[f] # Absent THEN Hashes(disk)[f] ELSE Sent[f]]
  BY <1>3, <1>4
<1>6. Hashes(disk)' = Hashes(disk)
  BY <1>1
<1>7. QED
  BY <1>5, <1>6 DEF Mirror!Deploy

LEMMA MirrorStep == Orderly /\ DiffInv /\ [Next]_vars => [Mirror!Next]_Mirror!vars
<1> SUFFICES ASSUME Orderly, DiffInv, [Next]_vars PROVE [Mirror!Next]_Mirror!vars
  OBVIOUS
<1> USE DEF Mirror!vars, rvars, hist, world
<1>1. ASSUME UNCHANGED <<disk, offered>> PROVE UNCHANGED Mirror!vars
  BY <1>1, SentSame
<1>2. ASSUME NEW p \in Procs, Start(p) PROVE [Mirror!Next]_Mirror!vars
  <2>1. disk' \in Builds /\ Sent' = Sent
    BY <1>2, SentSame DEF Start
  <2>2. Hashes(disk') \in Md5Map
    BY <2>1, HashesType
  <2>3. QED
    BY <2>1, <2>2 DEF Mirror!Build, Mirror!Next, Mirror!Maps, Md5Map
<1>3. ASSUME NEW p \in Procs, Finish(p) PROVE [Mirror!Next]_Mirror!vars
  BY <1>3, FinishDeploys DEF Mirror!Next
<1>4. ASSUME NEW p \in Procs,
             \/ CreateTable(p) \/ SelectLastVersion(p) \/ SelectLastFileMd5s(p)
             \/ ReadError(p) \/ InsertRow(p) \/ InsertError(p) \/ Crash(p) \/ Restart(p)
      PROVE  UNCHANGED <<disk, offered>>
  BY <1>4 DEF CreateTable, SelectLastVersion, SelectLastFileMd5s, ReadError, InsertRow,
              InsertError, Crash, EndRun, Restart
<1>5. CASE Tick \/ ClockBack \/ UNCHANGED vars
  BY <1>1, <1>5 DEF Tick, ClockBack, vars
<1>6. QED
  BY <1>1, <1>2, <1>3, <1>4, <1>5 DEF Next

\* In the orderly uses the runs implement, for the hashes, deployments that upload
\* every file.
THEOREM DiffIsMirror == ASSUME Orderly PROVE Spec => MirrorSpec
<1>1. Init => Mirror!Init
  BY HashesType DEF Init, Mirror!Init, NoMd5s, Sent
<1>2. DiffInv /\ [Next]_vars => [Mirror!Next]_Mirror!vars
  BY MirrorStep
<1>3. QED
  BY <1>1, <1>2, DiffInvariant, PTL DEF Spec, MirrorSpec, Mirror!Spec

\* When hashes tell contents apart, they implement it for the contents as well.
THEOREM DiffIsContentMirror ==
  ASSUME Orderly, HashesTell PROVE Spec => ContentMirror!Spec
<1>1. Init => ContentMirror!Init
  BY DEF Init, ContentMirror!Init, NoMd5s
<1>2. ASSUME DiffInv, NEW p \in Procs, Finish(p) PROVE ContentMirror!Deploy
  <2> USE DEF DiffInv, TypeOK
  <2>1. pc[p] = "insert" /\ new_md5s[p] = Hashes(disk) /\ Mode[p] # "compare" /\ disk' = disk
    BY <1>2, OrderlyProcess DEF Finish, Compared, EndRun, SerialRuns
  <2>2. \A f \in Entries(last_md5s[p]) : last_md5s[p][f] = Sent[f]
    BY <1>2, <2>1 DEF InsertMatchesTarget
  <2>3. ASSUME NEW f \in Files, disk[f] # Absent, f \notin DiffFile(p)
        PROVE  offered[f] = disk[f]
    <3>1. f \in Entries(new_md5s[p])
      BY <1>2, <2>1, <2>3, HashesType DEF Entries
    <3>2. last_md5s[p][f] = new_md5s[p][f] /\ f \in Entries(last_md5s[p])
      BY <2>3, <3>1 DEF DiffFile, Entries
    <3>3. QED
      BY <1>2, <2>1, <2>2, <3>2, HashesEqual DEF Sent
  <2>4. offered' = [f \in Files |-> IF f \in DiffFile(p) /\ disk[f] # Absent
                                    THEN disk[f] ELSE offered[f]]
    BY <1>2, <2>1 DEF Finish
  <2>5. offered' = [f \in Files |-> IF disk[f] # Absent THEN disk[f] ELSE offered[f]]
    BY <2>3, <2>4
  <2>6. QED
    BY <2>1, <2>5 DEF ContentMirror!Deploy
<1>3. DiffInv /\ [Next]_vars => [ContentMirror!Next]_ContentMirror!vars
  <2> SUFFICES ASSUME DiffInv, [Next]_vars PROVE [ContentMirror!Next]_ContentMirror!vars
    OBVIOUS
  <2> USE DEF ContentMirror!vars, ContentMirror!Next, rvars, hist, world
  <2>1. ASSUME NEW p \in Procs, Start(p) PROVE ContentMirror!Next
    BY <2>1 DEF Start, ContentMirror!Build, ContentMirror!Maps, Builds
  <2>2. ASSUME NEW p \in Procs,
               \/ CreateTable(p) \/ SelectLastVersion(p) \/ SelectLastFileMd5s(p)
               \/ ReadError(p) \/ InsertRow(p) \/ InsertError(p) \/ Crash(p) \/ Restart(p)
        PROVE  UNCHANGED ContentMirror!vars
    BY <2>2 DEF CreateTable, SelectLastVersion, SelectLastFileMd5s, ReadError, InsertRow,
                InsertError, Crash, EndRun, Restart
  <2>3. CASE Tick \/ ClockBack \/ UNCHANGED vars
    BY <2>3 DEF Tick, ClockBack, vars
  <2>4. QED
    BY <1>2, <2>1, <2>2, <2>3 DEF Next
<1>4. QED
  BY <1>1, <1>3, DiffInvariant, PTL DEF Spec, ContentMirror!Spec
-----------------------------------------------------------------------------
\* A daemon that is alone and undisturbed also forgets nothing it uploaded: it
\* is in the static map or in the last version, and read before a comparison.
Undisturbed == Faults = {} /\ \E p \in Procs : Procs = {p} /\ Mode[p] = "daemon"

Remembered ==
  \A p \in Procs :
    /\ pc[p] = "insert" => Entries(Sent) \subseteq Entries(last_md5s[p])
    /\ pc[p] # "insert" =>
         /\ (\A v \in Versions : ~HasRows(v)) => Entries(Sent) = {}
         /\ \A v \in Versions : LastVersion(v) =>
              Entries(Sent) \subseteq Entries(file_md5s[p]) \cup Entries(table[v])

\* The runs of the daemon read both, and store what they upload.
LEMMA RememberedStep ==
  ASSUME Undisturbed, DiffInv, Remembered, [Next]_vars PROVE Remembered'
<1> USE DEF DiffInv, TypeOK, rvars, hist, world
<1>1. PICK p \in Procs : Procs = {p} /\ Mode[p] = "daemon"
  BY DEF Undisturbed
<1>2. ASSUME /\ pc'[p] = "insert" => Entries(Sent') \subseteq Entries(last_md5s'[p])
             /\ pc'[p] # "insert" =>
                  /\ (\A v \in Versions : ~HasRows(v)') => Entries(Sent') = {}
                  /\ \A v \in Versions : LastVersion(v)' =>
                       Entries(Sent') \subseteq Entries(file_md5s'[p]) \cup Entries(table'[v])
      PROVE  Remembered'
  BY <1>1, <1>2 DEF Remembered
<1>3. ASSUME UNCHANGED <<table, file_md5s, Sent>>, pc[p] # "insert", pc'[p] # "insert"
      PROVE  Remembered'
  <2>1. \A v \in Versions : (HasRows(v) <=> HasRows(v)') /\ (LastVersion(v) <=> LastVersion(v)')
    BY <1>3 DEF HasRows, LastVersion
  <2>2. QED
    BY <1>1, <1>3, <2>1 DEF Remembered
<1>4. CASE Start(p) \/ CreateTable(p) \/ SelectLastVersion(p)
  BY <1>3, <1>4, SentSame DEF Start, CreateTable, SelectLastVersion
<1>5. CASE SelectLastFileMd5s(p)
  <2>1. /\ pc[p] = "md5s" /\ pc'[p] = "insert" /\ Sent' = Sent
        /\ last_md5s'[p] = Override(file_md5s[p], table[version[p]])
    BY <1>5, SentSame DEF SelectLastFileMd5s, BeginInsert
  <2>2. Entries(Sent) \subseteq Entries(file_md5s[p]) \cup Entries(table[version[p]])
    BY <2>1 DEF VersionRead, Remembered
  <2>3. Entries(file_md5s[p]) \cup Entries(table[version[p]])
          \subseteq Entries(Override(file_md5s[p], table[version[p]]))
    BY DEF Entries, Override
  <2>4. QED
    BY <1>2, <2>1, <2>2, <2>3
<1>6. CASE InsertRow(p)
  BY <1>2, <1>6, SentSame DEF InsertRow, Remembered
<1>7. CASE Finish(p)
  <2>1. /\ pc[p] = "insert" /\ pc'[p] = "idle" /\ todo[p] = {}
        /\ UNCHANGED <<table, file_md5s>>
        /\ file_md5s[p] = last_md5s[p]
    BY <1>1, <1>7 DEF Finish, Compared, EndRun, InsertMatchesTarget
  <2>2. Entries(Sent') \subseteq Entries(last_md5s[p]) \cup Entries(new_md5s[p])
    <3>1. Sent' = [f \in Files |-> IF f \in DiffFile(p) /\ Hashes(disk)[f] # Absent
                                   THEN Hashes(disk)[f] ELSE Sent[f]]
      BY <1>1, <1>7, SentFinish
    <3>2. Entries(Sent') \subseteq Entries(Sent) \cup Entries(new_md5s[p])
      BY <3>1 DEF Entries, DiffFile
    <3>3. QED
      BY <2>1, <3>2 DEF Remembered
  <2>3. \A f \in Entries(new_md5s[p]) : f \in Entries(table[stamp[p]])
    BY <2>1 DEF InsertMatchesTarget, Done, Entries
  <2>4. \A v \in Versions : (HasRows(v) <=> HasRows(v)') /\ (LastVersion(v) <=> LastVersion(v)')
    BY <2>1 DEF HasRows, LastVersion
  <2>5. ASSUME NEW v \in Versions, LastVersion(v)
        PROVE  Entries(new_md5s[p]) \subseteq Entries(table[v])
    <3>1. SUFFICES ASSUME NEW f \in Entries(new_md5s[p]) PROVE f \in Entries(table[v])
      OBVIOUS
    <3>2. HasRows(stamp[p]) /\ stamp[p] \in Versions
      BY <2>3, <3>1 DEF HasRows
    <3>3. stamp[p] <= v /\ v <= stamp[p]
      BY <2>1, <2>5, <3>2 DEF LastVersion, InsertMatchesTarget
    <3>4. v = stamp[p]
      BY <3>2, <3>3 DEF Versions
    <3>5. QED
      BY <2>3, <3>1, <3>4
  <2>6. ASSUME \A v \in Versions : ~HasRows(v) PROVE Entries(Sent') = {}
    <3>1. file_md5s[p] = NoMd5s
      BY <2>6 DEF VersionRead
    <3>2. Entries(new_md5s[p]) = {}
      BY <2>3, <2>6 DEF HasRows
    <3>3. QED
      BY <2>1, <2>2, <3>1, <3>2, NoMd5sNeutral
  <2>7. QED
    BY <1>2, <2>1, <2>2, <2>4, <2>5, <2>6
<1>8. CASE Tick \/ UNCHANGED vars
  <2>1. UNCHANGED <<table, file_md5s, Sent, pc, last_md5s>>
    BY <1>8, SentSame DEF Tick, vars
  <2>2. CASE pc[p] = "insert"
    BY <1>2, <2>1, <2>2 DEF Remembered
  <2>3. QED
    BY <1>3, <2>1, <2>2
<1>9. ~ReadError(p) /\ ~InsertError(p) /\ ~Crash(p) /\ ~Restart(p) /\ ~ClockBack
  BY DEF Undisturbed, ReadError, InsertError, Crash, Restart, ClockBack
<1>10. QED
  BY <1>1, <1>4, <1>5, <1>6, <1>7, <1>8, <1>9 DEF Next

\* A daemon that nothing disturbs uploads only what differs from its last upload.
THEOREM UploadsNeeded == ASSUME Undisturbed PROVE Spec => []NoNeedlessUpload
<1>1. Orderly
  BY DEF Undisturbed, Orderly
<1>2. Init => Remembered
  <2> SUFFICES ASSUME Init PROVE Remembered
    OBVIOUS
  <2>1. Entries(Sent) = {}
    BY NoMd5sNeutral, HashesType DEF Init, Sent
  <2>2. QED
    BY <2>1 DEF Remembered
<1>3. Spec => []DiffInv
  BY <1>1, DiffInvariant
<1>4. DiffInv /\ Remembered /\ [Next]_vars => Remembered'
  BY RememberedStep
<1>5. DiffInv /\ Remembered => NoNeedlessUpload
  BY DEF DiffInv, Remembered, NoNeedlessUpload, InsertMatchesTarget, Compared, DiffFile, Entries
<1>6. QED
  BY <1>2, <1>3, <1>4, <1>5, PTL DEF Spec
-----------------------------------------------------------------------------
\* Without overlap everything that is stored, cached or answered was hashed by
\* a run that has ended, but for the rows of the run that inserts.
Hashed(m) == \A f \in Entries(m) : <<f, m[f]>> \in known
StoredIsKnown ==
  /\ \A p, q \in Procs : pc[p] # "idle" /\ pc[q] # "idle" => p = q
  /\ \A p \in Procs : Hashed(file_md5s[p]) /\ Hashed(last_md5s[p])
  /\ \A v \in Versions : \A f \in Entries(table[v]) :
       \/ <<f, table[v][f]>> \in known
       \/ \E p \in Procs : pc[p] = "insert" /\ table[v][f] = new_md5s[p][f]

LEMMA KnownStep ==
  ASSUME "overlap" \notin Faults, TypeOK, StoredIsKnown, [Next]_vars
  PROVE  StoredIsKnown'
<1> USE DEF TypeOK, rvars, hist, world
<1>1. \A m \in Md5Map : Hashed(m) => \A f \in Files : m[f] = Absent \/ <<f, m[f]>> \in known
  BY DEF Hashed, Entries
<1>2. ASSUME NEW p \in Procs, pc[p] \in {"create", "version", "md5s"}, NEW v \in Versions
      PROVE  Hashed(table[v])
  BY <1>2 DEF StoredIsKnown, Hashed
<1>3. ASSUME NEW p \in Procs, Start(p) PROVE StoredIsKnown'
  <2>1. /\ \A q \in Procs : pc[q] = "idle"
        /\ pc' = [pc EXCEPT ![p] = "create"]
        /\ last_md5s' = [last_md5s EXCEPT ![p] = NoMd5s]
        /\ UNCHANGED <<table, file_md5s, known>>
    BY <1>3 DEF Start, NewLocals
  <2>2. \A q \in Procs : Hashed(last_md5s'[q])
    BY <2>1, NoMd5sNeutral DEF StoredIsKnown, Hashed
  <2>3. QED
    BY <2>1, <2>2 DEF StoredIsKnown, Hashed
<1>4. ASSUME NEW p \in Procs, CreateTable(p) \/ SelectLastVersion(p) PROVE StoredIsKnown'
  <2>1. /\ pc[p] \in {"create", "version"} /\ pc'[p] \in {"version", "md5s"}
        /\ \A q \in Procs \ {p} : pc'[q] = pc[q]
        /\ UNCHANGED <<table, file_md5s, last_md5s, new_md5s, known>>
    BY <1>4 DEF CreateTable, SelectLastVersion
  <2>2. \A q \in Procs : pc[q] # "insert" /\ (q # p => pc[q] = "idle")
    BY <2>1 DEF StoredIsKnown
  <2>3. \A v \in Versions : \A f \in Entries(table[v]) : <<f, table[v][f]>> \in known
    BY <2>2 DEF StoredIsKnown
  <2>4. \A q, r \in Procs : pc'[q] # "idle" /\ pc'[r] # "idle" => q = r
    BY <2>1, <2>2
  <2>5. QED
    BY <2>1, <2>3, <2>4 DEF StoredIsKnown, Hashed
<1>5. ASSUME NEW p \in Procs, SelectLastFileMd5s(p) \/ ReadError(p) PROVE StoredIsKnown'
  <2>1. /\ pc[p] \in {"create", "version", "md5s"} /\ pc' = [pc EXCEPT ![p] = "insert"]
        /\ UNCHANGED <<table, new_md5s, known>>
    BY <1>5 DEF SelectLastFileMd5s, ReadError, BeginInsert
  <2>2. Hashed(file_md5s'[p])
    <3>1. CASE SelectLastFileMd5s(p)
      <4>1. file_md5s'[p] = Override(file_md5s[p], table[version[p]])
        BY <3>1 DEF SelectLastFileMd5s
      <4>2. Hashed(file_md5s[p]) /\ Hashed(table[version[p]])
        BY <1>2, <2>1 DEF StoredIsKnown
      <4>3. QED
        BY <4>1, <4>2 DEF Hashed, Entries, Override
    <3>2. CASE ReadError(p)
      <4>1. PICK seen \in SUBSET Files :
              file_md5s' = [file_md5s EXCEPT ![p] = Override(@,
                [f \in Files |-> IF f \in seen THEN table[version[p]][f] ELSE Absent])]
        BY <3>2 DEF ReadError
      <4> DEFINE rows == [f \in Files |-> IF f \in seen THEN table[version[p]][f] ELSE Absent]
      <4>2. file_md5s'[p] = Override(file_md5s[p], rows)
        BY <4>1
      <4>3. Hashed(file_md5s[p]) /\ Hashed(table[version[p]])
        BY <1>2, <2>1 DEF StoredIsKnown
      <4>4. Hashed(rows)
        BY <4>3 DEF Hashed, Entries
      <4> HIDE DEF rows
      <4>5. QED
        BY <4>2, <4>3, <4>4 DEF Hashed, Entries, Override
    <3>3. QED
      BY <1>5, <3>1, <3>2
  <2>3. \A q \in Procs \ {p} : file_md5s'[q] = file_md5s[q] /\ last_md5s'[q] = last_md5s[q]
    BY <1>5 DEF SelectLastFileMd5s, ReadError
  <2>4. last_md5s'[p] = file_md5s'[p] \/ last_md5s'[p] = last_md5s[p]
    BY <1>5 DEF SelectLastFileMd5s, ReadError
  <2>5. \A q \in Procs : Hashed(file_md5s'[q]) /\ Hashed(last_md5s'[q])
    BY <2>2, <2>3, <2>4 DEF StoredIsKnown
  <2>6. \A q, r \in Procs : pc'[q] # "idle" /\ pc'[r] # "idle" => q = r
    BY <2>1 DEF StoredIsKnown
  <2>7. \A v \in Versions : \A f \in Entries(table[v]) : <<f, table[v][f]>> \in known
    BY <2>1 DEF StoredIsKnown
  <2>8. QED
    BY <2>1, <2>5, <2>6, <2>7 DEF StoredIsKnown, Hashed
<1>6. ASSUME NEW p \in Procs, InsertRow(p) PROVE StoredIsKnown'
  <2>1. PICK f \in todo[p] : table' = [table EXCEPT ![stamp[p]][f] = new_md5s[p][f]]
    BY <1>6 DEF InsertRow
  <2>2. pc[p] = "insert" /\ UNCHANGED <<pc, file_md5s, last_md5s, new_md5s, known>>
    BY <1>6, <2>1 DEF InsertRow
  <2>3. \A v \in Versions, g \in Files :
          table'[v][g] = table[v][g] \/ table'[v][g] = new_md5s[p][g]
    BY <2>1 DEF Md5Map
  <2>4. ASSUME NEW v \in Versions, NEW g \in Entries(table'[v])
        PROVE  \/ <<g, table'[v][g]>> \in known
               \/ \E q \in Procs : pc[q] = "insert" /\ table'[v][g] = new_md5s[q][g]
    <3>1. CASE table'[v][g] = table[v][g]
      BY <2>4, <3>1 DEF StoredIsKnown, Entries
    <3>2. QED
      BY <2>2, <2>3, <3>1 DEF Entries
  <2>5. QED
    BY <2>2, <2>4 DEF StoredIsKnown, Hashed
<1>7. ASSUME NEW p \in Procs, InsertError(p) PROVE StoredIsKnown'
  BY <1>7 DEF InsertError, StoredIsKnown, Hashed
<1>8. ASSUME NEW p \in Procs, Finish(p) \/ Crash(p) PROVE StoredIsKnown'
  <2>1. /\ pc' = [pc EXCEPT ![p] = "idle"]
        /\ known' = known \cup {<<f, new_md5s[p][f]>> : f \in Entries(new_md5s[p])}
        /\ UNCHANGED <<table, new_md5s, last_md5s>>
    BY <1>8 DEF Finish, Crash, EndRun
  <2>2. \A q \in Procs : file_md5s'[q] \in {file_md5s[q], NoMd5s}
    BY <1>8 DEF Finish, Crash, ResetStatics
  <2>3. \A q \in Procs : /\ \A f \in Entries(file_md5s'[q]) : <<f, file_md5s'[q][f]>> \in known'
                         /\ \A f \in Entries(last_md5s'[q]) : <<f, last_md5s'[q][f]>> \in known'
    BY <2>1, <2>2, NoMd5sNeutral DEF StoredIsKnown, Hashed
  <2>4. \A v \in Versions : \A f \in Entries(table[v]) :
          \/ <<f, table[v][f]>> \in known'
          \/ \E q \in Procs : pc'[q] = "insert" /\ table[v][f] = new_md5s[q][f]
    BY <2>1 DEF StoredIsKnown, Entries
  <2>5. \A q, r \in Procs : pc'[q] # "idle" /\ pc'[r] # "idle" => q = r
    BY <2>1 DEF StoredIsKnown
  <2>6. QED
    BY <2>1, <2>3, <2>4, <2>5 DEF StoredIsKnown, Hashed
<1>9. ASSUME NEW p \in Procs, Restart(p) PROVE StoredIsKnown'
  <2>1. UNCHANGED <<table, pc, new_md5s, last_md5s, known>>
        /\ file_md5s' = [file_md5s EXCEPT ![p] = NoMd5s]
    BY <1>9 DEF Restart, ResetStatics
  <2>2. \A q \in Procs : Hashed(file_md5s'[q])
    BY <2>1, NoMd5sNeutral DEF StoredIsKnown, Hashed
  <2>3. QED
    BY <2>1, <2>2 DEF StoredIsKnown, Hashed
<1>10. CASE Tick \/ ClockBack \/ UNCHANGED vars
  BY <1>10 DEF Tick, ClockBack, vars, StoredIsKnown, Hashed
<1>11. QED
  BY <1>3, <1>4, <1>5, <1>6, <1>7, <1>8, <1>9, <1>10 DEF Next

\* Whatever fails, runs that do not overlap upload every file with a hash that none
\* of them has found of it before.
THEOREM FreshIsOffered == ASSUME "overlap" \notin Faults PROVE Spec => []FreshHashIsOffered
<1>1. Init => StoredIsKnown
  <2> SUFFICES ASSUME Init PROVE StoredIsKnown
    OBVIOUS
  <2>1. \A v \in Versions : Entries(table[v]) = {}
    BY NoMd5sNeutral DEF Init
  <2>2. \A p \in Procs : Entries(file_md5s[p]) = {} /\ Entries(last_md5s[p]) = {}
    BY NoMd5sNeutral DEF Init
  <2>3. QED
    BY <2>1, <2>2 DEF Init, StoredIsKnown, Hashed
<1>2. TypeOK /\ StoredIsKnown /\ [Next]_vars => StoredIsKnown'
  BY KnownStep
<1>3. StoredIsKnown => FreshHashIsOffered
  BY DEF StoredIsKnown, Hashed, FreshHashIsOffered, DiffFile, Entries
<1>4. QED
  BY <1>1, <1>2, <1>3, TypeCorrect, PTL DEF Spec
=============================================================================
