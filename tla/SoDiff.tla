------------------------------- MODULE SoDiff -------------------------------
(***************************************************************************)
(* fetch_new_diff_so and the DbUtils calls it makes: which .so files does  *)
(* a run find changed since the last one? Every run hashes the files, asks *)
(* the sqlite table for the hashes of the last version, inserts its own    *)
(* under the current minute as version, and then compares. deploy() hands  *)
(* the result to its upload loop, -c only prints it.                       *)
(*                                                                         *)
(* Processes share the database file, and nothing keeps their runs apart   *)
(* but their users ("overlap" in Faults: not even they); the static        *)
(* members of DbUtils live as long as their process. The table is a map    *)
(* from version and file to the hash in the last such row: rows are read   *)
(* in insertion order into a map, so an earlier row is never seen.         *)
(*                                                                         *)
(* A hash is not a content: calc_file_md5 reads with readsome, which stops *)
(* at the end of what the stream has buffered, 8191 bytes in libstdc++.    *)
(***************************************************************************)
EXTENDS Integers, FiniteSets

CONSTANTS Files,         \* paths under sub_so_dir
          Contents,      \* contents of files
          Md5s, Md5Of,   \* hashes, that of a content: of its first bytes
          Absent,        \* no such file, row or map entry
          Procs, Mode,   \* processes; each is a "daemon" (-x), "once" (-u)
                         \* or "compare" (-c)
          Faults,        \* what the environment may do besides
          MaxMinute,     \* bound on the clock
          MaxRuns        \* bound on the runs of fetch_new_diff_so

ASSUME DiffAssumption ==
  /\ Absent \notin Md5s \cup Contents
  /\ Md5Of \in [Contents -> Md5s]
  /\ Mode \in [Procs -> {"daemon", "once", "compare"}]
  /\ Faults \subseteq {"read_error", "insert_error", "early_crash", "late_crash",
                       "clock_back", "overlap"}
  /\ MaxMinute \in Nat \ {0} /\ MaxRuns \in Nat

VARIABLES disk,                 \* the files the last build left
          table,                \* md5s: version -> file -> md5
          minute,               \* local time, what gen_so_version formats
          version, file_md5s,   \* static members of DbUtils, per process
          pc, new_md5s, last_md5s, rc, todo, stamp,  \* a run, per process
          offered,              \* history: content of a file when last uploaded
          known, runs, alone    \* history: <<file, md5>> hashed, runs started,
                                \* no other run during the last one started

rvars == <<new_md5s, last_md5s, rc>>
hist  == <<offered, known, runs, alone>>
world == <<disk, minute, hist>>
vars  == <<table, version, file_md5s, pc, rvars, todo, stamp, world>>

Builds   == [Files -> Contents \cup {Absent}]
Md5Map   == [Files -> Md5s \cup {Absent}]
NoMd5s   == [f \in Files |-> Absent]
Versions == 0..MaxMinute   \* 0: DbUtils::version before any row was read

\* Assigning the entries of another map one by one, as callback_file_md5s does.
KeepOld(old, rows) == [f \in Files |-> IF old[f] # Absent THEN old[f] ELSE rows[f]]
Override(old, rows) == [f \in Files |-> IF rows[f] # Absent THEN rows[f] ELSE old[f]]
Entries(m) == {f \in Files : m[f] # Absent}

\* calc_dir_file_md5s, of the files here and of what was uploaded of them.
Hashes(files) == [f \in Files |-> IF files[f] = Absent THEN Absent ELSE Md5Of[files[f]]]
Sent == Hashes(offered)

Init == /\ disk = NoMd5s
        /\ table = [v \in Versions |-> NoMd5s]
        /\ minute = 1
        /\ version = [p \in Procs |-> 0]
        /\ file_md5s = [p \in Procs |-> NoMd5s]
        /\ pc = [p \in Procs |-> "idle"]
        /\ new_md5s = [p \in Procs |-> NoMd5s]
        /\ last_md5s = [p \in Procs |-> NoMd5s]
        /\ rc = [p \in Procs |-> 0]
        /\ todo = [p \in Procs |-> {}]
        /\ stamp = [p \in Procs |-> 0]
        /\ offered = NoMd5s /\ known = {} /\ runs = 0 /\ alone = TRUE
-----------------------------------------------------------------------------
\* The maps and the return code a run has of its own.
OldLocals(p) == rc' = [rc EXCEPT ![p] = 0] /\ UNCHANGED last_md5s
NewLocals(p) == /\ rc' = [rc EXCEPT ![p] = 0]
                /\ last_md5s' = [last_md5s EXCEPT ![p] = NoMd5s]

\* A build leaves some files, and they are hashed.
Start(p) == /\ pc[p] = "idle"
            /\ "overlap" \notin Faults => \A q \in Procs : pc[q] = "idle"
            /\ runs < MaxRuns
            /\ disk' \in Builds
            /\ new_md5s' = [new_md5s EXCEPT ![p] = Hashes(disk')]
            /\ NewLocals(p)
            /\ pc' = [pc EXCEPT ![p] = "create"]
            /\ runs' = runs + 1
            /\ alone' = \A q \in Procs : pc[q] = "idle"
            /\ UNCHANGED <<table, minute, version, file_md5s, todo, stamp, offered, known>>

CreateTable(p) == /\ pc[p] = "create"
                  /\ pc' = [pc EXCEPT ![p] = "version"]
                  /\ UNCHANGED <<table, version, file_md5s, rvars, todo, stamp, world>>

\* "order by version desc limit 1"; with no row the callback is not called.
HasRows(v) == Entries(table[v]) # {}
FirstVersion(v) == HasRows(v) /\ \A w \in Versions : HasRows(w) => w >= v
LastVersion(v) == HasRows(v) /\ \A w \in Versions : HasRows(w) => w <= v

SelectLastVersion(p) ==
  /\ pc[p] = "version"
  /\ \/ /\ \A v \in Versions : ~HasRows(v)
        /\ UNCHANGED version
     \/ \E v \in Versions : LastVersion(v) /\ version' = [version EXCEPT ![p] = v]
  /\ pc' = [pc EXCEPT ![p] = "md5s"]
  /\ UNCHANGED <<table, file_md5s, rvars, todo, stamp, world>>

\* insert_newest_file_md5s takes its version from the clock once, at its start.
InsertUnderLast(p) == /\ pc' = [pc EXCEPT ![p] = "insert"]
                      /\ todo' = [todo EXCEPT ![p] = Entries(new_md5s[p])]
                      /\ stamp' = [stamp EXCEPT ![p] = version[p]]
BeginInsert(p) == /\ pc' = [pc EXCEPT ![p] = "insert"]
                  /\ todo' = [todo EXCEPT ![p] = Entries(new_md5s[p])]
                  /\ stamp' = [stamp EXCEPT ![p] = minute]

\* The rows go into the static map on top of what earlier calls left there, and
\* the whole of it is the answer.
SelectLastFileMd5s(p) ==
  /\ pc[p] = "md5s"
  /\ file_md5s' = [file_md5s EXCEPT ![p] = Override(@, table[version[p]])]
  /\ last_md5s' = [last_md5s EXCEPT ![p] = file_md5s'[p]]
  /\ BeginInsert(p)
  /\ UNCHANGED <<table, version, new_md5s, rc, world>>

\* A statement of fetch_last_file_md5s fails, the last one possibly after some
\* rows were read. The caller ignores the code and goes on with an empty map.
ReadError(p) ==
  /\ "read_error" \in Faults
  /\ pc[p] \in {"create", "version", "md5s"}
  /\ \E seen \in IF pc[p] = "md5s" THEN SUBSET Files ELSE {{}} :
       file_md5s' = [file_md5s EXCEPT ![p] =
         Override(@, [f \in Files |-> IF f \in seen THEN table[version[p]][f] ELSE Absent])]
  /\ rc' = [rc EXCEPT ![p] = 1]
  /\ BeginInsert(p)
  /\ UNCHANGED <<table, version, new_md5s, last_md5s, world>>

\* One row, outside any transaction.
InsertRow(p) == \E f \in todo[p] :
  /\ table' = [table EXCEPT ![stamp[p]][f] = new_md5s[p][f]]
  /\ todo' = [todo EXCEPT ![p] = @ \ {f}]
  /\ UNCHANGED <<version, file_md5s, pc, rvars, stamp, world>>

\* An insert fails: the rest is not inserted, the code is ignored.
InsertError(p) == /\ "insert_error" \in Faults
                  /\ todo[p] # {}
                  /\ todo' = [todo EXCEPT ![p] = {}]
                  /\ UNCHANGED <<table, version, file_md5s, pc, rvars, stamp, world>>

\* The comparison; the upload loop of deploy() runs over the result, and copies
\* the files as they then are.
NewNames(p) == {f \in Entries(new_md5s[p]) : last_md5s[p][f] = Absent}
DiffFile(p) == {f \in Entries(new_md5s[p]) : last_md5s[p][f] # new_md5s[p][f]}
Compared(p) == pc[p] = "insert" /\ todo[p] = {}

\* The process ends or is restarted: the statics are gone.
ResetStatics(p) == /\ version' = [version EXCEPT ![p] = 0]
                   /\ file_md5s' = [file_md5s EXCEPT ![p] = NoMd5s]

EndRun(p) == /\ pc' = [pc EXCEPT ![p] = "idle"]
             /\ known' = known \cup {<<f, new_md5s[p][f]>> : f \in Entries(new_md5s[p])}
             /\ UNCHANGED <<disk, table, minute, rvars, stamp, runs, alone>>

Finish(p) == /\ Compared(p)
             /\ offered' = IF Mode[p] = "compare" THEN offered
                           ELSE [f \in Files |-> IF f \in DiffFile(p) /\ disk[f] # Absent
                                                 THEN disk[f] ELSE offered[f]]
             /\ IF Mode[p] = "daemon" THEN UNCHANGED <<version, file_md5s>>
                                      ELSE ResetStatics(p)
             /\ EndRun(p)
             /\ UNCHANGED todo

\* The process dies, before its first insert or between that and the upload.
Crash(p) == /\ \/ "early_crash" \in Faults /\ pc[p] \in {"create", "version", "md5s"}
               \/ "late_crash" \in Faults /\ pc[p] = "insert"
            /\ ResetStatics(p)
            /\ todo' = [todo EXCEPT ![p] = {}]
            /\ EndRun(p)
            /\ UNCHANGED offered

\* A daemon is stopped between two runs and started again.
Restart(p) == /\ pc[p] = "idle" /\ Mode[p] = "daemon"
              /\ "early_crash" \in Faults
              /\ ResetStatics(p)
              /\ UNCHANGED <<table, pc, rvars, todo, stamp, world>>

Tick == /\ minute < MaxMinute
        /\ minute' = minute + 1
        /\ UNCHANGED <<disk, table, version, file_md5s, pc, rvars, todo, stamp, hist>>

\* Local time is set back: the end of daylight saving time, or by hand.
ClockBack == /\ "clock_back" \in Faults
             /\ minute > 1
             /\ minute' = minute - 1
             /\ UNCHANGED <<disk, table, version, file_md5s, pc, rvars, todo, stamp, hist>>

Next == \/ \E p \in Procs : \/ Start(p) \/ CreateTable(p) \/ SelectLastVersion(p)
                            \/ SelectLastFileMd5s(p) \/ ReadError(p)
                            \/ InsertRow(p) \/ InsertError(p) \/ Finish(p)
                            \/ Crash(p) \/ Restart(p)
        \/ Tick \/ ClockBack

Spec == Init /\ [][Next]_vars
-----------------------------------------------------------------------------
\* Types. No row is ever stored under version 0, and rows still to be inserted
\* belong to files the run has hashed.
TypeOK == /\ disk \in Builds
          /\ table \in [Versions -> Md5Map]
          /\ table[0] = NoMd5s
          /\ minute \in 1..MaxMinute
          /\ version \in [Procs -> Versions]
          /\ file_md5s \in [Procs -> Md5Map]
          /\ pc \in [Procs -> {"idle", "create", "version", "md5s", "insert"}]
          /\ new_md5s \in [Procs -> Md5Map]
          /\ last_md5s \in [Procs -> Md5Map]
          /\ rc \in [Procs -> {0, 1}]
          /\ todo \in [Procs -> SUBSET Files]
          /\ \A p \in Procs : /\ todo[p] \subseteq Entries(new_md5s[p])
                              /\ todo[p] # {} => pc[p] = "insert"
                              /\ pc[p] = "insert" => stamp[p] # 0
          /\ stamp \in [Procs -> Versions]
          /\ offered \in Builds
          /\ known \subseteq Files \X Md5s
          /\ runs \in 0..MaxRuns /\ alone \in BOOLEAN

\* A deployment uploads every file whose hash is not that of the content last
\* uploaded: of what it leaves out the first bytes are already on the target, if no
\* other run overlapped it.
UploadsCoverChanges ==
  \A p \in Procs : Compared(p) /\ alone /\ Mode[p] # "compare" =>
    \A f \in Entries(new_md5s[p]) : f \in DiffFile(p) \/ Sent[f] = new_md5s[p][f]

\* The same of the whole content, which is what a deployment is for. A change
\* behind the first bytes does not change the hash.
ChangedFilesAreUploaded ==
  \A p \in Procs : Compared(p) /\ alone /\ Mode[p] # "compare" =>
    \A f \in Entries(new_md5s[p]) : f \in DiffFile(p) \/ offered[f] = disk[f]

\* A deployment uploads only files that differ from what was last uploaded, and
\* differ in their first bytes.
NoNeedlessUpload ==
  \A p \in Procs : Compared(p) => \A f \in DiffFile(p) : Sent[f] # new_md5s[p][f]

\* A file the last hashes could not be read for is treated as changed: an error
\* of the database makes a run upload more, never less.
ReadErrorOffersAll ==
  \A p \in Procs : Compared(p) /\ rc[p] # 0 => DiffFile(p) = Entries(new_md5s[p])

\* Whatever fails, a file with a hash no earlier run has found of it is uploaded: a
\* change can only be missed when its first bytes are such as they were before.
FreshHashIsOffered ==
  \A p \in Procs : Compared(p) =>
    \A f \in Entries(new_md5s[p]) : <<f, new_md5s[p][f]>> \notin known => f \in DiffFile(p)
-----------------------------------------------------------------------------
\* Why ReadErrorOffersAll holds, whatever Faults is: the answer of a run is
\* empty until all statements have succeeded.
ErrorMeansEmpty ==
  \A p \in Procs :
    /\ pc[p] \in {"create", "version", "md5s"} => rc[p] = 0 /\ last_md5s[p] = NoMd5s
    /\ pc[p] = "insert" /\ rc[p] # 0 => last_md5s[p] = NoMd5s

(* Why UploadsCoverChanges holds when nothing in Faults is but read errors  *)
(* and early crashes, and processes are all "once" or a single daemon.       *)

\* The uses of the program that are in order.
Orderly == /\ Faults \subseteq {"read_error", "early_crash"}
           /\ \/ \A p \in Procs : Mode[p] = "once"
              \/ /\ "read_error" \notin Faults
                 /\ \E p \in Procs : Procs = {p} /\ Mode[p] = "daemon"

\* Processes do not overlap nor change what one has hashed, versions are not ahead
\* of the clock, and a process that keeps nothing in memory between its runs has
\* an empty static map.
SerialRuns ==
  /\ \A p, q \in Procs : pc[p] # "idle" /\ pc[q] # "idle" => p = q
  /\ \A p \in Procs : pc[p] # "idle" => new_md5s[p] = Hashes(disk)
  /\ \A v \in Versions : HasRows(v) => v <= minute
  /\ \A p \in Procs : Mode[p] = "once" /\ pc[p] = "idle" => file_md5s[p] = NoMd5s
  /\ \A p \in Procs : rc[p] # 0 => "read_error" \in Faults

\* The version that is read is the last one; without rows nothing is cached, and
\* before the hashes are read the answer is empty.
VersionRead ==
  /\ (\A v \in Versions : ~HasRows(v)) =>
       \A p \in Procs : version[p] = 0 /\ file_md5s[p] = NoMd5s
  /\ \A p \in Procs : pc[p] = "md5s" =>
       LastVersion(version[p]) \/ \A v \in Versions : ~HasRows(v)
  /\ \A p \in Procs : pc[p] \in {"create", "version", "md5s"} => last_md5s[p] = NoMd5s

\* Except while rows are inserted, a run that reads the hashes finds nothing
\* but what was uploaded.
MemoryMatchesTarget ==
  (\A p \in Procs : pc[p] # "insert") =>
    \A p \in Procs, v \in Versions : LastVersion(v) =>
      \A f \in Entries(Override(file_md5s[p], table[v])) :
        Override(file_md5s[p], table[v])[f] = Sent[f]

\* While they are: the rows done are the new hashes, the others of this version
\* and the last one before it are what was uploaded, as is what was read.
Done(p) == Entries(new_md5s[p]) \ todo[p]
InsertMatchesTarget ==
  \A p \in Procs : pc[p] = "insert" =>
    /\ stamp[p] \in 1..minute
    /\ \A v \in Versions : HasRows(v) => v <= stamp[p]
    /\ \A f \in Entries(last_md5s[p]) : last_md5s[p][f] = Sent[f]
    /\ Mode[p] = "daemon" => file_md5s[p] = last_md5s[p]
    /\ \A f \in Done(p) : table[stamp[p]][f] = new_md5s[p][f]
    /\ \A v \in Versions : LastVersion(v) =>
         \A f \in Entries(table[v]) :
           (v = stamp[p] /\ f \in Done(p)) \/ table[v][f] = Sent[f]

\* The inductive invariant of the orderly uses.
DiffInv == TypeOK /\ SerialRuns /\ VersionRead /\ MemoryMatchesTarget
                  /\ InsertMatchesTarget

\* In the orderly uses leaving out files whose hash did not change makes no
\* difference to the hashes: the runs implement deployments that upload every file.
Mirror == INSTANCE Mirror WITH Values <- Md5s, built <- Hashes(disk), mirror <- Sent
MirrorSpec == Mirror!Spec

\* They implement it for the contents as well if a hash tells contents apart: if
\* builds show every change of a file in its first bytes, as an identifier of the
\* build in its header would.
ContentMirror == INSTANCE Mirror WITH Values <- Contents, built <- disk, mirror <- offered
HashesTell == \A x, y \in Contents : Md5Of[x] = Md5Of[y] => x = y
=============================================================================
