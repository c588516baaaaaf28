------------------------------- MODULE Deploy -------------------------------
(***************************************************************************)
(* main and deploy(): what a process does to the clone of the project, to  *)
(* the files built there, to the database of hashes and to the service on  *)
(* the target. A deployment is the sequence git checkout, git pull, the    *)
(* compile script, the diff, stop the service, scp each file, start it;    *)
(* the result of no command is looked at. Any number of processes share    *)
(* the clone, the database and the target.                                 *)
(*                                                                         *)
(* The hand-over (CondVarMng), the diff (SoDiff) and each command are one  *)
(* step. A source revision is a branch and the number of a commit on it.   *)
(* Files are never removed once they were built. The database knows hashes *)
(* of first bytes (SoDiff), and a branch is handed over as the last part   *)
(* of its name, after any '/', cut to 32 characters.                       *)
(***************************************************************************)
EXTENDS Naturals, FiniteSets, Sequences

CONSTANTS Branches, Names, Cut,  \* branches; names, and which one is handed over
          Empty,                 \* the string before any webhook
          Default, Fetched,      \* the branch checked out first; those git knows
          Files, Absent,         \* .so files, no file
          Contents, Md5s, Md5Of, \* contents of files, hashes, that of a content
          Output,                \* what a revision compiles to
          Procs, Opts,           \* processes and their options among c, u, x
          Faults,                \* steps that may fail, "crash"
          MaxCommits,            \* bound on the commits of a branch
          MaxTriggers,           \* bound on webhooks and changes of the log
          MaxLaunches            \* bound on the processes started

Daemons == {p \in Procs : Opts[p] = {"x"}}

ASSUME DeployAssumption ==
  /\ Branches \subseteq Names /\ Empty \notin Names
  /\ Cut \in [Branches -> Names]
  /\ Default \in Fetched /\ Fetched \subseteq Branches
  /\ Absent \notin Md5s \cup Contents
  /\ Md5Of \in [Contents -> Md5s]
  /\ Output \in [Branches \X (1..MaxCommits) -> [Files -> Contents]]
  /\ Opts \in [Procs -> (SUBSET {"c", "u", "x"}) \ {{}}]
  /\ \A p, q \in Daemons : p = q          \* they would listen on one port
  /\ Faults \subseteq {"checkout", "pull", "compile", "stop", "scp", "start", "crash"}
  /\ MaxCommits \in Nat \ {0} /\ MaxTriggers \in Nat /\ MaxLaunches \in Nat

VARIABLES head,                   \* GitLab: newest commit of each branch
          at, local,              \* clone: branch checked out, commits it has
                                  \* (0: branch not fetched yet)
          build, stored,          \* files built, hashes of the last version
          service, target,        \* target: "up" or "down", its files
          slot, ready,            \* CondVarMng of the daemon
          pc, todo,               \* per process: position, files to copy
          wanted,                 \* history: newest webhook, with its commit and
                                  \* whether the clone knew the branch
          clean,                  \* history: nothing failed and no two processes
                                  \* overlapped since the last deployment began
          hurt,                   \* history: a start was missed or failed
          offered, missed,        \* history: content of a file at its last scp
                                  \* that worked; files whose stored hash is of
                                  \* content never copied
          triggers, launches      \* triggers accepted, processes started

clone   == <<at, local>>
mirror  == <<build, stored, offered, missed>>
remote  == <<service, target, hurt>>
memory  == <<slot, ready, wanted, triggers>>
vars    == <<head, clone, mirror, remote, memory, pc, todo, clean, launches>>

NoFiles == [f \in Files |-> Absent]
None    == [branch |-> Empty, commit |-> 0, known |-> FALSE]
Revision == <<at, local[at]>>
Hashes(files) == [f \in Files |-> IF files[f] = Absent THEN Absent ELSE Md5Of[files[f]]]

Init == /\ head = [b \in Branches |-> 1]
        /\ at = Default
        /\ local = [b \in Branches |-> IF b \in Fetched THEN 1 ELSE 0]
        /\ build = NoFiles /\ stored = NoFiles /\ offered = NoFiles /\ missed = {}
        /\ service = "up" /\ target = NoFiles /\ hurt = FALSE
        /\ slot = Empty /\ ready = FALSE /\ wanted = None /\ triggers = 0
        /\ pc = [p \in Procs |-> "off"] /\ todo = [p \in Procs |-> {}]
        /\ clean = TRUE /\ launches = 0

Deploying(p) == pc[p] \notin {"off", "wait"}
Listening == \E p \in Daemons : pc[p] # "off"
Quiet == \A p \in Procs : ~Deploying(p)
Goto(p, label) == pc' = [pc EXCEPT ![p] = label]
-----------------------------------------------------------------------------
(* GitLab, the watched log and the event thread of the daemon *)

Push(b) == /\ head[b] < MaxCommits
           /\ head' = [head EXCEPT ![b] = @ + 1]
           /\ UNCHANGED <<clone, mirror, remote, memory, pc, todo, clean, launches>>

Trigger == /\ Listening
           /\ triggers < MaxTriggers
           /\ triggers' = triggers + 1
           /\ ready' = TRUE
           /\ UNCHANGED <<head, clone, mirror, remote, pc, todo, clean, launches>>

Webhook(b) == /\ Trigger
              /\ slot' = Cut[b]
              /\ wanted' = [branch |-> b, commit |-> head[b], known |-> local[b] > 0]

Modify == Trigger /\ UNCHANGED <<slot, wanted>>
-----------------------------------------------------------------------------
(* main *)

\* -c goes before -u, and -u before -x.
FirstStep(opts) == CASE "c" \in opts -> "diff"
                     [] "c" \notin opts /\ "u" \in opts -> "checkout"
                     [] OTHER -> "wait"

Launch(p) == /\ pc[p] = "off"
             /\ launches < MaxLaunches
             /\ launches' = launches + 1
             /\ Goto(p, FirstStep(Opts[p]))
             /\ clean' = (clean /\ (Quiet \/ p \in Daemons))
             /\ UNCHANGED <<head, clone, mirror, remote, memory, todo>>

\* deploy_by_notify; -u and -c end where the daemon waits again.
Take(p) == /\ pc[p] = "wait" /\ ready
           /\ ready' = FALSE
           /\ Goto(p, "checkout")
           /\ clean' = Quiet
           /\ UNCHANGED <<head, clone, mirror, remote, slot, wanted, triggers, todo, launches>>

LastStep(p) == IF p \in Daemons THEN "wait" ELSE "off"
-----------------------------------------------------------------------------
(* deploy(). A failed command leaves what it was to change, and the next one *)
(* is started all the same.                                                  *)

Fails(step) == step \in Faults /\ clean' = FALSE
Works == UNCHANGED clean

\* branch()->c_str() in the process p: empty but in the daemon.
BranchOf(p) == IF p \in Daemons THEN slot ELSE Empty

\* "git checkout " with nothing behind it, with a branch that was pushed for the
\* first time and not fetched yet, or with the rest of a name that is not itself
\* that of a branch, changes nothing.
Known == {b \in Branches : local[b] > 0}
SwitchAlways(name) == at' = name
Switch(name) == at' = IF name \in Known THEN name ELSE at

Checkout(p) == /\ pc[p] = "checkout"
               /\ \/ Works /\ Switch(BranchOf(p))
                  \/ Fails("checkout") /\ UNCHANGED at
               /\ Goto(p, "pull")
               /\ UNCHANGED <<head, local, mirror, remote, memory, todo, launches>>

\* "git pull" fetches all branches and merges the one checked out.
FetchOnly == [b \in Branches |-> IF local[b] = 0 THEN head[b] ELSE local[b]]
Pulled == [b \in Branches |-> IF b = at \/ local[b] = 0 THEN head[b] ELSE local[b]]

Pull(p) == /\ pc[p] = "pull"
           /\ \/ Works /\ local' = Pulled
              \/ Fails("pull") /\ UNCHANGED local
           /\ Goto(p, "compile")
           /\ UNCHANGED <<head, at, mirror, remote, memory, todo, launches>>

\* The script builds all files, or some if there is an error. It may write the
\* log that the daemon watches.
Compile(p) == /\ pc[p] = "compile"
              /\ \/ Works /\ build' = Output[Revision]
                 \/ /\ Fails("compile")
                    /\ \E done \in SUBSET Files :
                         build' = [f \in Files |-> IF f \in done THEN Output[Revision][f]
                                                                 ELSE build[f]]
              /\ ready' \in {ready, ready \/ Listening}
              /\ Goto(p, "diff")
              /\ UNCHANGED <<head, clone, stored, offered, missed, remote, slot, wanted,
                             triggers, todo, launches>>

\* fetch_new_diff_so. For -c that is all, and what it found is not copied.
OnlyNew == {f \in Files : build[f] # Absent /\ stored[f] = Absent}
Differing == {f \in Files : build[f] # Absent /\ Hashes(build)[f] # stored[f]}
DiffIsAll(p) == "c" \in Opts[p]
StoreHashes == stored' = [f \in Files |-> IF build[f] # Absent THEN Hashes(build)[f]
                                                             ELSE stored[f]]

DeployDiff(p) == /\ pc[p] = "diff" /\ ~DiffIsAll(p)
                 /\ StoreHashes
                 /\ todo' = [todo EXCEPT ![p] = Differing]
                 /\ Goto(p, "stop")
                 /\ UNCHANGED <<head, clone, build, offered, missed, remote, memory, clean,
                                launches>>

CompareDiff(p) == /\ pc[p] = "diff" /\ DiffIsAll(p)
                  /\ StoreHashes
                  /\ missed' = missed \cup Differing
                  /\ Goto(p, "off")
                  /\ UNCHANGED <<head, clone, build, offered, remote, memory, todo, clean,
                                 launches>>

StopLater == UNCHANGED service
Stopped == service' = "down"

StopService(p) == /\ pc[p] = "stop"
                  /\ \/ Works /\ Stopped
                     \/ Fails("stop") /\ UNCHANGED service
                  /\ Goto(p, "upload")
                  /\ UNCHANGED <<head, clone, mirror, target, hurt, memory, todo, launches>>

\* "scp -r " << src_path << user_at_ip << ":" << dest_path: the words of the
\* command that are its operands, each put together of the pieces given. With
\* less than two of them scp copies nothing.
ScpOperands(f) == << <<f, "root@10.10.10.10", ":", "~/">> >>
Scp(f) == IF Len(ScpOperands(f)) < 2 THEN target ELSE [target EXCEPT ![f] = build[f]]

Upload(p) == \E f \in todo[p] :
  /\ pc[p] = "upload"
  /\ \/ /\ Works
        /\ target' = Scp(f)
        /\ offered' = [offered EXCEPT ![f] = build[f]]
        /\ missed' = IF Hashes(build)[f] = stored[f] THEN missed \ {f} ELSE missed \cup {f}
     \/ Fails("scp") /\ missed' = missed \cup {f} /\ UNCHANGED <<target, offered>>
  /\ todo' = [todo EXCEPT ![p] = @ \ {f}]
  /\ UNCHANGED <<head, clone, build, stored, service, hurt, memory, pc, launches>>

NotStarted == UNCHANGED service /\ hurt' = FALSE
Started == service' = "up" /\ hurt' = FALSE

StartService(p) == /\ pc[p] = "upload" /\ todo[p] = {}
                   /\ \/ Works /\ Started
                      \/ Fails("start") /\ hurt' = TRUE /\ UNCHANGED service
                   /\ Goto(p, LastStep(p))
                   /\ UNCHANGED <<head, clone, mirror, target, memory, todo, launches>>

\* The process ends anywhere. The daemon forgets flag and branch.
Crash(p) == /\ "crash" \in Faults
            /\ pc[p] # "off"
            /\ Goto(p, "off")
            /\ todo' = [todo EXCEPT ![p] = {}]
            /\ missed' = missed \cup todo[p]
            /\ hurt' = (hurt \/ pc[p] = "upload")
            /\ clean' = (clean /\ ~Deploying(p))
            /\ IF p \in Daemons THEN ready' = FALSE /\ slot' = Empty /\ wanted' = None
                                ELSE UNCHANGED <<ready, slot, wanted>>
            /\ UNCHANGED <<head, clone, build, stored, offered, service, target, triggers,
                           launches>>
-----------------------------------------------------------------------------
Next == \/ \E b \in Branches : Push(b) \/ Webhook(b)
        \/ Modify
        \/ \E p \in Procs : \/ Launch(p) \/ Take(p) \/ Checkout(p) \/ Pull(p) \/ Compile(p)
                            \/ DeployDiff(p) \/ CompareDiff(p) \/ StopService(p)
                            \/ Upload(p) \/ StartService(p) \/ Crash(p)

Spec == Init /\ [][Next]_vars
-----------------------------------------------------------------------------
\* Types. Only branches git knows are checked out, and the clone has no commit
\* GitLab does not have.
TypeOK == /\ head \in [Branches -> 1..MaxCommits]
          /\ at \in Branches
          /\ local \in [Branches -> 0..MaxCommits]
          /\ local[at] > 0 /\ \A b \in Branches : local[b] <= head[b]
          /\ stored \in [Files -> Md5s \cup {Absent}]
          /\ build \in [Files -> Contents \cup {Absent}]
          /\ offered \in [Files -> Contents \cup {Absent}]
          /\ target \in [Files -> Contents \cup {Absent}]
          /\ missed \subseteq Files
          /\ service \in {"up", "down"} /\ hurt \in BOOLEAN
          /\ slot \in Names \cup {Empty} /\ ready \in BOOLEAN
          /\ wanted \in [branch : Branches \cup {Empty}, commit : 0..MaxCommits,
                         known : BOOLEAN]
          /\ pc \in [Procs -> {"off", "wait", "checkout", "pull", "compile", "diff",
                               "stop", "upload"}]
          /\ todo \in [Procs -> SUBSET Files]
          /\ clean \in BOOLEAN
          /\ triggers \in 0..MaxTriggers /\ launches \in 0..MaxLaunches

\* A service that was stopped is started again, by whoever stopped it, unless a
\* start failed or a process died before it: whatever else fails and however
\* processes overlap, the target is not left without its service.
ServiceComesBack ==
  service = "down" => hurt \/ \E p \in Procs : pc[p] = "upload"

\* Files are copied while the service is stopped.
UploadsWhileStopped ==
  \A p \in Procs : pc[p] = "upload" /\ clean => service = "down"

\* When the daemon waits after a deployment in which nothing failed, the branch
\* of the newest webhook is built, with the commit it was sent for or a later
\* one. A deployment for a change of the log or by hand does not undo that.
Settled == Quiet /\ clean /\ ~ready /\ wanted # None
LastPushIsBuilt ==
  Settled =>
    \E c \in wanted.commit..head[wanted.branch] : build = Output[<<wanted.branch, c>>]

\* The same, if the whole name of the branch was handed over and the clone knew the
\* branch when its webhook came: with git checkout before git pull both are needed.
\* Of feature/x the branch x is built, or the one that was checked out before.
Found == wanted.known /\ Cut[wanted.branch] = wanted.branch
KnownPushIsBuilt == Found => LastPushIsBuilt

\* A file of which the content last copied does not have the stored hash is going to
\* be copied, or its copy failed, or a process died, compared or was overtaken before.
StoredIsOffered ==
  \A f \in Files : \/ stored[f] = Hashes(offered)[f]
                   \/ f \in missed
                   \/ \E p \in Procs : f \in todo[p]

\* What is built after a deployment has been handed to scp, as far as hashes show it:
\* what was copied last has the hashes of what is built.
BuiltIsOffered ==
  Settled => \A f \in Files \ missed : Hashes(offered)[f] = Hashes(build)[f]

\* The same of the contents, which needs hashes that tell them apart (SoDiff).
BuiltIsCopied == Settled => \A f \in Files \ missed : offered[f] = build[f]
HashesTell == \A x, y \in Contents : Md5Of[x] = Md5Of[y] => x = y

\* A step of Mirror or none: what a deployment has copied, or is about to copy of
\* what is built, has the hashes that copying all files would leave. Once nothing
\* fails and every stored hash is that of a copy, it stays so.
Promised == [f \in Files |-> IF \E p \in Procs : f \in todo[p] THEN build[f] ELSE offered[f]]
Uploads == INSTANCE Mirror WITH Values <- Md5s, built <- Hashes(build),
                                mirror <- Hashes(Promised)

CopyingDiffsIsCopyingAll ==
  [][clean /\ clean' /\ missed = {} /\ missed' = {} => [Uploads!Next]_(Uploads!vars)]_vars

\* A file that was uploaded is on the target.
UploadedIsOnTarget == target = offered

(* Why they hold. *)

\* Without a fault only one process deploys, files wait to be copied only between
\* its diff and its start of the service, and only the daemon waits for triggers.
Alone ==
  /\ clean => \A p, q \in Procs : Deploying(p) /\ Deploying(q) => p = q
  /\ \A p \in Procs : todo[p] # {} => pc[p] \in {"stop", "upload"}
  /\ \A p \in Procs : pc[p] = "wait" => p \in Daemons

\* The shared string is the name cut from the branch of the newest webhook, as long
\* as the daemon that got it lives; the clone never loses commits.
SlotIsWanted ==
  wanted # None => /\ wanted.branch \in Branches /\ slot = Cut[wanted.branch]
                   /\ wanted.commit \in 1..head[wanted.branch]
                   /\ wanted.known => local[wanted.branch] > 0
                   /\ \E p \in Daemons : pc[p] # "off"

\* What the daemon has reached of the newest webhook, unless it will begin again:
\* its branch if that could be checked out, all files, and their hashes.
After(p, labels) == p \in Daemons /\ pc[p] \in labels \cup {"stop", "upload", "wait"}
Progress ==
  clean /\ ~ready /\ wanted # None =>
    \A p \in Procs :
      /\ Found =>
           /\ After(p, {"pull", "compile", "diff"}) => at = slot
           /\ After(p, {"compile", "diff"}) => wanted.commit <= local[slot]
           /\ After(p, {"diff"}) => \E n \in wanted.commit..head[slot] : build = Output[<<slot, n>>]
      /\ After(p, {"diff"}) => \A f \in Files : build[f] # Absent
      /\ After(p, {}) /\ (\A q \in Procs : pc[q] # "diff") => stored = Hashes(build)

\* The inductive invariant, whatever fails and whatever git knows.
DeployInv == /\ TypeOK /\ Alone /\ SlotIsWanted /\ Progress
             /\ ServiceComesBack /\ UploadsWhileStopped /\ StoredIsOffered
=============================================================================
