# tiny_cicd in TLA+

tiny_cicd is a small C++ program that deploys a project of shared libraries: it
checks out a branch, compiles it, finds out which `.so` files changed since the
last time, and copies those to a target machine between a stop and a start of
the service there. It does so once (`-u`), only compares (`-c`), or runs as a
daemon (`-x`) that is triggered by GitLab webhooks and by changes of a log file.
This directory holds TLA+ models of its logic, the TLC runs that check them and
the proofs TLAPS checks.

## The system

| Part | State | Operations | Talks to |
|---|---|---|---|
| `main`, `parse_cmd_arg` (main.cpp, cicd_cmd.cpp) | `CmdOpts` | choose `-c`, `-u`, `-x` in that order of precedence; `-x` starts the two threads | everything |
| Event thread: `event_service`, `handle_file_notify`, `handle_http_event` (server.cpp) | epoll set, listening socket, inotify descriptor, one descriptor per client | accept, read the inotify records, read a request, answer 200 or 400 | deploy thread through `CondVarMng` |
| Webhook parsing: `my_body_callback`, `http_body_pred` (server.cpp) | `CustomerData`, on the stack | branch, user and message out of the JSON body; is it a trigger? | event thread |
| `CondVarMng` (server.h) | mutex `m`, condition variable `cv`, flag `ready`, shared string `*ptr` (the branch) | `set_ready`, `get_ready`, wait, notify | both threads |
| Deploy thread: `deploy_by_notify`, `deploy` (cicd_cmd.cpp) | working directory, commands run by a shell | pre-compile command, `git checkout`, `git pull`, compile, diff, ssh stop, scp each, ssh start | target machine, `fetch_new_diff_so` |
| `fetch_new_diff_so` (file_utils.cpp) | none | hash the files, read the last hashes, insert the new ones, compare | `DbUtils` |
| `DbUtils` (db_utils.cpp) | table `md5s(id, version, name, md5)` in a file; static members `version`, `file_md5s` | create table, select last version, select its hashes, insert | SQLite |
| SQLite, json11, http_parser, md5 | vendored | | |

What is hard here:

* two threads share a flag, a lock, a condition variable and a string, and the
  string is read without the lock; they also share the table of descriptors, and
  the commands one thread starts inherit the connections of the other;
* a daemon, single deployments and comparisons share one clone, one database and
  one target, each with static state of its own that lives as long as its process;
* every statement of the database, command and system call can fail, and most
  results are ignored; a process can die between any two of them;
* a request comes in pieces, of which one `recv` returns what there is;
* what a string or a file is told by is a part of it: the last segment of a
  branch, cut to 32 characters, and the hash of the first bytes of a file;
* versions are minutes of local time.

What makes each part correct:

* hand-over: no trigger is lost, triggers during a deployment are merged into
  the next one, a deployment checks out the branch of the newest webhook it
  covers, the event thread is never held up by a deployment, an exit ends the
  process;
* diff: a file that is left out of an upload has on the target the content it
  has here (the code keeps this for the first bytes only); only files that differ
  are uploaded; errors make a run upload more;
* event loop: an event is handled for the file it happened to, a client that
  sends something is served whatever the others do, and the descriptors suffice;
* webhook: a request is judged whole or not at all, on what was sent;
* pipeline: files are copied while the service is stopped, the service comes
  back, and what was pushed last is what is built and copied.

`PROJECT.json` lists every hazard at its line.

## Modules

| Module | What it is |
|---|---|
| `DeployQueue` | Abstract: a queue of requests that are merged by the deployment that starts next |
| `CondVarMng` | The hand-over in detail: both threads, the lock, the flag, the string, `exit()` |
| `EventLoop` | `event_service` with epoll, its clients and the descriptors it shares with the deploy thread; its triggers go into `DeployQueue` |
| `Verdict` | Abstract: a webhook has one outcome, once, and an accepted one that is wanted deploys the branch pushed, if its name is plain |
| `Webhook` | `handle_http_event` for one request: pieces, `recv`, body callbacks, answer, trigger |
| `Deploy` | `main` and `deploy()`: the commands of all processes on clone, database and target |
| `Mirror` | Abstract: a deployment puts all files of the last build on the target, or none |
| `SoDiff` | `fetch_new_diff_so` and `DbUtils`, run by processes of all three modes |
| `MCSoDiff`, `MCWebhook`, `MCDeploy` | Instances for TLC |
| `CondVarMngProofs`, `EventLoopProofs`, `WebhookProofs`, `DeployProofs`, `SoDiffProofs` | The invariants and refinements, proved |

Each module leaves to another what that one details. `EventLoop` takes the
hand-over as the queue that `CondVarMng` is shown to implement, and which it
implements in turn, and a request as sent or not, which `Webhook` details.
`Webhook` shows the rest of the system no more than `Verdict` does. `Deploy` takes the hand-over, the diff and
each command as one step; `CondVarMng` and `SoDiff` detail the first two;
`SoDiff` implements `Mirror`, and so do the undisturbed steps of `Deploy`.

### CondVarMng

`mutex`, `ready` and `branch` are `CondVarMng`'s `m`, `ready` and `*ptr`; `epc`
and `dpc` are the positions of the two threads. A step is a stretch of code in
which no other thread can interfere or be noticed:

| Action | Code |
|---|---|
| `AcceptWebhook` | `handle_http_event` up to the point where `pred` holds; the 200 is sent |
| `AcceptModify` | `handle_file_notify`, a record with `IN_MODIFY` |
| `LockEvent`, `AssignBranch`, `Signal` | the `lock_guard` block of either handler; only a webhook assigns the branch |
| `LockDeploy`, `Wait`, `Take`, `SpuriousWakeup` | `deploy_by_notify` up to `lk.unlock()`; `GetReady` is the predicate of `wait` |
| `ReadBranch` | the copy `branch()->c_str()` in `deploy`, without the lock |
| `FinishDeploy` | the rest of `deploy` |
| `Exit`, `Terminate` | `exit(EXIT_FAILURE)` on the event thread, and the end of the process |

Triggers are numbered in the order they are accepted, and a branch is the number
of the webhook that named it: branches are only passed on, so their text makes no
difference, and the number tells which of two is newer. The data race in
`ReadBranch` is a choice between the old branch, the new one and `Torn`.
`std::condition_variable` may wake spuriously, and so does the model's. When the
event thread calls `exit`, the static `CondVarMng` is destroyed, and with the
GNU C++ library the destructor of its condition variable waits until no thread
sleeps in it (`pthread_cond_destroy`): `Terminate` is enabled when the deploy
thread does not. (With a library whose condition variables have a trivial
destructor the process would end at once.)

`Signalled` is the number of triggers for which `set_ready(true)` was executed,
`covered` the number that were when the last deployment started, `deployed` the
same for the last that ended. The refinement mapping to `DeployQueue` is
`requested <- Signalled`, `started <- covered`, `finished <- deployed`.

### SoDiff

A run of `fetch_new_diff_so` is the sequence `Start` (a build leaves some files
and they are hashed), `CreateTable`, `SelectLastVersion`, `SelectLastFileMd5s`,
one `InsertRow` per file, `Finish` (comparison and, unless `-c`, upload). The
three `select` and `create` statements can fail (`ReadError`, after some rows
were read), an insert can (`InsertError`), the process can die (`Crash`), be
restarted (`Restart`), and the clock moves (`Tick`, `ClockBack`).

| Variable | Code |
|---|---|
| `disk` | the files under `sub_so_dir`, by their content |
| `table` | table `md5s`: for a version and a file the hash in the last such row. Rows are only added, and a query reads them in the order of insertion into a `std::map`, so an earlier row for the same version and file is never seen |
| `minute` | local time, to the minute |
| `version`, `file_md5s` | the static members of `DbUtils`, per process; version 0 is the initial value, under which nothing is stored |
| `new_md5s`, `last_md5s`, `rc`, `todo`, `stamp` | the locals of a run: the two maps, the ignored return code, rows still to insert, the version they get |
| `offered` | history: content of a file when it was last uploaded |
| `known`, `runs`, `alone` | history: hashes of earlier runs, number of runs, whether the last run overlapped another |

A file is a model value, and what a build does is any choice of files and
contents: the properties do not depend on names or bytes. `Md5Of` gives the hash
of a content, and is not injective: `calc_file_md5` reads with `readsome` and stops
at the first short read, which with the GNU C++ library is the end of what the
stream buffers first, so it hashes the first 8191 bytes of a file. `Hashes` is
`calc_dir_file_md5s`, and `Sent` what it would give for the files as they were
uploaded. A file that cannot be read gets the empty hash in the code, which is
one more value of `Md5s`. `offered` says what a run hands to
`upload_project_files` with the content the file has then; whether scp copies it
is `Deploy`'s matter. `Faults` names what may happen besides the regular steps,
so that each run says what it assumes.

There are two refinement mappings to `Mirror`. That of hashes, `built <- Hashes(disk)`
and `mirror <- Sent`, is the one that holds (`MirrorSpec`). That of contents,
`built <- disk` and `mirror <- offered` (`ContentMirror`), needs `HashesTell`: that no two contents that
occur have the same hash. The code does not see to that, as `prefix_hash` shows.

### EventLoop

`fds` is the table of descriptors, counted from the listening socket on (those
below it never change); a new one is the lowest that is free. `interest` is what
epoll keeps: pairs of a descriptor number and the file it denoted at
`EPOLL_CTL_ADD`. The kernel drops a pair only at `EPOLL_CTL_DEL` or when the
last reference to the file is closed, and a command started with `popen`
inherits a reference to every open connection (`held`). `batch` is the part of
`evs` that is still to be handled; it holds up to `MaxEvents` of the events that
were ready. `call` says which call the deploy thread is in that has descriptors
for a time, and `own` which they are.

| Action | Code |
|---|---|
| `EpollWait` | `epoll_wait` returns |
| `HangUp` | `EPOLLERR`, `EPOLLHUP`: `close` without `EPOLL_CTL_DEL` |
| `AcceptClient`, `AcceptError` | `accept` and `EPOLL_CTL_ADD`, or `exit` when no descriptor is left |
| `NotifyEvent`, `ReadModify`, `ReadNothing` | `handle_file_notify` reads records until there are none |
| `HandleHttpEvent` | `handle_http_event`, then `EPOLL_CTL_DEL` and `close` |
| `StartDeploy`, `FinishDeploy` | a deployment begins and ends |
| `Popen`, `Fork`, `EndCommand` | `my_system`: `popen` takes the two ends of a pipe, forks the command and closes the end that the command writes to; `pclose` |
| `PopenError` | there are no two descriptors for the pipe: `popen` returns `NULL`, and `fgets(NULL)` kills the daemon |
| `ScanDirectory` | `opendir` without `closedir`, once for each directory of the tree under `sub_so_dir` |
| `OpenFiles`, `CloseFiles` | a file that is hashed, or the journal SQLite writes beside the database and the directory it is in |
| `Connect`, `Send`, `Reset`, `Modify` | clients, and whoever writes the log |

A handler is one step: its calls concern one connection, whose descriptor nobody
else uses. `conn`, `sent` and
`broken` say of a client whether it is connected, has sent something or closed
its side, and has reset the connection; `ticket` is the request its push became.
`scanned` counts the directories the deployment has read; how deep the tree is on which day is
any number up to `MaxDirs`, and a directory that cannot be opened ends the reading
of what is below it (`Reads`).

`popen` is three steps because the two threads take and give back descriptors between them:
the pipe, the fork with the close of one end, and the end of the command. A `recv`
on a connection that was reset may fail or still return what had arrived before
(`Outcomes`). The database is opened by `main`, and so is among the descriptors
below the listening socket, as are standard input and output. The file of the
time zone, which the C library opens once, at the first `gmtime`, and closes again, is left out.

### Webhook

One request: a header and a body in parts, each part one piece. `parts` says into
how many the body was cut, `ends` after which a chunk ends (one chunk for a request with
a `Content-Length`). Pieces arrive until `Recv`, which returns what
there is, at most `BufParts`. `http_parser_execute` calls `my_body_callback` once
for the rest of a chunk or what there is of it (`EndsCallback`), which is the
behaviour of the states `s_body_identity` and `s_chunk_data`. A body is one JSON
object, so its first part alone is not JSON, and any later part may happen to be
one but then has no commits (`MayBeJson`): json11 gives an empty array,
and `commits[0]` of it is a null reference. A ref is the sequence of its segments
between slashes and `Clip` the cut to the 32 characters of a field.

The refinement mapping to `Verdict` is `pushed <- Pushed`, the branch of the push, `wanted <- IsWanted`,
whether its uncut branch, user or first message is one to deploy for, `outcome <- Outcome`,
which is pending until the handler returns or dies, and `deployed <- trigger`. So neither that the 200 is written
before the predicate is asked, nor in how many callbacks a body was parsed, can be told from outside.
What is handed over is the last segment of the ref, cut to 32 characters, so that a
push to `feature/x` deploys `x`. `Verdict` therefore promises that the branch pushed is the one
deployed only for a plain name, of one segment that is not cut (`Plain`); `Pushed` is `None`
for all others, and of these `Verdict` says that the outcome comes once, and nothing of the branch.

### Deploy

| Action | Code |
|---|---|
| `Launch` | `main`: `-c` before `-u` before `-x` |
| `Take` | `deploy_by_notify` |
| `Checkout`, `Pull` | `pull_project_source`; the branch is the shared string, empty in a process that is no daemon |
| `Compile` | `compile_project`; it may write the watched log |
| `DeployDiff`, `CompareDiff` | `fetch_new_diff_so` called by `deploy` or for `-c` |
| `StopService`, `Upload`, `StartService` | the ssh and scp commands of `deploy` |
| `Crash` | the process ends; the daemon forgets flag and branch |
| `Push`, `Webhook`, `Modify` | GitLab and the log |

A commit is a branch and a number; `Output` says what it compiles to, by content, and
`Md5Of` is the hash of a content, as in `SoDiff`: `stored` has hashes, `build`, `target` and `offered` contents.
`Cut` is the name under which a branch is handed over, its last segment cut to 32 characters;
it may be that of another branch or of none, and what is no branch the clone has is not checked out. `at` and
`local` are the branch the clone has checked out and the commits it has, `slot`
and `ready` are `CondVarMng`'s. `wanted` is the newest webhook: its branch, its
commit, and whether the clone had that branch when it came. Every command named in `Faults` may fail, which
leaves what it was to change (a failed compilation changes some files); no result
is looked at. The history variable `clean` says that since the last deployment
began nothing failed and no two processes overlapped, `hurt` that a start of the
service was missed or failed, `offered` what each file was when it was last handed to a scp that worked, and `missed` for which files the stored hash is not that.
The mapping to `Mirror` is `built <- Hashes(build)` and `mirror <- Hashes(Promised)`: what a file was when it was last
handed to scp, or what it is if a process is going to hand it over. `Scp` puts the words of the command together as the
code does, so that its operands can be counted.

## Runs

| Run | Module, configuration | Result | What it shows |
|---|---|---|---|
| `handover` | `CondVarMng`, `MCHandover` | holds | `HandoverInv`, `NoLostWakeup` (the deploy thread never sleeps on a signalled trigger), `FreshBranch` (a deployment checks out no branch older than a webhook it covers, although it reads the string late), `EventThreadProgress` (the event thread gets past the lock even if a deployment never ends), `EveryTriggerDeployed`, `QueueSpec` (the queue with its fairness is implemented), `ExitWaitsForTheSleeper` (an exit is held up only by a deploy thread that has nothing to do) |
| `torn_branch` | `CondVarMng`, `MCTornBranch` | violated | `CheckoutNamesABranch`: a webhook that is accepted between `Take` and `ReadBranch` writes the string while it is copied |
| `daemon_diff` | `MCSoDiff`, `MCDaemonDiff` | holds | A daemon without faults uploads all files whose hash differs from that of what it last uploaded (`UploadsCoverChanges`) and no others (`NoNeedlessUpload`); of the hashes it implements `Mirror` (`MirrorSpec`) |
| `faulty_diff` | `MCSoDiff`, `MCFaultyDiff` | holds | With every fault a single process can meet: `ReadErrorOffersAll` (a failed read makes a run upload everything) and `FreshHashIsOffered` (a file with a hash no earlier run has found of it is uploaded) |
| `prefix_hash` | `MCSoDiff`, `MCPrefixHash` | violated | `ChangedFilesAreUploaded`: a daemon in which nothing fails leaves out a file that changed behind the bytes that are hashed |
| `compare_diff` | `MCSoDiff`, `MCCompareDiff` | violated | `UploadsCoverChanges`: `-c` stores the new hashes, so the deployment after it leaves the changed files out |
| `event_loop` | `EventLoop`, `MCEventLoop` | holds | `NoStaleEvent` (an event is handled for the file it happened to), `OnlyResetIsDropped` (a connection is closed unanswered only if its client reset it), `ExitTakesDeployments` (`accept` or `popen` ends the daemon for want of a descriptor only when the directories of the deployments so far, the connections and two descriptors of a call fill the table), `LoopInv`, `EveryClientServed`, `AnsweredIsDeployed` |
| `stale_registration` | `EventLoop`, `MCStaleRegistration` | violated | `OnlyResetIsDropped`: a connection that a command has inherited is reset and closed, but stays registered; its next event closes the client that got the number of its descriptor |
| `webhook` | `MCWebhook`, `MCWebhook` | holds | `OkMeansWhole`, `JudgedAsSent` (the verdict is that on the uncut strings; what is handed over is the last segment, cut), `RefusedMeansSplit` (400 only if the body did not come in one chunk with one `recv`), `DiesOnlyWithoutCommits`, `WebhookInv`, `OneVerdict` (`Verdict` is implemented) |
| `deploy` | `MCDeploy`, `MCDeploy` | holds | `ServiceComesBack`, `UploadsWhileStopped`, `KnownPushIsBuilt` (when the daemon waits after an undisturbed deployment, the branch of the newest webhook is built, at its commit or a later one, whatever was deployed by hand or for the log before, if the clone knew that branch and its whole name was handed over), `StoredIsOffered` (a stored hash is that of what was last copied, except for files still to be copied or missed), `BuiltIsOffered` (the same of what an undisturbed deployment built), `DeployInv`, `CopyingDiffsIsCopyingAll` (while nothing fails, and once every stored hash is that of a copy, each step is one of `Mirror` for hashes) |
| `new_branch` | `MCDeploy`, `MCNewBranch` | violated | `LastPushIsBuilt`: a branch pushed for the first time is checked out before it is fetched |
| `scp_operands` | `MCDeploy`, `MCScpOperands` | violated | `UploadedIsOnTarget`: source and target of scp are one word |

Every module with a run also has its type invariant `TypeOK` checked. The
findings in `PROJECT.json` quote what the repository says against each violated
property. That a push to `feature/x` deploys `x` has no run of its own: it is stated by
`JudgedAsSent`, and by the condition `Found` of `KnownPushIsBuilt`, which `deploy` checks with a branch
of that kind. The code can violate `UploadsCoverChanges` in five more ways, which `Orderly` (below) excludes and
which `SoDiff` has as faults: the static map of a daemon mixes hashes of
old versions into the last one when another process ran in between; the highest
version is not the last after the clock was set back (`clock_back`); a process
that dies between insert and upload leaves hashes of files that are not on the target (`late_crash`);
a daemon that uploads a file but fails to insert its hash (`insert_error`), or inserts it but cannot read
the last hashes in the next run, in which the file is gone (`read_error`), keeps an older hash of it in the static
map and leaves the file out when it is again what it was then; a deployment started
during another replaces files the first has hashed but not uploaded (`overlap`).

### Bounds

* `handover`: one trigger can be in the hands of the event thread, one being
  deployed and one waiting to be, so `MaxTriggers = 5` includes every way two
  webhooks and a file event can be merged.
* `SoDiff`: a change is missed by storing a hash in one run, another in the
  second, losing one of them and returning to the first, hence `MaxRuns = 4` (3
  with every fault at once); two
  minutes give runs in the same and in different versions. Two files tell a version with
  some rows from one without, and four contents are two hashes with two contents each;
  all are only compared for equality, hence the symmetry. `daemon_diff` has 48,262 states,
  `faulty_diff` about 1,200,000; a daemon is the process with most state of its own, so that single deployments
  are left to the proofs.
* `event_loop`: two clients, both at a time if they like (`MaxOpen`), five
  descriptors beside the listening socket and inotify (`MaxFd = 6`), and one directory for
  each deployment (`MaxDirs`): enough for both connections and a pipe at first, and too few for `accept` or
  `popen` after deployments for the webhook and the two changes of the log, which leave three directories open. The second client gets
  the number of the first or of a pipe. Two events at a time and
  three files ready show that a batch need not hold all. 324,460 states.
  `stale_registration` has a table of five, where the numbers are reused sooner. Trees with more directories
  are left to the proof.
* `webhook`: a header and three parts, a buffer of three pieces, so that a request
  may arrive late, be too long, or be cut into up to three chunks; eleven names,
  among them one longer than a field.
* `deploy`: two branches, one of which is new to the clone, and the other has a slash and is handed over
  under the name of the first; two commits of each, and two files, one of which depends on
  the branch and the other on the commit; three contents, two of which have one hash, so that of one file
  no change of the commit is seen; a daemon, a `-u` and a `-c`, two
  launches and two triggers, which give every pair of processes that overlap,
  a deployment during another trigger, and a crash with a restart. 3,344,197 states. `new_branch` and
  `scp_operands` have two branches with plain names.

No run checks for deadlock: processes may exit or die, a request ends, and runs,
launches, triggers and clients are bounded.

### Fairness

`CondVarMng!FairSpec`: both threads are scheduled (`WF` of the steps of
each); nothing is assumed of the arrival of triggers, of `Exit` or of
`FinishDeploy`, whose shell commands may hang; only finitely many wakeups are
spurious, as the standard allows but no implementation does them without end.
`mutex` needs no strong fairness: between two critical sections the deploy
thread passes through `wait` or a deployment.

`EventLoop!FairSpec`: the event thread goes on (`WF` of its steps; each `recv` in it
is on a descriptor that is readable) and the deploy thread starts a deployment
when there is a request. Clients, the log and the commands of a deployment owe
nothing, and `AnsweredIsDeployed` excepts a deployment that runs for ever.

`SoDiff`, `Webhook` and `Deploy` have only safety properties: whether a deployment
ends is up to its commands, and without their end nothing of `Deploy` is promised
but what its invariants say.

## Proofs

`CondVarMngProofs`, for every `MaxTriggers` and every `Torn` that is no number:

* `HandoverInvariant`: `Spec => []HandoverInv`. The invariant consists of `TypeOK`;
  `LockAndFlag`, which ties the mutex to the positions and `ready` to
  `covered < Signalled`; `BranchOrder`, which says that the string is at least as
  new as every signalled webhook; and the two properties `NoLostWakeup` and
  `FreshBranch`. Neither property is inductive alone: that a blocked thread has
  nothing to do follows from `ready` being false, which needs `LockAndFlag` and the
  notify in `Signal`; that the late copy is fresh enough needs that the string
  only ever gets newer, `BranchOrder`.
* `TypeCorrect`, `WakeupsAreNotLost`, `BranchIsFresh` follow from it.
* `HandoverImplementsQueue`: `Spec => Queue!Spec`; each step maps to a step of
  `DeployQueue` or changes nothing of it.

`SoDiffProofs`, for every set of files, hashes and processes, any number of runs
and any clock:

* `TypeCorrect`: `Spec => []TypeOK`, with every fault.
* `ErrorsOfferAll`: `Spec => []ReadErrorOffersAll`, with every fault, because the
  answer stays empty until all statements have succeeded (`ErrorMeansEmpty`).
* `DiffInvariant`: in the orderly uses `Spec => []DiffInv`, for any `Md5Of`. `Orderly` says: all
  processes are single deployments, or there is one daemon (which may be
  restarted) and reading never fails; no run overlaps another, dies after its
  first insert or has an insert fail; the clock is not set back. `DiffInv` says
  that outside the inserts what the last version says of a file, or else the
  static map, is the hash of what was uploaded (`MemoryMatchesTarget`), and during them that
  the rows done are the new hashes and the others are still right
  (`InsertMatchesTarget`). `SerialRuns` and `VersionRead` carry what these need of
  clock, positions and the version read.
* `UploadsCover` and `DiffIsMirror`: in the orderly uses `Spec => []UploadsCoverChanges`
  and `Spec => MirrorSpec`; `Finish` is a step `Deploy` of `Mirror` for hashes
  because by `DiffInv` what was uploaded of every file left out has the hash it has here.
* `ContentsUploaded` and `DiffIsContentMirror`: if moreover hashes tell contents apart
  (`HashesTell`), `Spec => []ChangedFilesAreUploaded` and `Spec => ContentMirror!Spec`. So hashing
  only the first bytes is all that keeps the orderly uses from uploading every change.
* `UploadsNeeded`: for a single daemon without faults (`Undisturbed`)
  `Spec => []NoNeedlessUpload`. Beyond `DiffInv`, whose entries are right, it
  needs that none is missing: `Remembered`.
* `FreshIsOffered`: if runs do not overlap, with every other fault and any
  processes, `Spec => []FreshHashIsOffered`, because every hash in the table
  and in the static maps is one that some run has seen (`StoredIsKnown`).

`WebhookProofs`, for every set of names and pushes, any number of parts and any size of
the buffer, without further assumptions: `WebhookCorrect` is `Spec => []WebhookInv`, and
`TypeCorrect`, `AcceptedWhole`, `VerdictCorrect`, `RefusalsExplained` and `DeathExplained`
give its parts. The properties need `FlagMeansWhole` (the flag is up only after
the whole body was parsed, and its fields are those of the push) and `ReadOnce`
(what is parsed is what one `recv` returned, and parsing fails only on a body that was split).
`WebhookIsVerdict`: `Spec => OneVerdict`. `Judge` is `Accepted` because the fields that
`FlagMeansWhole` says are there were cut without changing the verdict (`VerdictKept`), and a plain branch is
not cut at all,
`NoCommits` is `Fatal` because only the first part can be the whole body, `Refuse` and `RecvError` are
`TurnedDown`, and all other steps change nothing of `Verdict`.

`EventLoopProofs`, for every finite set of clients and any number of descriptors and directories:

* `TypeCorrect`: `Spec => []TypeOK`, with every fault; the listening socket and
  the inotify descriptor are never closed, because epoll reports hang-ups only of
  connections (`Places`).
* `DescriptorsCorrect`: `Spec => []DescriptorInv`, with every fault, also when a command keeps
  a connection that was reset. `Calls` says that the deploy thread has at most two descriptors for a time, and only
  while it is in a call; `Ownership` says that an open connection has exactly one descriptor
  and no other has any; `Capacity`, that there are never more than `MaxOpen` connections;
  `Leaks`, that every deployment so far has left at most `MaxDirs` directories open;
  `Tickets`, that a wanted push became a request of its own exactly when it was answered.
* `ExitIsLeak`: `Spec => []ExitTakesDeployments`, from it by counting. When `accept`
  finds no descriptor, each of the `MaxFd + 1` belongs to a connection, the listening socket, inotify, a
  directory or the call the deploy thread is in; the connections are at most `MaxOpen - 1` then, because the client that waits is one
  of the `MaxOpen`, the directories at most `MaxDirs * started`, and those of the call two (`AcceptErrorBound`).
  When `popen` does not find two, the call has none, and all but one belong to the others (`PopenErrorBound`).
  Either way `MaxFd <= MaxOpen + 2 + MaxDirs * started`.
* `AnswersAreRequests`: `Spec => []Tickets`; no two pushes share a request.
* `LoopImplementsQueue`: `Spec => Queue!Spec`, with every fault: seen through `requested`, `started` and
  `finished` the two threads are `DeployQueue`, which `CondVarMng` implements as well.
* `LoopCorrect`: if no command keeps a connection that is reset (`NoInheritedReset`,
  which `stale_registration` shows to be needed) `Spec => []LoopInv`. `Registrations`
  says beyond `DescriptorInv` that a registration names the file its
  descriptor denotes, that an event of the batch is the only one for its descriptor, and that
  nobody else closes a descriptor the deploy thread has for a time.
* `EventsAreFresh` and `DroppedWasReset` follow.

`DeployProofs`, for every set of branches, files and processes, any `Output` and every fault:

* `TypeCorrect`, `ServiceReturns` (`ServiceComesBack`), `CopiesAreStopped`
  (`UploadsWhileStopped`, from `OneDeploys`: `Spec => []Alone`) and
  `StoredHashesAreOffered` (`StoredIsOffered`).
* `DeployCorrect`: `Spec => []DeployInv`, whatever branches git knows and however their names are cut. `SlotIsWanted` says that
  the shared string is the name cut from the branch of the newest webhook, and that the clone has lost nothing of
  that branch since; `Progress`, what each position of an undisturbed deployment has reached of it:
  checked out, pulled and built if the branch was known and its name handed over whole (`Found`), and the hashes stored in any case.
* `KnownIsBuilt` (`KnownPushIsBuilt`) and `HashesAreCopied` (`BuiltIsOffered`) follow; and, if hashes tell contents
  apart (`HashesTell`), `BuildIsCopied`: `Spec => []BuiltIsCopied`, the same of contents.
* `PushedIsBuilt`: if git knows all branches (`Fetched = Branches`) and every name is handed over whole
  (`Cut[b] = b`) `Spec => []LastPushIsBuilt`, the property `new_branch` violates. So the deployments that nothing
  disturbs and that yet build the wrong branch are those for a branch that is new to the clone, or whose name has
  a slash or more than 32 characters.
* `DeployIsMirror`: `Spec => CopyingDiffsIsCopyingAll`. A diff hands over the files whose
  stored hash differs, and by `StoredIsOffered` the stored hash of any other file is that of its last
  copy, so it promises the hash of every built file; copying then keeps the promise.

Only model-checked, because they are liveness properties under fairness:
`EventThreadProgress`, `EveryTriggerDeployed`, `ExitWaitsForTheSleeper`, the fairness part of
`QueueSpec`, `EveryClientServed`, `AnsweredIsDeployed`.

## What is not modelled

* The vendored libraries, which are nearly all lines of the repository: SQLite
  alone has 237,000 of 243,000, beside json11, md5 and http_parser. They are not the
  program's own logic. SQLite is a table with atomic
  statements that may fail; MD5 is any function of the bytes that are hashed; json11 answers whether a
  part of a body is JSON; of http_parser only the framing of the body is modelled.
  Of the program's own
  functions those left out are `parse_cmd_arg`, `create_listen_fd`, `create_notify_fd`,
  `change_work_dir` and `my_project_pre_compile_cmd` (an `ls -t`).
* Wording of output, `Statistics`, the option texts, and the errors of system calls before
  the loop starts, which end the process.
* The working directory: with an absolute `-w` the repeated `change_work_dir` has no effect.
* The path and inode of the watched log. When the file is replaced there are no
  more events of it.
* `SIGPIPE`, when a client resets its connection between `recv` and the answer.
* The connection between the bytes a scp copies and a build that overwrites the
  file meanwhile: a copy is one step.
* Files changed by hand while a run hashes them.
