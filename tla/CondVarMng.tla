----------------------------- MODULE CondVarMng -----------------------------
(***************************************************************************)
(* The event thread (event_service) hands work to the deploy thread (the   *)
(* loop around deploy_by_notify in main) through the singleton CondVarMng: *)
(* a mutex, a condition variable, the flag ready and one shared string,    *)
(* the branch of the last accepted webhook. This module has one step per   *)
(* point where the threads can interleave: a critical section is entered   *)
(* in one step and left in the step that finishes its body, and the copy   *)
(* of the string is apart because deploy() makes it without the lock.      *)
(*                                                                         *)
(* A trigger is a webhook that passed http_body_pred or an IN_MODIFY       *)
(* record. Triggers are numbered as the event thread accepts them, and a   *)
(* branch string is represented by the number of the webhook it came from; *)
(* 0 is the empty string the program starts with.                          *)
(***************************************************************************)
EXTENDS Naturals

CONSTANTS MaxTriggers,  \* bound on the triggers accepted
          Torn          \* a copy of the string made while it is assigned

ASSUME TriggersAssumption == MaxTriggers \in Nat /\ Torn \notin Nat

VARIABLES mutex, ready, branch,   \* CondVarMng: owner of m, ready, *ptr
          dpc, checkout,          \* deploy thread: position, branch it copied
          epc, request,           \* event thread: position, webhook (0: file)
          accepted, hooks,        \* history: triggers accepted, which are webhooks
          covered, deployed       \* history: triggers signalled before the last
                                  \* deployment started, before the last finished

dvars == <<dpc, checkout, covered, deployed>>
evars == <<epc, request, accepted, hooks>>
vars  == <<mutex, ready, branch, dvars, evars>>

\* The triggers for which set_ready(true) has been executed.
InFlight == epc \in {"lock", "assign", "signal"}
Signalled == IF InFlight THEN accepted - 1 ELSE accepted

Init == /\ mutex = "free" /\ ready = FALSE /\ branch = 0
        /\ dpc = "lock" /\ checkout = 0 /\ covered = 0 /\ deployed = 0
        /\ epc = "idle" /\ request = 0 /\ accepted = 0 /\ hooks = {}
-----------------------------------------------------------------------------
(* The event thread *)

\* Accept a trigger: from here on a webhook has been answered with 200.
Accept(r) == /\ epc = "idle" /\ accepted < MaxTriggers
             /\ epc' = "lock"
             /\ request' = r
             /\ accepted' = accepted + 1
             /\ UNCHANGED <<mutex, ready, branch, dvars>>

\* handle_http_event, up to the point where pred holds
AcceptWebhook == Accept(accepted + 1) /\ hooks' = hooks \cup {accepted + 1}

\* handle_file_notify: the next record read has IN_MODIFY
AcceptModifyAsHook == Accept(accepted + 1) /\ UNCHANGED hooks
AcceptModify == Accept(0) /\ UNCHANGED hooks

\* Only a webhook brings a branch.
KeepOldBranch == request = 0 \/ ready
NoBranchToAssign == request = 0

LockEvent == /\ epc = "lock" /\ mutex = "free"
             /\ mutex' = "event"
             /\ epc' = IF NoBranchToAssign THEN "signal" ELSE "assign"
             /\ UNCHANGED <<ready, branch, dvars, request, accepted, hooks>>

\* The end of *which_branch = data.branch; it is under way while epc = "assign".
AssignBranch == /\ epc = "assign"
                /\ branch' = request
                /\ epc' = "signal"
                /\ UNCHANGED <<mutex, ready, dvars, request, accepted, hooks>>

\* notify_one: where it leaves the deploy thread
LostNotify == dpc
NotifyOne == IF dpc = "blocked" THEN "lock" ELSE dpc

\* set_ready(true), notify_one, and the lock_guard's destructor
Signal == /\ epc = "signal"
          /\ ready' = TRUE
          /\ dpc' = NotifyOne
          /\ mutex' = "free"
          /\ epc' = "idle"
          /\ UNCHANGED <<branch, checkout, covered, deployed, request, accepted, hooks>>

\* A failed epoll_ctl, accept or read: exit(EXIT_FAILURE), outside the lock.
Exit == /\ epc = "idle"
        /\ epc' = "exit"
        /\ UNCHANGED <<mutex, ready, branch, dvars, request, accepted, hooks>>

\* exit() destroys the static CondVarMng, whose condition variable has to be
\* rid of its waiters before pthread_cond_destroy returns; then all threads end.
Terminate == /\ epc = "exit" /\ dpc # "blocked"
             /\ epc' = "gone"
             /\ UNCHANGED <<mutex, ready, branch, dvars, request, accepted, hooks>>
-----------------------------------------------------------------------------
(* The deploy thread *)

\* Entering unique_lock's constructor, or wait() taking the lock again.
LockDeploy == /\ epc # "gone"
              /\ dpc = "lock" /\ mutex = "free"
              /\ mutex' = "deploy"
              /\ dpc' = "test"
              /\ UNCHANGED <<ready, branch, checkout, covered, deployed, evars>>

\* The predicate of wait(), tested with the lock held.
NoPredicate == TRUE
GetReady == ready

\* wait(lk, get_ready): sleep without the lock while ready is false ...
Wait == /\ epc # "gone"
        /\ dpc = "test" /\ ~GetReady
        /\ mutex' = "free"
        /\ dpc' = "blocked"
        /\ UNCHANGED <<ready, branch, checkout, covered, deployed, evars>>

\* ... and otherwise set_ready(false) and lk.unlock().
TakeAndKeepLock == /\ epc # "gone"
                   /\ dpc = "test" /\ GetReady
                   /\ ready' = FALSE
                   /\ covered' = Signalled
                   /\ dpc' = "pre"
                   /\ UNCHANGED <<mutex, branch, checkout, deployed, evars>>
Take == /\ epc # "gone"
        /\ dpc = "test" /\ GetReady
        /\ ready' = FALSE
        /\ mutex' = "free"
        /\ covered' = Signalled
        /\ dpc' = "pre"
        /\ UNCHANGED <<branch, checkout, deployed, evars>>

\* A condition variable may wake without being notified.
SpuriousWakeup == /\ epc # "gone"
                  /\ dpc = "blocked"
                  /\ dpc' = "lock"
                  /\ UNCHANGED <<mutex, ready, branch, checkout, covered, deployed, evars>>

\* After my_project_pre_compile_cmd, branch()->c_str() is copied without the
\* lock: a copy made during the assignment is the old string, the new or neither.
ReadBranch == /\ epc # "gone"
              /\ dpc = "pre"
              /\ checkout' \in IF epc = "assign" THEN {branch, request, Torn} ELSE {branch}
              /\ dpc' = "run"
              /\ UNCHANGED <<mutex, ready, branch, covered, deployed, evars>>

\* The rest of deploy(), then deploy_by_notify is called again.
FinishDeploy == /\ epc # "gone"
                /\ dpc = "run"
                /\ deployed' = covered
                /\ dpc' = "lock"
                /\ UNCHANGED <<mutex, ready, branch, checkout, covered, evars>>
-----------------------------------------------------------------------------
EventThread  == LockEvent \/ AssignBranch \/ Signal \/ Terminate
DeployThread == LockDeploy \/ Wait \/ Take \/ ReadBranch

Next == \/ AcceptWebhook \/ AcceptModify \/ Exit \/ EventThread
        \/ DeployThread \/ SpuriousWakeup \/ FinishDeploy

Spec == Init /\ [][Next]_vars

\* Both threads are scheduled and only finitely many wakeups are spurious; the
\* commands of a deployment may never return.
FairSpec == /\ Spec
            /\ WF_vars(EventThread) /\ WF_vars(DeployThread)
            /\ <>[][~SpuriousWakeup]_vars
-----------------------------------------------------------------------------
\* Types. The shared string is never anything but a branch some accepted
\* webhook named, or empty; history only counts triggers that were accepted.
TypeOK == /\ mutex \in {"free", "event", "deploy"}
          /\ ready \in BOOLEAN
          /\ dpc \in {"lock", "test", "blocked", "pre", "run"}
          /\ epc \in {"idle", "lock", "assign", "signal", "exit", "gone"}
          /\ accepted \in 0..MaxTriggers
          /\ hooks \subseteq 1..accepted
          /\ request \in hooks \cup {0}
          /\ branch \in hooks \cup {0}
          /\ checkout \in hooks \cup {0, Torn}
          /\ covered \in 0..accepted
          /\ deployed \in 0..covered

\* No lost wakeup: the deploy thread never sleeps in wait() while a trigger
\* that was signalled is not covered by a deployment that has started.
NoLostWakeup == dpc = "blocked" => covered = Signalled

\* The branch a deployment checks out is not older than any webhook it covers,
\* although the string is read after the lock was released.
FreshBranch == dpc = "run" /\ checkout # Torn =>
                 \A h \in hooks : h <= covered => h <= checkout

\* The mutex is held by exactly the thread whose position says so, and the
\* flag is up exactly when a signalled trigger is uncovered.
LockAndFlag == /\ mutex = "event" <=> epc \in {"assign", "signal"}
               /\ mutex = "deploy" <=> dpc = "test"
               /\ covered <= Signalled
               /\ ready <=> covered < Signalled

\* The string is at least as new as every webhook that was signalled, and the
\* webhook being signalled is the newest trigger and already in the string.
BranchOrder ==
  /\ InFlight => accepted > 0 /\ request \in {0, accepted}
  /\ InFlight /\ request = 0 => accepted \notin hooks
  /\ epc = "assign" => request # 0
  /\ epc = "signal" /\ request # 0 => branch = request
  /\ \A h \in hooks : h <= Signalled => h <= branch

\* The inductive invariant of the hand-over.
HandoverInv == TypeOK /\ LockAndFlag /\ BranchOrder /\ NoLostWakeup /\ FreshBranch

\* The event thread gets past the lock even if a deployment never ends: it is
\* not held during deploy(), so webhooks are still answered.
EventThreadProgress == epc = "lock" ~> epc = "idle"

\* Every trigger that was accepted is followed by a whole deployment that
\* started after it, unless a deployment never ends or the process exits.
EveryTriggerDeployed ==
  \A n \in 1..MaxTriggers :
    accepted >= n ~> deployed >= n \/ epc \in {"exit", "gone"} \/ [](dpc = "run")

\* The hand-over implements the merging queue of requests.
Queue == INSTANCE DeployQueue WITH
           requested <- Signalled, started <- covered, finished <- deployed,
           running <- dpc \in {"pre", "run"}, up <- epc # "gone"
QueueSpec == Queue!FairSpec

\* "git checkout" is given the name of a branch: never a half-written string.
CheckoutNamesABranch == dpc = "run" => checkout # Torn

\* exit(EXIT_FAILURE) ends the process, unless the deploy thread has nothing to
\* do and sleeps in wait(), by then or before the process is gone: nobody wakes it,
\* and the process stays. It does not stay with a trigger undeployed.
ExitWaitsForTheSleeper ==
  epc = "exit" ~> epc = "gone" \/ (dpc = "blocked" /\ covered = Signalled)
=============================================================================
