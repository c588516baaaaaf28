-------------------------- MODULE CondVarMngProofs --------------------------
(***************************************************************************)
(* Proofs about CondVarMng for every number of triggers: its invariants,   *)
(* by way of the inductive invariant HandoverInv, and that every step of   *)
(* the two threads is a step of the merging queue of requests.             *)
(***************************************************************************)
EXTENDS CondVarMng, TLAPS

\* At the start nothing is accepted, held or signalled.
LEMMA HandoverInit == Init => HandoverInv
<1> SUFFICES ASSUME Init PROVE HandoverInv
  OBVIOUS
<1> USE TriggersAssumption DEF Init, InFlight, Signalled
<1>1. covered \in 0..accepted /\ deployed \in 0..covered
  OBVIOUS
<1>2. TypeOK
  <2>1. checkout \in hooks \cup {0, Torn}
    OBVIOUS
  <2>2. mutex \in {"free", "event", "deploy"} /\ ready \in BOOLEAN
    OBVIOUS
  <2>3. QED
    BY <1>1, <2>1, <2>2 DEF TypeOK
<1>3. LockAndFlag
  BY DEF LockAndFlag
<1>4. BranchOrder /\ NoLostWakeup /\ FreshBranch
  BY DEF BranchOrder, NoLostWakeup, FreshBranch
<1>5. QED
  BY <1>2, <1>3, <1>4 DEF HandoverInv

\* The event thread's steps keep the invariant: it numbers triggers in order,
\* writes the string before it signals, and signals before it lets go of the lock.
LEMMA EventThreadStep ==
  HandoverInv /\ (AcceptWebhook \/ AcceptModify \/ Exit \/ EventThread) => HandoverInv'
<1> SUFFICES ASSUME HandoverInv, AcceptWebhook \/ AcceptModify \/ Exit \/ EventThread
             PROVE  HandoverInv'
  OBVIOUS
<1> USE TriggersAssumption
    DEF HandoverInv, TypeOK, LockAndFlag, BranchOrder, NoLostWakeup, FreshBranch,
        InFlight, Signalled, dvars
<1>1. CASE AcceptWebhook
  BY <1>1 DEF AcceptWebhook, Accept
<1>2. CASE AcceptModify
  BY <1>2 DEF AcceptModify, Accept
<1>3. CASE LockEvent
  BY <1>3 DEF LockEvent, NoBranchToAssign
<1>4. CASE AssignBranch
  BY <1>4 DEF AssignBranch
<1>5. CASE Signal
  BY <1>5 DEF Signal, NotifyOne
<1>6. CASE Exit
  BY <1>6 DEF Exit
<1>7. CASE Terminate
  BY <1>7 DEF Terminate
<1>8. QED
  BY <1>1, <1>2, <1>3, <1>4, <1>5, <1>6, <1>7 DEF EventThread

\* The deploy thread's steps keep it: it sleeps and takes the flag only with
\* the lock, and what it copies later is not older than what it took.
LEMMA DeployThreadStep ==
  HandoverInv /\ (DeployThread \/ SpuriousWakeup \/ FinishDeploy) => HandoverInv'
<1> SUFFICES ASSUME HandoverInv, DeployThread \/ SpuriousWakeup \/ FinishDeploy
             PROVE  HandoverInv'
  OBVIOUS
<1> USE TriggersAssumption
    DEF HandoverInv, TypeOK, LockAndFlag, BranchOrder, NoLostWakeup, FreshBranch,
        InFlight, Signalled, evars
<1>1. CASE LockDeploy
  BY <1>1 DEF LockDeploy
<1>2. CASE Wait
  BY <1>2 DEF Wait, GetReady
<1>3. CASE Take
  <2>1. covered' \in 0..accepted /\ deployed \in 0..covered'
    BY <1>3 DEF Take, GetReady
  <2>2. TypeOK'
    BY <1>3, <2>1 DEF Take
  <2>3. LockAndFlag' /\ BranchOrder' /\ NoLostWakeup' /\ FreshBranch'
    BY <1>3 DEF Take, GetReady
  <2>4. QED
    BY <2>2, <2>3
<1>4. CASE ReadBranch
  BY <1>4 DEF ReadBranch
<1>5. CASE SpuriousWakeup
  BY <1>5 DEF SpuriousWakeup
<1>6. CASE FinishDeploy
  BY <1>6 DEF FinishDeploy
<1>7. QED
  BY <1>1, <1>2, <1>3, <1>4, <1>5, <1>6 DEF DeployThread

\* A step that changes nothing keeps it.
LEMMA HandoverStutter == HandoverInv /\ UNCHANGED vars => HandoverInv'
  BY DEF HandoverInv, TypeOK, LockAndFlag, BranchOrder, NoLostWakeup, FreshBranch,
     InFlight, Signalled, vars, dvars, evars

\* HandoverInv is an invariant of the hand-over between the two threads.
THEOREM HandoverInvariant == Spec => []HandoverInv
<1>1. HandoverInv /\ [Next]_vars => HandoverInv'
  BY EventThreadStep, DeployThreadStep, HandoverStutter DEF Next
<1>2. QED
  BY HandoverInit, <1>1, PTL DEF Spec

\* Types of CondVarMng, of both threads and of the branch string they share.
THEOREM TypeCorrect == Spec => []TypeOK
<1>1. HandoverInv => TypeOK
  BY DEF HandoverInv
<1>2. QED
  BY HandoverInvariant, <1>1, PTL

\* The deploy thread never sleeps in wait() on a trigger that was signalled.
THEOREM WakeupsAreNotLost == Spec => []NoLostWakeup
<1>1. HandoverInv => NoLostWakeup
  BY DEF HandoverInv
<1>2. QED
  BY HandoverInvariant, <1>1, PTL

\* A deployment never checks out a branch older than a webhook it covers.
THEOREM BranchIsFresh == Spec => []FreshBranch
<1>1. HandoverInv => FreshBranch
  BY DEF HandoverInv
<1>2. QED
  BY HandoverInvariant, <1>1, PTL

\* Under the mapping every step of the event thread is a request, the end of
\* the process, or invisible to the queue.
LEMMA EventThreadImplementsQueue ==
  HandoverInv /\ (AcceptWebhook \/ AcceptModify \/ Exit \/ EventThread)
    => [Queue!Next]_Queue!vars
<1> SUFFICES ASSUME HandoverInv, AcceptWebhook \/ AcceptModify \/ Exit \/ EventThread
             PROVE  [Queue!Next]_Queue!vars
  OBVIOUS
<1> USE TriggersAssumption
    DEF HandoverInv, TypeOK, LockAndFlag, InFlight, Signalled, dvars, Queue!vars
<1>1. CASE AcceptWebhook \/ AcceptModify
  BY <1>1 DEF AcceptWebhook, AcceptModify, Accept
<1>2. CASE LockEvent \/ AssignBranch
  BY <1>2 DEF LockEvent, AssignBranch, NoBranchToAssign
<1>3. CASE Signal
  <2>1. Queue!Request
    BY <1>3 DEF Signal, NotifyOne, Queue!Request
  <2>2. QED
    BY <2>1 DEF Queue!Next
<1>4. CASE Exit
  BY <1>4 DEF Exit
<1>5. CASE Terminate
  <2>1. Queue!Stop
    BY <1>5 DEF Terminate, Queue!Stop
  <2>2. QED
    BY <2>1 DEF Queue!Next
<1>6. QED
  BY <1>1, <1>2, <1>3, <1>4, <1>5 DEF EventThread

\* Every step of the deploy thread starts or finishes a deployment of the
\* queue, or is invisible to it.
LEMMA DeployThreadImplementsQueue ==
  HandoverInv /\ (DeployThread \/ SpuriousWakeup \/ FinishDeploy)
    => [Queue!Next]_Queue!vars
<1> SUFFICES ASSUME HandoverInv, DeployThread \/ SpuriousWakeup \/ FinishDeploy
             PROVE  [Queue!Next]_Queue!vars
  OBVIOUS
<1> USE TriggersAssumption
    DEF HandoverInv, TypeOK, LockAndFlag, InFlight, Signalled, evars, Queue!vars
<1>1. CASE LockDeploy \/ Wait \/ ReadBranch \/ SpuriousWakeup
  BY <1>1 DEF LockDeploy, Wait, ReadBranch, SpuriousWakeup, GetReady
<1>2. CASE Take
  <2>1. Queue!Start
    BY <1>2 DEF Take, GetReady, Queue!Start
  <2>2. QED
    BY <2>1 DEF Queue!Next
<1>3. CASE FinishDeploy
  <2>1. Queue!Finish
    BY <1>3 DEF FinishDeploy, Queue!Finish
  <2>2. QED
    BY <2>1 DEF Queue!Next
<1>4. QED
  BY <1>1, <1>2, <1>3 DEF DeployThread

\* The hand-over implements the merging queue: no signalled trigger is dropped,
\* no deployment starts without one, and deployments run one at a time.
THEOREM HandoverImplementsQueue == Spec => Queue!Spec
<1>1. Init => Queue!Init
  BY DEF Init, Queue!Init, Signalled, InFlight
<1>2. HandoverInv /\ UNCHANGED vars => UNCHANGED Queue!vars
  BY DEF vars, dvars, evars, Signalled, InFlight, Queue!vars
<1>3. HandoverInv /\ [Next]_vars => [Queue!Next]_Queue!vars
  BY <1>2, EventThreadImplementsQueue, DeployThreadImplementsQueue DEF Next
<1>4. QED
  BY <1>1, <1>3, HandoverInvariant, PTL DEF Spec, Queue!Spec
=============================================================================
