-------------------------- MODULE EventLoopProofs --------------------------
(***************************************************************************)
(* Proofs about EventLoop for every number of clients, descriptors, events *)
(* and changes: its types, with the two descriptors that are never closed, *)
(* how many deployments it takes to use up the descriptors, that its       *)
(* triggers are those of the queue, and, if no command keeps a reset       *)
(* connection, that events are handled for the file they happened to and   *)
(* that only a reset connection is dropped.                                *)
(***************************************************************************)
EXTENDS EventLoop, FiniteSetTheorems, TLAPS

\* What a request, a start, an end and a stop do to the queue.
LEMMA QueueTypes ==
  ASSUME requested \in Nat, started \in 0..requested, finished \in 0..started,
         running \in BOOLEAN, up \in BOOLEAN,
         Queue!Request \/ Queue!Start \/ Queue!Finish \/ Queue!Stop \/ UNCHANGED qvars
  PROVE  /\ requested' \in Nat /\ started' \in 0..requested' /\ finished' \in 0..started'
         /\ running' \in BOOLEAN /\ up' \in BOOLEAN
<1>1. /\ requested' \in Nat /\ started' \in 0..requested' /\ finished' \in 0..started'
  BY DEF Queue!Request, Queue!Start, Queue!Finish, Queue!Stop, qvars
<1>2. running' \in BOOLEAN
  BY Zenon DEF Queue!Request, Queue!Start, Queue!Finish, Queue!Stop, qvars
<1>3. up' \in BOOLEAN
  BY Zenon DEF Queue!Request, Queue!Start, Queue!Finish, Queue!Stop, qvars
<1>4. QED
  BY <1>1, <1>2, <1>3

\* Which steps touch the queue.
LEMMA QueueStep ==
  [Next]_vars => Queue!Request \/ Queue!Start \/ Queue!Finish \/ Queue!Stop \/ UNCHANGED qvars
BY DEF Next, EventThread, vars, Connect, Send, Reset, Modify, EpollWait, HangUp, AcceptClient,
       AcceptError, NotifyEvent, ReadModify, ReadNothing, HandleHttpEvent, HandOver,
       DeployThread, StartDeploy, Popen, PopenError, Fork, EndCommand, ScanDirectory,
       OpenFiles, CloseFiles, FinishDeploy

\* The deploy thread takes descriptors that are free for a call, and closes descriptors
\* it has taken, whatever they denote by then.
LEMMA TakeStep ==
  ASSUME Popen \/ OpenFiles
  PROVE  \E S \in SUBSET Fds, a \in Fds, b \in Fds :
           /\ S = {a, b}
           /\ \A fd \in S : fds[fd] = "free"
           /\ fds' = [fd \in Fds |-> IF fd \in S THEN "temp" ELSE fds[fd]]
           /\ own' = S /\ call = "none" /\ call' \in {"pipe", "files"}
           /\ up /\ running
           /\ UNCHANGED <<interest, held, clients, log, loop, batch, scanned, ticket, qvars>>
<1>1. CASE Popen
  BY <1>1 DEF Popen, AtCommand, Between, Take
<1>2. CASE OpenFiles
  BY <1>2 DEF OpenFiles, Between, Take
<1>3. QED
  BY <1>1, <1>2

LEMMA GiveBackStep ==
  ASSUME Fork \/ EndCommand \/ CloseFiles
  PROVE  \E S \in SUBSET own :
           /\ GiveBack(S)
           /\ interest' \subseteq interest
           /\ held' \subseteq Clients \cup held
           /\ UNCHANGED <<sent, broken, log, loop, batch, scanned, ticket, qvars>>
<1>1. CASE Fork
  BY <1>1 DEF Fork
<1>2. CASE EndCommand
  BY <1>2 DEF EndCommand
<1>3. CASE CloseFiles
  BY <1>3 DEF CloseFiles
<1>4. QED
  BY <1>1, <1>2, <1>3

\* Reading a directory takes one free descriptor, or none.
LEMMA ScanStep ==
  ASSUME ScanDirectory, fds \in [Fds -> Files \cup {"free"}]
  PROVE  fds' = fds \/ \E fd \in Fds : fds[fd] = "free" /\ fds' = [fds EXCEPT ![fd] = "dir"]
<1>1. fds' = [fd \in Fds |-> IF IsLowestFree(fd) THEN "dir" ELSE fds[fd]]
  BY DEF ScanDirectory
<1>2. CASE \E fd \in Fds : IsLowestFree(fd)
  <2>1. PICK fd \in Fds : IsLowestFree(fd)
    BY <1>2
  <2>2. \A g \in Fds : IsLowestFree(g) => g = fd
    BY <2>1, LoopAssumption DEF IsLowestFree, Fds
  <2>3. fds' = [fds EXCEPT ![fd] = "dir"]
    BY <1>1, <2>1, <2>2
  <2>4. QED
    BY <2>1, <2>3 DEF IsLowestFree
<1>3. CASE \A fd \in Fds : ~IsLowestFree(fd)
  BY <1>1, <1>3
<1>4. QED
  BY <1>2, <1>3

\* The parts of the type invariant that the kernel holds.
KernelOK == /\ fds \in [Fds -> Files \cup {"free"}]
            /\ fds[ListenFd] = "listen" /\ fds[NotifyFd] = "notify"
            /\ interest \subseteq Fds \X (Clients \cup {"listen", "notify"})
            /\ held \subseteq Clients
            /\ broken \subseteq Clients
            /\ own \subseteq Fds \ {ListenFd, NotifyFd}
            /\ batch \subseteq [fd : Fds, file : Clients \cup {"listen", "notify"},
                                hup : BOOLEAN]
            /\ Places

LEMMA KernelInit == Init => KernelOK
BY LoopAssumption DEF Init, KernelOK, Places, Fds, Files, ListenFd, NotifyFd

\* The socket and inotify are never reset, so their descriptors stay open.
LEMMA KernelStep == KernelOK /\ [Next]_vars => KernelOK'
<1> SUFFICES ASSUME KernelOK, [Next]_vars PROVE KernelOK'
  OBVIOUS
<1> USE LoopAssumption DEF KernelOK, Places, kernel, clients, Handle
<1>0. /\ ListenFd \in Fds /\ NotifyFd \in Fds /\ ListenFd # NotifyFd
      /\ "listen" \notin Clients /\ "notify" \notin Clients /\ "dir" \notin Clients
      /\ "free" \notin Clients /\ "temp" \notin Clients
  BY DEF Fds, ListenFd, NotifyFd
<1>1. CASE UNCHANGED <<fds, interest, held, broken, own>> /\ batch' \subseteq batch
  BY <1>1
<1>2. ASSUME NEW c \in Clients, Reset(c) PROVE KernelOK'
  BY <1>2 DEF Reset, deploy
<1>3. CASE EpollWait
  <2>1. batch' \subseteq ReadyEvents /\ UNCHANGED <<fds, interest, held, broken, own>>
    BY <1>3 DEF EpollWait, deploy
  <2>2. ASSUME NEW e \in ReadyEvents
        PROVE  /\ e \in [fd : Fds, file : Clients \cup {"listen", "notify"}, hup : BOOLEAN]
               /\ e.fd = ListenFd <=> e.file = "listen"
               /\ e.fd = NotifyFd <=> e.file = "notify"
               /\ e.hup => e.file \in broken
    <3>1. PICK r \in interest : e = [fd |-> r[1], file |-> r[2], hup |-> r[2] \in broken]
      BY DEF ReadyEvents
    <3> DEFINE h == r[2] \in broken
    <3>2. e = [fd |-> r[1], file |-> r[2], hup |-> h] /\ h \in BOOLEAN
      BY <3>1
    <3>3. h => r[2] \in broken
      OBVIOUS
    <3>4. r[1] \in Fds /\ r[2] \in Clients \cup {"listen", "notify"}
      OBVIOUS
    <3> HIDE DEF h
    <3>5. QED
      BY <3>2, <3>3, <3>4
  <2>3. QED
    BY <2>1, <2>2
<1>4. CASE HangUp
  <2>1. PICK e \in batch : Handle(e) /\ Hup(e) /\ Close(e.fd, interest)
    BY <1>4 DEF HangUp
  <2>2. e.fd # ListenFd /\ e.fd # NotifyFd /\ e.fd \in Fds
    BY <1>0, <2>1 DEF Hup
  <2>3. interest' \subseteq interest /\ fds' = [fds EXCEPT ![e.fd] = "free"] /\ held' = held
    BY <2>1 DEF Close, Forget
  <2>4. QED
    BY <1>4, <2>1, <2>2, <2>3 DEF HangUp, deploy
<1>5. CASE AcceptClient
  <2>1. PICK e \in batch, c \in Clients, fd \in Fds :
          /\ Handle(e) /\ IsLowestFree(fd)
          /\ fds' = [fds EXCEPT ![fd] = c] /\ Register(fd, c)
    BY <1>5 DEF AcceptClient
  <2>2. fd # ListenFd /\ fd # NotifyFd
    BY <2>1 DEF IsLowestFree
  <2>3. QED
    BY <1>0, <1>5, <2>1, <2>2 DEF AcceptClient, Register, Files, deploy
<1>6. CASE HandleHttpEvent
  <2>1. PICK e \in batch : /\ Handle(e) /\ e.fd \notin {ListenFd, NotifyFd}
                           /\ Close(e.fd, Delete(e.fd))
    BY <1>6 DEF HandleHttpEvent
  <2>2. interest' \subseteq interest /\ fds' = [fds EXCEPT ![e.fd] = "free"] /\ held' = held
    BY <2>1 DEF Close, Forget, Delete
  <2>3. QED
    BY <1>6, <2>1, <2>2 DEF HandleHttpEvent, deploy
<1>7. CASE ScanDirectory
  <2>1. fds' = fds \/ \E fd \in Fds : fds[fd] = "free" /\ fds' = [fds EXCEPT ![fd] = "dir"]
    BY <1>7, ScanStep
  <2>2. UNCHANGED <<interest, held, broken, own, batch>>
    BY <1>7 DEF ScanDirectory
  <2>3. CASE fds' = fds
    BY <2>2, <2>3
  <2>4. ASSUME NEW fd \in Fds, fds[fd] = "free", fds' = [fds EXCEPT ![fd] = "dir"]
        PROVE  KernelOK'
    <3>1. fd # ListenFd /\ fd # NotifyFd
      BY <2>4
    <3>2. QED
      BY <1>0, <2>2, <2>4, <3>1 DEF Files
  <2>5. QED
    BY <2>1, <2>3, <2>4
<1>8. CASE Popen \/ OpenFiles
  <2>1. PICK S \in SUBSET Fds :
          /\ \A fd \in S : fds[fd] = "free"
          /\ fds' = [fd \in Fds |-> IF fd \in S THEN "temp" ELSE fds[fd]]
          /\ own' = S
          /\ UNCHANGED <<interest, held, clients, batch>>
    BY <1>8, TakeStep, Zenon
  <2>2. ListenFd \notin S /\ NotifyFd \notin S
    BY <2>1
  <2>3. fds' \in [Fds -> Files \cup {"free"}]
    BY <2>1 DEF Files
  <2>4. \A fd \in Fds : fds'[fd] = "temp" \/ fds'[fd] = fds[fd]
    BY <2>1
  <2>5. QED
    BY <1>0, <2>1, <2>2, <2>3, <2>4
<1>9. CASE Fork \/ EndCommand \/ CloseFiles
  <2>1. PICK S \in SUBSET own : /\ GiveBack(S)
                                /\ interest' \subseteq interest
                                /\ held' \subseteq Clients \cup held
                                /\ UNCHANGED <<broken, batch>>
    BY <1>9, GiveBackStep, Zenon
  <2>2. ListenFd \notin S /\ NotifyFd \notin S /\ own' \subseteq own
    BY <2>1 DEF GiveBack
  <2>3. fds' \in [Fds -> Files \cup {"free"}]
    BY <2>1 DEF GiveBack
  <2>4. \A fd \in Fds : fds'[fd] = "free" \/ fds'[fd] = fds[fd]
    BY <2>1 DEF GiveBack
  <2>5. fds'[ListenFd] = "listen" /\ fds'[NotifyFd] = "notify"
    BY <1>0, <2>1, <2>2 DEF GiveBack
  <2>6. QED
    BY <1>0, <2>1, <2>2, <2>3, <2>4, <2>5
<1>10. CASE \/ \E c \in Clients : Connect(c) \/ Send(c)
            \/ Modify \/ AcceptError \/ NotifyEvent \/ ReadModify \/ ReadNothing
            \/ StartDeploy \/ PopenError \/ FinishDeploy \/ UNCHANGED vars
  <2>1. UNCHANGED <<fds, interest, held, broken, own>> /\ batch' \subseteq batch
    BY <1>10 DEF Connect, Send, Modify, AcceptError, NotifyEvent, ReadModify, ReadNothing,
                 StartDeploy, PopenError, FinishDeploy, deploy, vars
  <2>2. QED
    BY <1>1, <2>1
<1>11. QED
  BY <1>2, <1>3, <1>4, <1>5, <1>6, <1>7, <1>8, <1>9, <1>10
     DEF Next, EventThread, DeployThread

LEMMA TypeInit == Init => TypeOK
<1> SUFFICES ASSUME Init PROVE TypeOK
  OBVIOUS
<1>1. KernelOK
  BY KernelInit
<1>2. /\ conn \in [Clients -> {"new", "queued", "open", "answered", "dropped"}]
      /\ sent \subseteq Clients /\ made \in 0..MaxChanges /\ ticket \in [Clients -> Nat]
      /\ loop \in {"events", "notify"} /\ scanned \in 0..MaxDirs
      /\ call \in {"none", "pipe", "command", "files"}
  BY LoopAssumption DEF Init
<1>3. requested \in Nat /\ started \in 0..requested /\ finished \in 0..started
  BY DEF Init, Queue!Init
<1>4. changes \in BOOLEAN /\ running \in BOOLEAN /\ up \in BOOLEAN
  BY Zenon DEF Init, Queue!Init
<1>5. QED
  BY <1>1, <1>2, <1>3, <1>4 DEF TypeOK, KernelOK

\* Every step keeps the types.
LEMMA TypeStep == TypeOK /\ KernelOK /\ [Next]_vars => TypeOK'
<1> SUFFICES ASSUME TypeOK, KernelOK, [Next]_vars PROVE TypeOK'
  OBVIOUS
<1> USE LoopAssumption
<1>1. KernelOK'
  BY KernelStep
<1>2. /\ requested' \in Nat /\ started' \in 0..requested' /\ finished' \in 0..started'
      /\ running' \in BOOLEAN /\ up' \in BOOLEAN
  BY QueueTypes, QueueStep DEF TypeOK
<1>3. conn' \in [Clients -> {"new", "queued", "open", "answered", "dropped"}]
  <2> USE DEF TypeOK, clients
  <2>1. CASE HangUp
    BY <2>1 DEF HangUp
  <2>2. CASE HandleHttpEvent
    <3>1. PICK f, outcome : /\ outcome \in Outcomes(f)
                            /\ conn' = [c \in Clients |-> IF c = f THEN outcome ELSE conn[c]]
      BY <2>2 DEF HandleHttpEvent
    <3>2. outcome \in {"answered", "dropped"}
      BY <3>1 DEF Outcomes
    <3>3. QED
      BY <3>1, <3>2
  <2>3. ASSUME NEW c \in Clients, Connect(c)
        PROVE  conn' \in [Clients -> {"new", "queued", "open", "answered", "dropped"}]
    BY <2>3 DEF Connect
  <2>4. CASE AcceptClient
    BY <2>4 DEF AcceptClient
  <2>5. CASE Fork \/ EndCommand \/ CloseFiles
    <3>1. PICK S : GiveBack(S)
      BY <2>5, GiveBackStep, Zenon
    <3>2. QED
      BY <3>1 DEF GiveBack
  <2>6. CASE UNCHANGED conn
    BY <2>6
  <2>7. QED
    BY <2>1, <2>2, <2>3, <2>4, <2>5, <2>6
       DEF Next, EventThread, DeployThread, vars, Send, Reset, Modify, EpollWait,
           AcceptError, NotifyEvent, ReadModify, ReadNothing, StartDeploy, Popen,
           PopenError, ScanDirectory, OpenFiles, FinishDeploy
<1>4. sent' \subseteq Clients
  <2>1. sent' = sent \/ \E c \in Clients : sent' = sent \cup {c}
    BY DEF clients, Next, EventThread, DeployThread, vars, Connect, Send, Reset, Modify,
           EpollWait, HangUp, AcceptClient, AcceptError, NotifyEvent, ReadModify,
           ReadNothing, HandleHttpEvent, StartDeploy, Popen, PopenError, Fork, EndCommand,
           ScanDirectory, OpenFiles, CloseFiles, FinishDeploy
  <2>2. QED
    BY <2>1 DEF TypeOK
<1>5. made' \in 0..MaxChanges
  <2>1. CASE Modify
    BY <2>1 DEF Modify, TypeOK
  <2>2. CASE ~Modify
    <3>1. made' = made
      BY <2>2 DEF log, Next, EventThread, DeployThread, vars, Connect, Send, Reset,
                  EpollWait, HangUp, AcceptClient, AcceptError, NotifyEvent, ReadModify,
                  ReadNothing, HandleHttpEvent, StartDeploy, Popen, PopenError, Fork,
                  EndCommand, ScanDirectory, OpenFiles, CloseFiles, FinishDeploy
    <3>2. QED
      BY <3>1 DEF TypeOK
  <2>3. QED
    BY <2>1, <2>2
<1>6. changes' \in BOOLEAN /\ loop' \in {"events", "notify"}
  <2>1. changes' \in {TRUE, FALSE, changes} /\ loop' \in {"events", "notify", loop}
    BY DEF log, Next, EventThread, DeployThread, vars, Connect, Send, Reset, Modify,
           EpollWait, HangUp, AcceptClient, AcceptError, NotifyEvent, ReadModify,
           ReadNothing, HandleHttpEvent, StartDeploy, Popen, PopenError, Fork, EndCommand,
           ScanDirectory, OpenFiles, CloseFiles, FinishDeploy
  <2>2. QED
    BY <2>1 DEF TypeOK
<1>7. scanned' \in 0..MaxDirs
  <2>1. CASE ScanDirectory
    BY <2>1 DEF ScanDirectory, Reads, TypeOK
  <2>2. CASE ~ScanDirectory
    <3>1. scanned' = scanned \/ scanned' = 0
      BY <2>2 DEF deploy, Next, EventThread, DeployThread, vars, Connect, Send, Reset,
                  Modify, EpollWait, HangUp, AcceptClient, AcceptError, NotifyEvent,
                  ReadModify, ReadNothing, HandleHttpEvent, StartDeploy, Popen, PopenError,
                  Fork, EndCommand, OpenFiles, CloseFiles, FinishDeploy
    <3>2. QED
      BY <3>1 DEF TypeOK
  <2>3. QED
    BY <2>1, <2>2
<1>8. ticket' \in [Clients -> Nat]
  <2>1. CASE HandleHttpEvent
    BY <2>1 DEF HandleHttpEvent, HandOver, TypeOK
  <2>2. CASE ~HandleHttpEvent
    <3>1. ticket' = ticket
      BY <2>2 DEF Next, EventThread, DeployThread, vars, Connect, Send, Reset, Modify,
                  EpollWait, HangUp, AcceptClient, AcceptError, NotifyEvent, ReadModify,
                  ReadNothing, StartDeploy, Popen, PopenError, Fork, EndCommand,
                  ScanDirectory, OpenFiles, CloseFiles, FinishDeploy
    <3>2. QED
      BY <3>1 DEF TypeOK
  <2>3. QED
    BY <2>1, <2>2
<1>9. call' \in {"none", "pipe", "command", "files"}
  <2>1. call' \in {"none", "pipe", "command", "files", call}
    BY DEF Take, deploy, Next, EventThread, DeployThread, vars, Connect, Send, Reset,
           Modify, EpollWait, HangUp, AcceptClient, AcceptError, NotifyEvent, ReadModify,
           ReadNothing, HandleHttpEvent, StartDeploy, Popen, PopenError, Fork, EndCommand,
           ScanDirectory, OpenFiles, CloseFiles, FinishDeploy
  <2>2. QED
    BY <2>1 DEF TypeOK
<1>10. QED
  BY <1>1, <1>2, <1>3, <1>4, <1>5, <1>6, <1>7, <1>8, <1>9 DEF TypeOK, KernelOK

\* Types: the listening socket and the inotify descriptor are never closed,
\* whatever clients and commands do.
THEOREM TypeCorrect == Spec => []TypeOK
  BY KernelInit, KernelStep, TypeInit, TypeStep, PTL DEF Spec

\* A descriptor is given to a connection that has none, and taken from one only
\* with its end.
LEMMA OwnershipStep ==
  ASSUME KernelOK, Ownership, [Next]_vars,
         conn \in [Clients -> {"new", "queued", "open", "answered", "dropped"}]
  PROVE  Ownership'
<1> USE LoopAssumption DEF Ownership, IsOpen
<1>1. /\ fds \in [Fds -> Files \cup {"free"}]
      /\ "dir" \notin Clients /\ "free" \notin Clients /\ "temp" \notin Clients
      /\ own \subseteq Fds
      /\ \A e \in batch : e.fd \in Fds
  BY DEF KernelOK
<1>2. ASSUME NEW fd \in Fds, fds' = [fds EXCEPT ![fd] = "free"],
             \A c \in Clients : c # fds[fd] => conn'[c] = conn[c]
      PROVE  Ownership'
  <2>1. \A g \in Fds : fds'[g] \in Clients => g # fd /\ fds'[g] = fds[g]
    BY <1>1, <1>2
  <2>2. \A g, h \in Fds : fds'[g] = fds'[h] /\ fds'[g] \in Clients => g = h
    BY <2>1
  <2>3. ASSUME NEW c \in Clients, NEW g \in Fds, fds'[g] = c PROVE conn'[c] = "open"
    <3>1. g # fd /\ fds[g] = c /\ conn[c] = "open"
      BY <2>1, <2>3
    <3>2. fds[fd] # c
      BY <1>2, <3>1
    <3>3. QED
      BY <1>2, <3>1, <3>2
  <2>4. QED
    BY <2>2, <2>3
<1>3. CASE HangUp
  <2>1. PICK e \in batch :
          /\ fds' = [fds EXCEPT ![e.fd] = "free"]
          /\ conn' = [c \in Clients |-> IF c = fds[e.fd] THEN "dropped" ELSE conn[c]]
    <3> HIDE LoopAssumption DEF Ownership, IsOpen
    <3>1. QED
      BY <1>3 DEF HangUp, Close
  <2>2. QED
    BY <1>1, <1>2, <2>1
<1>4. CASE HandleHttpEvent
  <2>1. PICK e \in batch, outcome \in {"answered", "dropped"} :
          /\ outcome \in Outcomes(fds[e.fd])
          /\ fds' = [fds EXCEPT ![e.fd] = "free"]
          /\ conn' = [c \in Clients |-> IF c = fds[e.fd] THEN outcome ELSE conn[c]]
    <3> HIDE LoopAssumption DEF Ownership, IsOpen
    <3>1. PICK e \in batch :
            /\ \E outcome \in Outcomes(fds[e.fd]) :
                 conn' = [c \in Clients |-> IF c = fds[e.fd] THEN outcome ELSE conn[c]]
            /\ Close(e.fd, Delete(e.fd))
      BY <1>4 DEF HandleHttpEvent
    <3>2. QED
      BY <3>1 DEF Close, Outcomes
  <2>2. QED
    BY <1>1, <1>2, <2>1
<1>5. CASE AcceptClient
  <2>1. PICK c \in Clients, fd \in Fds :
          /\ conn[c] = "queued" /\ conn' = [conn EXCEPT ![c] = "open"]
          /\ fds' = [fds EXCEPT ![fd] = c]
    <3> HIDE LoopAssumption DEF Ownership, IsOpen
    <3>1. QED
      BY <1>5 DEF AcceptClient
  <2>2. \A g \in Fds : fds[g] # c
    BY <2>1
  <2>3. fds'[fd] = c /\ \A g \in Fds : g # fd => fds'[g] = fds[g]
    BY <1>1, <2>1
  <2>4. conn'[c] = "open" /\ \A d \in Clients : d # c => conn'[d] = conn[d]
    BY <2>1
  <2>5. \A g, h \in Fds : fds'[g] = fds'[h] /\ fds'[g] \in Clients => g = h
    BY <2>2, <2>3
  <2>6. \A d \in Clients : (\E g \in Fds : fds'[g] = d) => conn'[d] = "open"
    BY <2>3, <2>4
  <2>7. QED
    BY <2>5, <2>6
<1>6. CASE ScanDirectory
  <2>1. conn' = conn
    BY <1>6 DEF ScanDirectory, clients
  <2>2. fds' = fds \/ \E fd \in Fds : fds[fd] = "free" /\ fds' = [fds EXCEPT ![fd] = "dir"]
    BY <1>1, <1>6, ScanStep
  <2>3. \A g \in Fds : fds'[g] \in Clients => fds'[g] = fds[g]
    BY <1>1, <2>2
  <2>4. QED
    BY <2>1, <2>3
<1>7. ASSUME NEW c \in Clients, Connect(c) PROVE Ownership'
  <2>1. conn[c] = "new" /\ conn' = [conn EXCEPT ![c] = "queued"] /\ fds' = fds
    BY <1>7 DEF Connect, kernel
  <2>2. QED
    BY <2>1
<1>8. CASE fds' = fds /\ conn' = conn
  BY <1>8
<1>9. CASE Popen \/ OpenFiles
  <2>1. PICK S : /\ fds' = [fd \in Fds |-> IF fd \in S THEN "temp" ELSE fds[fd]]
                 /\ conn' = conn
    <3> HIDE LoopAssumption DEF Ownership, IsOpen
    <3>1. QED
      BY <1>9, TakeStep DEF clients
  <2>2. \A g \in Fds : fds'[g] \in Clients => fds'[g] = fds[g]
    BY <1>1, <2>1
  <2>3. QED
    BY <2>1, <2>2
<1>10. CASE Fork \/ EndCommand \/ CloseFiles
  <2>1. PICK S \in SUBSET own : GiveBack(S)
    <3> HIDE LoopAssumption DEF Ownership, IsOpen
    <3>1. QED
      BY <1>10, GiveBackStep
  <2>2. \A g \in Fds : fds'[g] \in Clients => g \notin S /\ fds'[g] = fds[g]
    BY <1>1, <2>1 DEF GiveBack
  <2>3. ASSUME NEW c \in Clients, NEW g \in Fds, fds'[g] = c PROVE conn'[c] = "open"
    <3>1. g \notin S /\ fds[g] = c /\ conn[c] = "open"
      BY <2>2, <2>3
    <3>2. \A fd \in S : fd \in Fds /\ fds[fd] # c
      BY <1>1, <2>1, <3>1
    <3>3. QED
      BY <2>1, <3>1, <3>2 DEF GiveBack
  <2>4. QED
    BY <2>2, <2>3
<1>11. QED
  <2> HIDE LoopAssumption DEF Ownership, IsOpen
  <2>1. \/ HangUp \/ HandleHttpEvent \/ AcceptClient \/ ScanDirectory
        \/ \E c \in Clients : Connect(c)
        \/ Popen \/ OpenFiles \/ Fork \/ EndCommand \/ CloseFiles
        \/ fds' = fds /\ conn' = conn
    BY DEF Next, EventThread, DeployThread, vars, kernel, clients, Send, Reset, Modify,
           EpollWait, AcceptError, NotifyEvent, ReadModify, ReadNothing, StartDeploy,
           PopenError, FinishDeploy
  <2>2. QED
    BY <1>3, <1>4, <1>5, <1>6, <1>7, <1>8, <1>9, <1>10, <2>1

\* The listening socket stays ready until its event is handled: connections
\* that are queued are neither answered nor dropped.
LEMMA CapacityStep ==
  ASSUME KernelOK, Ownership, Capacity,
         conn \in [Clients -> {"new", "queued", "open", "answered", "dropped"}], [Next]_vars
  PROVE  Capacity'
<1> DEFINE Announced == (\E e \in batch : e.file = "listen")
                          => \E c \in Clients : conn[c] = "queued"
<1> USE LoopAssumption DEF clients, Handle
<1>1. Announced /\ Cardinality(Pending) <= MaxOpen
  BY DEF Capacity
<1>2. /\ \A c \in Clients : IsOpen(c) => conn[c] = "open"
      /\ \A e \in batch : e.fd \in Fds
      /\ "listen" \notin Clients /\ ListenFd # NotifyFd
  BY DEF Ownership, KernelOK, ListenFd, NotifyFd
<1>3. IsFiniteSet(Pending) /\ Cardinality(Pending) \in Nat
  BY FS_Subset, FS_CardinalityType DEF Pending
<1>4. ASSUME Pending' \subseteq Pending PROVE Cardinality(Pending') <= MaxOpen
  <2>1. Cardinality(Pending') <= Cardinality(Pending) /\ Cardinality(Pending') \in Nat
    BY <1>3, <1>4, FS_Subset, FS_CardinalityType
  <2>2. QED
    BY <1>1, <1>3, <2>1
<1>5. ASSUME \A c \in Clients : conn'[c] # conn[c] => conn[c] = "open",
             \A c \in Clients : conn'[c] # conn[c] => conn'[c] \in {"answered", "dropped"},
             batch' \subseteq batch
      PROVE  Capacity'
  <2>1. Announced'
    BY <1>1, <1>5
  <2>2. Pending' \subseteq Pending
    BY <1>5 DEF Pending
  <2>3. QED
    BY <1>4, <2>1, <2>2 DEF Capacity
<1>6. ASSUME NEW c \in Clients, Connect(c) PROVE Capacity'
  <2>1. conn' = [conn EXCEPT ![c] = "queued"] /\ batch' = batch /\ Cardinality(Pending) < MaxOpen
    BY <1>6 DEF Connect, Pending
  <2>2. Announced'
    BY <2>1
  <2>3. Pending' = Pending \cup {c}
    BY <2>1 DEF Pending
  <2>4. Cardinality(Pending') <= MaxOpen
    <3>1. Cardinality(Pending \cup {c})
            = IF c \in Pending THEN Cardinality(Pending) ELSE Cardinality(Pending) + 1
      BY <1>3, FS_AddElement, Zenon
    <3>2. QED
      BY <1>3, <2>1, <2>3, <3>1
  <2>5. QED
    BY <2>2, <2>4 DEF Capacity
<1>7. CASE EpollWait
  <2>1. batch' \subseteq ReadyEvents /\ conn' = conn
    BY <1>7 DEF EpollWait
  <2>2. ASSUME NEW e \in ReadyEvents, e.file = "listen"
        PROVE  \E c \in Clients : conn[c] = "queued"
    <3>1. PICK r \in interest :
            Ready(r[2]) /\ e = [fd |-> r[1], file |-> r[2], hup |-> r[2] \in broken]
      BY DEF ReadyEvents
    <3>2. r[2] = "listen"
      BY <2>2, <3>1
    <3>3. QED
      BY <1>2, <3>1, <3>2 DEF Ready
  <2>3. Pending' = Pending
    BY <2>1 DEF Pending
  <2>4. QED
    BY <1>1, <2>1, <2>2, <2>3 DEF Capacity
<1>8. CASE AcceptClient
  <2>1. PICK e \in batch, c \in Clients :
          /\ batch' = batch \ {e} /\ e.fd = ListenFd
          /\ conn[c] = "queued" /\ conn' = [conn EXCEPT ![c] = "open"]
    BY <1>8 DEF AcceptClient
  <2>2. \A x \in batch' : x.file # "listen"
    <3>1. SUFFICES ASSUME NEW x \in batch', x.file = "listen" PROVE FALSE
      OBVIOUS
    <3>2. x \in batch /\ x # e
      BY <2>1
    <3>3. x.fd = ListenFd /\ e.file = "listen"
      BY <2>1, <3>1, <3>2 DEF KernelOK, Places
    <3>4. ~x.hup /\ ~e.hup
      BY <1>2, <3>1, <3>2, <3>3 DEF KernelOK, Places
    <3>5. x.hup = e.hup
      <4>1. x.hup \in BOOLEAN /\ e.hup \in BOOLEAN
        BY <3>2 DEF KernelOK
      <4>2. QED
        BY <3>4, <4>1
    <3>6. QED
      BY <2>1, <3>1, <3>2, <3>3, <3>5 DEF KernelOK
  <2>3. Pending' = Pending
    BY <2>1 DEF Pending
  <2>4. QED
    BY <1>1, <2>2, <2>3 DEF Capacity
<1>9. CASE HangUp
  <2>1. PICK e \in batch :
          /\ batch' = batch \ {e}
          /\ conn' = [c \in Clients |-> IF c = fds[e.fd] THEN "dropped" ELSE conn[c]]
    BY <1>9 DEF HangUp
  <2>2. \A c \in Clients : conn'[c] # conn[c] => conn[c] = "open" /\ conn'[c] = "dropped"
    <3>1. SUFFICES ASSUME NEW c \in Clients, conn'[c] # conn[c]
                   PROVE  conn[c] = "open" /\ conn'[c] = "dropped"
      OBVIOUS
    <3>2. c = fds[e.fd] /\ conn'[c] = "dropped"
      BY <2>1, <3>1
    <3>3. QED
      BY <1>2, <3>2 DEF IsOpen
  <2>3. QED
    BY <1>5, <2>1, <2>2
<1>10. CASE HandleHttpEvent
  <2>1. PICK e \in batch, outcome \in {"answered", "dropped"} :
          /\ outcome \in Outcomes(fds[e.fd])
          /\ batch' = batch \ {e}
          /\ conn' = [c \in Clients |-> IF c = fds[e.fd] THEN outcome ELSE conn[c]]
    BY <1>10 DEF HandleHttpEvent, Outcomes
  <2>2. \A c \in Clients :
          conn'[c] # conn[c] => conn[c] = "open" /\ conn'[c] \in {"answered", "dropped"}
    BY <1>2, <2>1 DEF IsOpen, Outcomes
  <2>3. QED
    BY <1>5, <2>1, <2>2
<1>11. CASE conn' = conn /\ batch' \subseteq batch
  BY <1>5, <1>11
<1>12. CASE Fork \/ EndCommand \/ CloseFiles
  <2>1. PICK S \in SUBSET own : GiveBack(S) /\ batch' = batch
    BY <1>12, GiveBackStep
  <2>2. \A c \in Clients : conn'[c] # conn[c] => conn[c] = "open" /\ conn'[c] = "dropped"
    <3>1. SUFFICES ASSUME NEW c \in Clients, conn'[c] # conn[c]
                   PROVE  conn[c] = "open" /\ conn'[c] = "dropped"
      OBVIOUS
    <3>2. (\E fd \in S : fds[fd] = c) /\ conn'[c] = "dropped"
      BY <2>1, <3>1 DEF GiveBack
    <3>3. IsOpen(c)
      BY <2>1, <3>2 DEF KernelOK, IsOpen
    <3>4. QED
      BY <1>2, <3>2, <3>3
  <2>3. QED
    BY <1>5, <2>1, <2>2
<1>13. QED
  BY <1>6, <1>7, <1>8, <1>9, <1>10, <1>11, <1>12
     DEF Next, EventThread, DeployThread, vars, Send, Reset, Modify, AcceptError,
         NotifyEvent, ReadModify, ReadNothing, StartDeploy, Popen, PopenError,
         ScanDirectory, OpenFiles, FinishDeploy

\* When each descriptor but the first two is a directory, one of at most n others or
\* has a connection of its own, there are as many directories as all that leaves.
LEMMA DescriptorsSuffice ==
  ASSUME KernelOK, Ownership, NEW n \in Nat,
         NEW Spare \in SUBSET Fds, IsFiniteSet(Spare), Cardinality(Spare) <= n,
         NEW Owners \in SUBSET Clients, Cardinality(Owners) + n <= MaxOpen + 1,
         \A fd \in Fds \ {ListenFd, NotifyFd} :
           fds[fd] \in Owners \/ fd \in Leaked \/ fd \in Spare
  PROVE  MaxFd <= MaxOpen + 2 + Cardinality(Leaked)
<1> USE LoopAssumption
<1> DEFINE Taken == {fd \in Fds : fds[fd] \in Owners}
           F == [fd \in Taken |-> fds[fd]]
<1>1. IsFiniteSet(Fds)
  BY FS_Interval DEF Fds
<1>2. IsFiniteSet(Taken) /\ IsFiniteSet(Leaked) /\ IsFiniteSet(Owners)
  BY <1>1, FS_Subset DEF Leaked
<1>3. F \in [Taken -> Owners]
  OBVIOUS
<1>4. \A a, b \in Taken : F[a] = F[b] => a = b
  BY DEF Ownership
<1>5. F \in Injection(Taken, Owners)
  BY <1>3, <1>4 DEF Injection, IsInjective
<1> HIDE DEF F
<1>6. Cardinality(Taken) <= Cardinality(Owners)
  BY <1>2, <1>5, FS_Injection
<1>7. IsFiniteSet(2..MaxFd) /\ Cardinality(2..MaxFd) = MaxFd - 1
  <2>1. MaxFd \in Int /\ 2 \in Int /\ MaxFd >= 1
    OBVIOUS
  <2>2. /\ IsFiniteSet(2..MaxFd)
        /\ Cardinality(2..MaxFd) = IF 2 > MaxFd THEN 0 ELSE MaxFd - 2 + 1
    BY <2>1, FS_Interval
  <2>3. QED
    BY <2>1, <2>2
<1>8. 2..MaxFd \subseteq (Taken \cup Leaked) \cup Spare
  BY DEF Fds, ListenFd, NotifyFd
<1> HIDE DEF Taken
<1>9. /\ IsFiniteSet(Taken \cup Leaked)
      /\ Cardinality(Taken \cup Leaked) <= Cardinality(Taken) + Cardinality(Leaked)
  <2>1. Cardinality(Taken \cup Leaked)
          = Cardinality(Taken) + Cardinality(Leaked) - Cardinality(Taken \cap Leaked)
    BY <1>2, FS_Union
  <2>2. Cardinality(Taken \cap Leaked) \in Nat
    BY <1>2, FS_Subset, FS_CardinalityType
  <2>3. Cardinality(Taken) \in Nat /\ Cardinality(Leaked) \in Nat
    BY <1>2, FS_CardinalityType
  <2>4. QED
    BY <1>2, <2>1, <2>2, <2>3, FS_Union
<1>10. /\ IsFiniteSet((Taken \cup Leaked) \cup Spare)
       /\ Cardinality((Taken \cup Leaked) \cup Spare)
            <= Cardinality(Taken \cup Leaked) + Cardinality(Spare)
  <2>1. Cardinality((Taken \cup Leaked) \cup Spare)
          = Cardinality(Taken \cup Leaked) + Cardinality(Spare)
              - Cardinality((Taken \cup Leaked) \cap Spare)
    BY <1>9, FS_Union
  <2>2. Cardinality((Taken \cup Leaked) \cap Spare) \in Nat
    BY <1>9, FS_Subset, FS_CardinalityType
  <2>3. Cardinality(Taken \cup Leaked) \in Nat /\ Cardinality(Spare) \in Nat
    BY <1>9, FS_CardinalityType
  <2>4. QED
    BY <1>9, <2>1, <2>2, <2>3, FS_Union
<1>11. Cardinality(2..MaxFd) <= Cardinality((Taken \cup Leaked) \cup Spare)
  BY <1>8, <1>10, FS_Subset
<1>12. /\ Cardinality(Taken) \in Nat /\ Cardinality(Leaked) \in Nat
       /\ Cardinality(Owners) \in Nat /\ Cardinality(Spare) \in Nat
       /\ Cardinality(Taken \cup Leaked) \in Nat
       /\ Cardinality((Taken \cup Leaked) \cup Spare) \in Nat
  BY <1>2, <1>9, <1>10, FS_CardinalityType
<1>13. QED
  BY <1>6, <1>7, <1>9, <1>10, <1>11, <1>12

\* accept without a descriptor: one connection waits, and the deploy thread has at
\* most two.
LEMMA AcceptErrorBound ==
  ASSUME KernelOK, Ownership, Capacity, Calls, AcceptError
  PROVE  MaxFd <= MaxOpen + 2 + Cardinality(Leaked)
<1> USE LoopAssumption
<1>1. PICK e \in batch : e.fd = ListenFd
  BY DEF AcceptError
<1>2. PICK q \in Clients : conn[q] = "queued"
  BY <1>1 DEF KernelOK, Places, Capacity
<1> DEFINE Owners == Pending \ {q}
<1>3. own \in SUBSET Fds /\ IsFiniteSet(own) /\ Cardinality(own) <= 2
  <2>1. own \in SUBSET Fds
    BY DEF KernelOK
  <2>2. PICK a \in Fds, b \in Fds : own \subseteq {a, b}
    BY DEF Calls
  <2>3. IsFiniteSet({a, b}) /\ Cardinality({a, b}) <= 2
    <3>1. IsFiniteSet({a}) /\ Cardinality({a}) = 1
      BY FS_Singleton
    <3>2. /\ IsFiniteSet({a} \cup {b})
          /\ Cardinality({a} \cup {b})
               = IF b \in {a} THEN Cardinality({a}) ELSE Cardinality({a}) + 1
      BY <3>1, FS_AddElement
    <3>3. {a, b} = {a} \cup {b}
      OBVIOUS
    <3>4. QED
      BY <3>1, <3>2, <3>3
  <2>4. IsFiniteSet(own) /\ Cardinality(own) <= Cardinality({a, b})
    BY <2>2, <2>3, FS_Subset
  <2>5. Cardinality(own) \in Nat /\ Cardinality({a, b}) \in Nat
    BY <2>3, <2>4, FS_CardinalityType
  <2>6. QED
    BY <2>1, <2>3, <2>4, <2>5
<1>4. IsFiniteSet(Pending) /\ q \in Pending
  BY <1>2, FS_Subset DEF Pending
<1>5. Cardinality(Pending) \in Nat /\ Cardinality(Pending) <= MaxOpen
  BY <1>4, FS_CardinalityType DEF Capacity
<1>6. Cardinality(Owners) = Cardinality(Pending) - 1
  BY <1>4, FS_RemoveElement
<1>7. Owners \in SUBSET Clients /\ Cardinality(Owners) + 2 <= MaxOpen + 1
  BY <1>5, <1>6 DEF Pending
<1>8. ASSUME NEW fd \in Fds \ {ListenFd, NotifyFd}
      PROVE  fds[fd] \in Owners \/ fd \in Leaked \/ fd \in own
  <2>1. fds[fd] \in Clients \cup {"dir", "temp"}
    BY DEF KernelOK, Places, AcceptError, Files
  <2>2. CASE fds[fd] \in Clients
    <3>1. conn[fds[fd]] = "open"
      BY <2>2 DEF Ownership, IsOpen
    <3>2. QED
      BY <1>2, <2>2, <3>1 DEF Pending
  <2>3. QED
    BY <2>1, <2>2 DEF Leaked, Calls
<1> HIDE DEF Owners
<1>9. QED
  BY <1>3, <1>7, <1>8, DescriptorsSuffice

\* popen without two descriptors: none is in a call's hands then, and at most one is
\* free.
LEMMA PopenErrorBound ==
  ASSUME KernelOK, Ownership, Capacity, Calls, PopenError
  PROVE  MaxFd <= MaxOpen + 2 + Cardinality(Leaked)
<1> USE LoopAssumption
<1> DEFINE Free == {fd \in Fds : fds[fd] = "free"}
<1>1. Free \in SUBSET Fds /\ IsFiniteSet(Free) /\ Cardinality(Free) <= 1
  <2>1. \A fd, g \in Free : fd = g
    BY DEF PopenError
  <2>2. Free = {} \/ \E fd \in Fds : Free = {fd}
    BY <2>1
  <2>3. CASE Free = {}
    BY <2>3, FS_EmptySet
  <2>4. ASSUME NEW fd \in Fds, Free = {fd} PROVE IsFiniteSet(Free) /\ Cardinality(Free) <= 1
    <3> HIDE DEF Free
    <3>1. IsFiniteSet({fd}) /\ Cardinality({fd}) = 1
      BY FS_Singleton
    <3>2. QED
      BY <2>4, <3>1
  <2>5. Free \in SUBSET Fds
    OBVIOUS
  <2>6. QED
    BY <2>2, <2>3, <2>4, <2>5
<1>2. own = {}
  BY DEF PopenError, AtCommand, Between, Calls
<1>3. IsFiniteSet(Pending)
  BY FS_Subset DEF Pending
<1>4. Pending \in SUBSET Clients /\ Cardinality(Pending) + 1 <= MaxOpen + 1
  BY <1>3, FS_CardinalityType DEF Capacity, Pending
<1>5. ASSUME NEW fd \in Fds \ {ListenFd, NotifyFd}
      PROVE  fds[fd] \in Pending \/ fd \in Leaked \/ fd \in Free
  <2>1. fds[fd] \in Clients \cup {"dir", "free"}
    BY <1>2 DEF KernelOK, Places, Files, Calls
  <2>2. CASE fds[fd] \in Clients
    BY <2>2 DEF Ownership, IsOpen, Pending
  <2>3. QED
    BY <2>1, <2>2 DEF Leaked
<1> HIDE DEF Free
<1>6. QED
  BY <1>1, <1>4, <1>5, DescriptorsSuffice

\* Products, for the steps that count directories.
LEMMA Products ==
  ASSUME NEW m \in Nat, NEW a \in Nat, NEW b \in Nat, a < b
  PROVE  m * a <= m * (b - 1) /\ m * (b - 1) + m = m * b /\ m * a \in Nat /\ m * (b - 1) \in Nat
<1>1. m * (b - 1) + m = m * b
  OBVIOUS
<1>2. m * (b - 1) = m * a + m * (b - 1 - a)
  OBVIOUS
<1>3. m * (b - 1 - a) \in Nat /\ m * a \in Nat
  OBVIOUS
<1>4. QED
  BY <1>1, <1>2, <1>3

\* A run opens at most MaxDirs directories, and nothing else opens one.
LEMMA LeaksStep ==
  ASSUME TypeOK, KernelOK, Leaks, [Next]_vars
  PROVE  Leaks'
<1> USE LoopAssumption DEF KernelOK
<1>1. /\ scanned \in 0..MaxDirs /\ requested \in Nat /\ started \in 0..requested
      /\ MaxDirs \in Nat /\ running \in BOOLEAN
      /\ "dir" \notin Clients /\ own \subseteq Fds
  BY DEF TypeOK
<1>2. IsFiniteSet(Leaked) /\ Cardinality(Leaked) \in Nat
  <2>1. IsFiniteSet(Fds)
    <3> HIDE DEF KernelOK
    <3>1. QED
      BY FS_Interval DEF Fds
  <2>2. QED
    BY <2>1, FS_Subset, FS_CardinalityType DEF Leaked
<1>3. ASSUME Leaked' \subseteq Leaked
      PROVE  Cardinality(Leaked') \in Nat /\ Cardinality(Leaked') <= Cardinality(Leaked)
  BY <1>2, <1>3, FS_Subset, FS_CardinalityType
<1>4. CASE Leaked' \subseteq Leaked /\ UNCHANGED <<scanned, started, running>>
  <2>1. Cardinality(Leaked') \in Nat /\ Cardinality(Leaked') <= Cardinality(Leaked)
    BY <1>3, <1>4
  <2>2. MaxDirs * started \in Nat /\ (started > 0 => MaxDirs * (started - 1) \in Nat)
    BY <1>1
  <2>3. QED
    BY <1>1, <1>2, <1>4, <2>1, <2>2 DEF Leaks
<1>5. CASE ScanDirectory
  <2>1. /\ running /\ scanned < MaxDirs /\ scanned' \in {scanned + 1, MaxDirs}
        /\ UNCHANGED <<started, running>>
        /\ fds' = fds \/ \E fd \in Fds : fds' = [fds EXCEPT ![fd] = "dir"]
    BY <1>5, ScanStep DEF ScanDirectory, Between, Reads, qvars
  <2>2. Cardinality(Leaked') \in Nat /\ Cardinality(Leaked') <= Cardinality(Leaked) + 1
    <3>1. CASE fds' = fds
      BY <1>2, <3>1 DEF Leaked
    <3>2. ASSUME NEW fd \in Fds, fds' = [fds EXCEPT ![fd] = "dir"]
          PROVE  Cardinality(Leaked') \in Nat /\ Cardinality(Leaked') <= Cardinality(Leaked) + 1
      <4>1. Leaked' = Leaked \cup {fd}
        BY <3>2 DEF Leaked
      <4>2. Cardinality(Leaked \cup {fd})
              = IF fd \in Leaked THEN Cardinality(Leaked) ELSE Cardinality(Leaked) + 1
        BY <1>2, FS_AddElement, Zenon
      <4>3. QED
        BY <1>2, <4>1, <4>2
    <3>3. QED
      BY <2>1, <3>1, <3>2
  <2>3. started > 0 => MaxDirs * (started - 1) \in Nat
    BY <1>1
  <2>4. QED
    BY <1>1, <1>2, <2>1, <2>2, <2>3 DEF Leaks
<1>6. CASE StartDeploy
  <2>1. /\ ~running /\ started < requested /\ started' = requested /\ running' = TRUE
        /\ UNCHANGED <<fds, scanned>>
    BY <1>6 DEF StartDeploy, Queue!Start, kernel, deploy
  <2>2. Leaked' = Leaked
    BY <2>1 DEF Leaked
  <2>3. MaxDirs * started <= MaxDirs * (requested - 1)
        /\ MaxDirs * started \in Nat /\ MaxDirs * (requested - 1) \in Nat
    BY <1>1, <2>1, Products
  <2>4. QED
    BY <1>1, <1>2, <2>1, <2>2, <2>3 DEF Leaks
<1>7. CASE FinishDeploy
  <2>1. /\ running /\ scanned = MaxDirs /\ scanned' = 0 /\ running' = FALSE
        /\ UNCHANGED <<fds, started>>
    BY <1>7 DEF FinishDeploy, Queue!Finish, kernel
  <2>2. Leaked' = Leaked
    BY <2>1 DEF Leaked
  <2>3. started > 0
    BY <2>1 DEF Leaks
  <2>4. MaxDirs * (started - 1) + MaxDirs = MaxDirs * started
        /\ MaxDirs * (started - 1) \in Nat
    BY <1>1, <2>3, Products
  <2>5. QED
    BY <1>1, <1>2, <2>1, <2>2, <2>4 DEF Leaks
<1>8. CASE HangUp \/ HandleHttpEvent \/ AcceptClient
  <2>1. UNCHANGED <<scanned, started, running>>
    BY <1>8 DEF HangUp, HandleHttpEvent, AcceptClient, HandOver, Queue!Request, qvars,
                deploy
  <2>2. \E fd \in Fds, f \in Clients \cup {"free"} : fds' = [fds EXCEPT ![fd] = f]
    BY <1>8 DEF HangUp, HandleHttpEvent, AcceptClient, Close
  <2>3. Leaked' \subseteq Leaked
    BY <1>1, <2>2 DEF Leaked
  <2>4. QED
    BY <1>4, <2>1, <2>3
<1>9. CASE UNCHANGED <<fds, scanned, started, running>>
  BY <1>4, <1>9 DEF Leaked
<1>10. CASE Popen \/ OpenFiles
  <2>1. /\ \E S \in SUBSET Fds : fds' = [fd \in Fds |-> IF fd \in S THEN "temp" ELSE fds[fd]]
        /\ UNCHANGED <<scanned, started, running>>
    BY <1>10, TakeStep DEF qvars
  <2>2. Leaked' \subseteq Leaked
    BY <2>1 DEF Leaked
  <2>3. QED
    BY <1>4, <2>1, <2>2
<1>11. CASE Fork \/ EndCommand \/ CloseFiles
  <2>1. /\ \E S \in SUBSET own : GiveBack(S)
        /\ UNCHANGED <<scanned, started, running>>
    BY <1>11, GiveBackStep DEF qvars
  <2>2. Leaked' \subseteq Leaked
    BY <2>1 DEF Leaked, GiveBack
  <2>3. QED
    BY <1>4, <2>1, <2>2
<1>12. QED
  <2> HIDE LoopAssumption DEF KernelOK
  <2>1. \/ ScanDirectory \/ StartDeploy \/ FinishDeploy
        \/ HangUp \/ HandleHttpEvent \/ AcceptClient
        \/ Popen \/ OpenFiles \/ Fork \/ EndCommand \/ CloseFiles
        \/ UNCHANGED <<fds, scanned, started, running>>
    BY DEF Next, EventThread, DeployThread, vars, kernel, qvars, deploy, Connect, Send,
           Reset, Modify, EpollWait, AcceptError, NotifyEvent, ReadModify, ReadNothing,
           PopenError, Queue!Request, Queue!Stop
  <2>2. QED
    BY <1>5, <1>6, <1>7, <1>8, <1>9, <1>10, <1>11, <2>1

\* What the deploy thread holds, it has taken for the call it is in.
LEMMA CallsStep ==
  ASSUME TypeOK, Calls, [Next]_vars
  PROVE  Calls'
<1> USE LoopAssumption
<1>1. /\ fds \in [Fds -> Files \cup {"free"}] /\ own \subseteq Fds
      /\ "temp" \notin Clients
      /\ \A e \in batch : e.fd \in Fds
  BY DEF TypeOK
<1>2. ASSUME \A fd \in Fds : fds'[fd] = "temp" => fds[fd] = "temp",
             UNCHANGED <<call, own, held, running>>
      PROVE  Calls'
  BY <1>2 DEF Calls
<1>3. CASE HangUp \/ HandleHttpEvent \/ AcceptClient
  <2>1. UNCHANGED <<call, own, held, running>>
    BY <1>3 DEF HangUp, HandleHttpEvent, AcceptClient, Close, HandOver, Queue!Request, qvars,
                deploy
  <2>2. \E fd \in Fds, f \in Clients \cup {"free"} : fds' = [fds EXCEPT ![fd] = f]
    BY <1>1, <1>3 DEF HangUp, HandleHttpEvent, AcceptClient, Close
  <2>3. QED
    BY <1>1, <1>2, <2>1, <2>2
<1>4. CASE ScanDirectory
  <2>1. \A fd \in Fds : fds'[fd] = "temp" => fds[fd] = "temp"
    BY <1>4 DEF ScanDirectory
  <2>2. QED
    BY <1>2, <1>4, <2>1 DEF ScanDirectory, qvars
<1>5. CASE Popen \/ OpenFiles
  <2>1. PICK S \in SUBSET Fds, a \in Fds, b \in Fds :
          /\ S = {a, b} /\ own' = S
          /\ fds' = [fd \in Fds |-> IF fd \in S THEN "temp" ELSE fds[fd]]
          /\ call = "none" /\ call' \in {"pipe", "files"}
          /\ running' /\ held' = held
    BY <1>5, TakeStep DEF qvars
  <2>2. \A fd \in Fds : fds[fd] # "temp"
    BY <2>1 DEF Calls
  <2>3. \A fd \in Fds : fds'[fd] = "temp" => fd \in own'
    BY <2>1, <2>2
  <2>4. held' = {}
    BY <2>1 DEF Calls
  <2>5. QED
    BY <2>1, <2>3, <2>4 DEF Calls
<1>6. CASE Fork \/ EndCommand \/ CloseFiles
  <2>1. PICK S \in SUBSET own : GiveBack(S) /\ running' = running
    BY <1>6, GiveBackStep DEF qvars
  <2>2. \A fd \in Fds : fds'[fd] = "temp" => fd \in own'
    BY <2>1 DEF GiveBack, Calls
  <2>3. \E fd, g \in Fds : own' \subseteq {fd, g}
    BY <2>1 DEF GiveBack, Calls
  <2>4. CASE Fork
    <3>1. call' = "command" /\ call = "pipe"
      BY <2>4 DEF Fork
    <3>2. QED
      BY <2>1, <2>2, <2>3, <3>1 DEF Calls
  <2>5. CASE EndCommand
    <3>1. call' = "none" /\ own' = {} /\ held' = {}
      BY <2>5 DEF EndCommand, GiveBack
    <3>2. QED
      BY <2>2, <2>3, <3>1 DEF Calls
  <2>6. CASE CloseFiles
    <3>1. call' = "none" /\ own' = {} /\ held' = held /\ call = "files"
      BY <2>6 DEF CloseFiles, GiveBack
    <3>2. QED
      BY <2>2, <2>3, <3>1 DEF Calls
  <2>7. QED
    BY <1>6, <2>4, <2>5, <2>6
<1>7. CASE StartDeploy
  <2>1. running' /\ UNCHANGED <<fds, own, call, held>>
    BY <1>7 DEF StartDeploy, Queue!Start, kernel, deploy
  <2>2. QED
    BY <2>1 DEF Calls
<1>8. CASE FinishDeploy
  <2>1. call = "none" /\ UNCHANGED <<fds, own, call, held>>
    BY <1>8 DEF FinishDeploy, kernel
  <2>2. QED
    BY <2>1 DEF Calls
<1>9. CASE UNCHANGED <<fds, call, own, held, running>>
  BY <1>2, <1>9
<1>10. QED
  <2>1. \/ HangUp \/ HandleHttpEvent \/ AcceptClient \/ ScanDirectory
        \/ Popen \/ OpenFiles \/ Fork \/ EndCommand \/ CloseFiles
        \/ StartDeploy \/ FinishDeploy \/ UNCHANGED <<fds, call, own, held, running>>
    BY DEF Next, EventThread, DeployThread, vars, kernel, qvars, deploy, Connect, Send,
           Reset, Modify, EpollWait, AcceptError, NotifyEvent, ReadModify, ReadNothing,
           PopenError, Queue!Request, Queue!Stop
  <2>2. QED
    BY <1>3, <1>4, <1>5, <1>6, <1>7, <1>8, <1>9, <2>1

\* A process that exits has opened that many directories; one that has exited
\* starts nothing.
LEMMA ExitStep ==
  ASSUME TypeOK, KernelOK, Ownership, Capacity, Leaks, Calls, ExitTakesDeployments,
         [Next]_vars
  PROVE  ExitTakesDeployments'
<1> USE LoopAssumption
<1>1. /\ scanned \in 0..MaxDirs /\ requested \in Nat /\ started \in 0..requested
      /\ MaxDirs \in Nat /\ running \in BOOLEAN /\ up \in BOOLEAN
  BY DEF TypeOK
<1>2. CASE AcceptError \/ PopenError
  <2>1. MaxFd <= MaxOpen + 2 + Cardinality(Leaked)
    BY <1>2, AcceptErrorBound, PopenErrorBound
  <2>2. Cardinality(Leaked) \in Nat
    <3>1. IsFiniteSet(Fds)
      BY FS_Interval DEF Fds
    <3>2. QED
      BY <3>1, FS_Subset, FS_CardinalityType DEF Leaked
  <2>3. Cardinality(Leaked) <= MaxDirs * started /\ MaxDirs * started \in Nat
    <3>1. CASE running
      <4>1. started > 0 /\ Cardinality(Leaked) <= MaxDirs * (started - 1) + scanned
        BY <3>1 DEF Leaks
      <4>2. MaxDirs * (started - 1) + MaxDirs = MaxDirs * started
            /\ MaxDirs * (started - 1) \in Nat
        BY <1>1, <4>1, Products
      <4>3. QED
        BY <1>1, <2>2, <4>1, <4>2
    <3>2. CASE ~running
      BY <1>1, <3>2 DEF Leaks
    <3>3. QED
      BY <3>1, <3>2
  <2>4. started' = started
    BY <1>2 DEF AcceptError, PopenError, Queue!Stop
  <2>5. QED
    BY <2>1, <2>2, <2>3, <2>4 DEF ExitTakesDeployments
<1>3. CASE ~AcceptError /\ ~PopenError
  <2> HIDE LoopAssumption
  <2>1. Queue!Request \/ Queue!Start \/ Queue!Finish \/ UNCHANGED qvars
    BY <1>3 DEF Next, EventThread, DeployThread, vars, Connect, Send, Reset, Modify,
                EpollWait, HangUp, AcceptClient, NotifyEvent, ReadModify, ReadNothing,
                HandleHttpEvent, HandOver, StartDeploy, Popen, Fork, EndCommand,
                ScanDirectory, OpenFiles, CloseFiles, FinishDeploy
  <2>2. up' = up /\ (~up => started' = started)
    BY <2>1 DEF Queue!Request, Queue!Start, Queue!Finish, qvars
  <2>3. QED
    BY <2>2 DEF ExitTakesDeployments
<1>4. QED
  BY <1>2, <1>3

\* An answer is given once, and makes a request if the push is wanted.
LEMMA TicketsStep ==
  ASSUME TypeOK, Ownership, Tickets, [Next]_vars
  PROVE  Tickets'
<1>1. /\ ticket \in [Clients -> Nat] /\ requested \in Nat
      /\ conn \in [Clients -> {"new", "queued", "open", "answered", "dropped"}]
      /\ \A e \in batch : e.fd \in Fds
      /\ \A c \in Clients : IsOpen(c) => conn[c] = "open"
      /\ own \subseteq Fds
  BY DEF TypeOK, Ownership
<1>2. requested' \in Nat /\ requested' >= requested
  BY <1>1, QueueStep DEF Queue!Request, Queue!Start, Queue!Finish, Queue!Stop, qvars
<1>3. ASSUME ticket' = ticket,
             \A c \in Clients : \/ conn'[c] = conn[c]
                                \/ conn[c] # "answered" /\ conn'[c] # "answered"
      PROVE  Tickets'
  BY <1>1, <1>2, <1>3 DEF Tickets
<1>4. CASE HandleHttpEvent
  <2>1. PICK e \in batch, outcome \in {"answered", "dropped"} :
          /\ outcome \in Outcomes(fds[e.fd])
          /\ conn' = [c \in Clients |-> IF c = fds[e.fd] THEN outcome ELSE conn[c]]
          /\ HandOver(fds[e.fd], outcome)
    <3>1. QED
      BY <1>4 DEF HandleHttpEvent, Outcomes
  <2> DEFINE f == fds[e.fd]
  <2>2. f \in Clients => conn[f] = "open" /\ ticket[f] = 0
    BY <1>1 DEF IsOpen, Tickets
  <2>3. \A c \in Clients : conn'[c] = IF c = f THEN outcome ELSE conn[c]
    BY <2>1
  <2>4. CASE Triggers(f, outcome)
    <3>1. f \in Clients /\ f \in Wanted /\ outcome = "answered"
      BY <2>4, LoopAssumption DEF Triggers
    <3>2. requested' = requested + 1 /\ ticket' = [ticket EXCEPT ![f] = requested + 1]
      BY <2>1, <2>4 DEF HandOver, Queue!Request
    <3>3. ticket'[f] = requested + 1 /\ \A c \in Clients : c # f => ticket'[c] = ticket[c]
      BY <1>1, <3>1, <3>2
    <3>4. \A c \in Clients : ticket[c] \in 0..requested
      BY <1>1 DEF Tickets
    <3> HIDE DEF f
    <3>5. QED
      BY <1>1, <2>2, <2>3, <3>1, <3>2, <3>3, <3>4 DEF Tickets
  <2>5. CASE ~Triggers(f, outcome)
    <3>1. ticket' = ticket
      BY <2>1, <2>5 DEF HandOver
    <3>2. f \in Clients /\ outcome = "answered" => f \notin Wanted
      BY <2>5 DEF Triggers
    <3> HIDE DEF f
    <3>3. QED
      BY <1>1, <1>2, <2>2, <2>3, <3>1, <3>2 DEF Tickets
  <2>6. QED
    BY <2>4, <2>5
<1>5. CASE HangUp
  <2>1. PICK e \in batch :
          conn' = [c \in Clients |-> IF c = fds[e.fd] THEN "dropped" ELSE conn[c]]
    <3>1. QED
      BY <1>5 DEF HangUp
  <2>2. ticket' = ticket
    BY <1>5 DEF HangUp
  <2>3. fds[e.fd] \in Clients => conn[fds[e.fd]] = "open"
    BY <1>1 DEF IsOpen
  <2>4. \A c \in Clients : \/ conn'[c] = conn[c]
                           \/ conn[c] # "answered" /\ conn'[c] # "answered"
    BY <2>1, <2>3
  <2>5. QED
    BY <1>3, <2>2, <2>4
<1>6. CASE AcceptClient \/ \E c \in Clients : Connect(c)
  <2>1. ticket' = ticket
    BY <1>6 DEF AcceptClient, Connect
  <2>2. PICK c \in Clients : /\ conn[c] \in {"new", "queued"}
                            /\ \/ conn' = [conn EXCEPT ![c] = "queued"]
                               \/ conn' = [conn EXCEPT ![c] = "open"]
    <3>1. CASE AcceptClient
      BY <3>1 DEF AcceptClient
    <3>2. ASSUME NEW c \in Clients, Connect(c)
          PROVE  conn[c] = "new" /\ conn' = [conn EXCEPT ![c] = "queued"]
      BY <3>2 DEF Connect
    <3>3. QED
      BY <1>6, <3>1, <3>2
  <2>3. \A d \in Clients : \/ conn'[d] = conn[d]
                           \/ conn[d] # "answered" /\ conn'[d] # "answered"
    BY <1>1, <2>2
  <2>4. QED
    BY <1>3, <2>1, <2>3
<1>7. CASE ticket' = ticket /\ conn' = conn
  BY <1>3, <1>7
<1>8. CASE Fork \/ EndCommand \/ CloseFiles
  <2>1. PICK S \in SUBSET own : GiveBack(S) /\ ticket' = ticket
    BY <1>8, GiveBackStep
  <2>2. ASSUME NEW c \in Clients, \E fd \in S : fds[fd] = c PROVE conn[c] = "open"
    BY <1>1, <2>1, <2>2 DEF IsOpen
  <2>3. \A c \in Clients : \/ conn'[c] = conn[c]
                           \/ conn[c] # "answered" /\ conn'[c] # "answered"
    BY <2>1, <2>2 DEF GiveBack
  <2>4. QED
    BY <1>3, <2>1, <2>3
<1>9. QED
  <2>1. \/ HandleHttpEvent \/ HangUp \/ AcceptClient \/ \E c \in Clients : Connect(c)
        \/ Fork \/ EndCommand \/ CloseFiles
        \/ ticket' = ticket /\ conn' = conn
    BY DEF Next, EventThread, DeployThread, vars, clients, Send, Reset, Modify, EpollWait,
           AcceptError, NotifyEvent, ReadModify, ReadNothing, StartDeploy, Popen,
           PopenError, ScanDirectory, OpenFiles, FinishDeploy
  <2>2. QED
    BY <1>4, <1>5, <1>6, <1>7, <1>8, <2>1

\* What holds of the descriptors and requests whatever commands inherit and clients do.
THEOREM DescriptorsCorrect == Spec => []DescriptorInv
<1>1. Init => DescriptorInv /\ KernelOK
  <2> SUFFICES ASSUME Init PROVE DescriptorInv /\ KernelOK
    OBVIOUS
  <2>1. TypeOK /\ KernelOK
    BY TypeInit, KernelInit
  <2>2. \A fd \in Fds : fds[fd] \notin Clients \cup {"dir", "temp"}
    BY LoopAssumption DEF Init
  <2>3. Ownership
    BY <2>2 DEF Ownership, IsOpen
  <2>4. Capacity
    <3>1. Pending = {} /\ batch = {}
      BY DEF Init, Pending
    <3>2. QED
      BY <3>1, FS_EmptySet, LoopAssumption DEF Capacity
  <2>5. Leaks
    <3>1. Leaked = {}
      BY <2>2 DEF Leaked
    <3>2. ~running /\ scanned = 0 /\ started = 0
      BY DEF Init, Queue!Init
    <3>3. QED
      BY <3>1, <3>2, FS_EmptySet, LoopAssumption DEF Leaks
  <2>6. ExitTakesDeployments
    BY DEF Init, Queue!Init, ExitTakesDeployments
  <2>7. Tickets
    BY DEF Init, Tickets
  <2>8. Calls
    <3>1. call = "none" /\ own = {} /\ held = {} /\ ListenFd \in Fds
      BY LoopAssumption DEF Init, Fds, ListenFd
    <3>2. QED
      BY <2>2, <3>1 DEF Calls
  <2>9. QED
    BY <2>1, <2>3, <2>4, <2>5, <2>6, <2>7, <2>8 DEF DescriptorInv, KernelOK
<1>2. DescriptorInv /\ KernelOK /\ [Next]_vars => DescriptorInv' /\ KernelOK'
  <2> SUFFICES ASSUME DescriptorInv, KernelOK, [Next]_vars PROVE DescriptorInv' /\ KernelOK'
    OBVIOUS
  <2>1. conn \in [Clients -> {"new", "queued", "open", "answered", "dropped"}]
    BY DEF DescriptorInv, TypeOK
  <2>2. TypeOK' /\ KernelOK'
    BY TypeStep, KernelStep DEF DescriptorInv
  <2>3. Ownership'
    BY <2>1, OwnershipStep DEF DescriptorInv
  <2>4. Capacity'
    BY <2>1, CapacityStep DEF DescriptorInv
  <2>5. Leaks'
    BY LeaksStep DEF DescriptorInv
  <2>6. ExitTakesDeployments'
    BY ExitStep DEF DescriptorInv
  <2>7. Tickets'
    BY TicketsStep DEF DescriptorInv
  <2>8. Calls'
    BY CallsStep DEF DescriptorInv
  <2>9. QED
    BY <2>2, <2>3, <2>4, <2>5, <2>6, <2>7, <2>8 DEF DescriptorInv, KernelOK
<1>3. QED
  BY <1>1, <1>2, PTL DEF Spec

\* The daemon ends for want of a descriptor, in accept or in popen, only after enough
\* deployments to fill the table with directories, but for MaxOpen + 2 descriptors.
THEOREM ExitIsLeak == Spec => []ExitTakesDeployments
<1>1. DescriptorInv => ExitTakesDeployments
  BY DEF DescriptorInv
<1>2. QED
  BY <1>1, DescriptorsCorrect, PTL

NoInheritedReset == "inherited_reset" \notin Faults

\* A descriptor that is closed has been deleted from epoll, or its file is
\* forgotten with it; no second event of a batch and no command holds it.
LEMMA RegistrationsStep ==
  ASSUME NoInheritedReset, KernelOK, Registrations, Ownership, NoStaleEvent, OnlyResetIsDropped,
         conn \in [Clients -> {"new", "queued", "open", "answered", "dropped"}], [Next]_vars
  PROVE  Registrations' /\ NoStaleEvent' /\ OnlyResetIsDropped'
<1> DEFINE Goal == Registrations' /\ NoStaleEvent' /\ OnlyResetIsDropped'
<1> USE LoopAssumption DEF Registrations, NoStaleEvent, OnlyResetIsDropped, kernel, clients,
                           Handle
<1>1. /\ fds \in [Fds -> Files \cup {"free"}]
      /\ interest \subseteq Fds \X (Clients \cup {"listen", "notify"})
      /\ \A e \in batch : e.fd \in Fds /\ e.file \in Clients \cup {"listen", "notify"}
      /\ "listen" \notin Clients /\ "notify" \notin Clients /\ "dir" \notin Clients
      /\ "free" \notin Clients /\ "temp" \notin Clients
      /\ held \subseteq Clients /\ own \subseteq Fds
  BY DEF KernelOK
<1>2. \A e \in batch : e.fd \notin {ListenFd, NotifyFd} => e.file \in Clients
  BY <1>1 DEF KernelOK, Places
<1>3. \A e \in batch : e.hup => e.file \in broken /\ e.file \in Clients
  BY DEF KernelOK, Places
<1>4. ASSUME NEW e \in batch, fds[e.fd] \in Clients, batch' = batch \ {e},
             fds' = [fds EXCEPT ![e.fd] = "free"],
             \A r \in interest' : r \in interest /\ r # <<e.fd, fds[e.fd]>>,
             UNCHANGED <<held, broken, own>>,
             \A c \in Clients : c # fds[e.fd] => conn'[c] = conn[c],
             conn'[fds[e.fd]] = "dropped" => fds[e.fd] \in broken
      PROVE  Goal
  <2>1. \A x \in batch' : x.fd # e.fd
    BY <1>1, <1>4
  <2>2. \A r \in interest' : r[1] # e.fd
    <3>1. SUFFICES ASSUME NEW r \in interest', r[1] = e.fd PROVE FALSE
      OBVIOUS
    <3>2. r = <<r[1], r[2]>> /\ fds[r[1]] = r[2]
      BY <1>1, <1>4
    <3>3. QED
      BY <1>4, <3>1, <3>2
  <2>3. \A fd \in Fds : fd # e.fd => fds'[fd] = fds[fd]
    BY <1>1, <1>4
  <2>4. fds'[e.fd] = "free"
    BY <1>1, <1>4
  <2>5. NoStaleEvent'
    BY <1>1, <1>4, <2>1, <2>3
  <2>6. \A r \in interest' : fds'[r[1]] = r[2]
    BY <1>1, <1>4, <2>2, <2>3
  <2>7. OnlyResetIsDropped'
    BY <1>4
  <2>8. QED
    BY <1>4, <2>1, <2>5, <2>6, <2>7
<1>5. CASE HangUp
  <2>1. PICK e \in batch :
          /\ Handle(e) /\ Hup(e) /\ Close(e.fd, interest)
          /\ conn' = [c \in Clients |-> IF c = fds[e.fd] THEN "dropped" ELSE conn[c]]
          /\ UNCHANGED <<broken, own>>
    <3> HIDE LoopAssumption DEF Registrations, NoStaleEvent, OnlyResetIsDropped, Handle
    <3>1. QED
      BY <1>5 DEF HangUp, deploy
  <2>2. fds[e.fd] = e.file /\ e.file \in broken /\ e.file \in Clients
    BY <1>3, <2>1 DEF Hup
  <2>3. e.file \notin held
    BY <2>2
  <2>4. \A r \in interest' : r \in interest /\ r # <<e.fd, fds[e.fd]>>
    BY <2>1, <2>2, <2>3 DEF Close, Forget
  <2>5. QED
    BY <1>4, <2>1, <2>2, <2>4 DEF Close
<1>6. CASE HandleHttpEvent
  <2>1. PICK e \in batch, outcome \in {"answered", "dropped"} :
          /\ Handle(e) /\ e.fd \notin {ListenFd, NotifyFd} /\ Close(e.fd, Delete(e.fd))
          /\ outcome \in Outcomes(fds[e.fd])
          /\ conn' = [c \in Clients |-> IF c = fds[e.fd] THEN outcome ELSE conn[c]]
          /\ UNCHANGED <<broken, own>>
    <3> HIDE LoopAssumption DEF Registrations, NoStaleEvent, OnlyResetIsDropped, Handle
    <3>1. QED
      BY <1>6 DEF HandleHttpEvent, deploy, Outcomes
  <2>2. fds[e.fd] \in Clients
    BY <1>2, <2>1
  <2>3. \A r \in interest' : r \in interest /\ r # <<e.fd, fds[e.fd]>>
    BY <2>1 DEF Close, Forget, Delete
  <2>4. conn'[fds[e.fd]] = "dropped" => fds[e.fd] \in broken
    BY <2>1, <2>2 DEF Outcomes
  <2>5. QED
    BY <1>4, <2>1, <2>2, <2>3, <2>4 DEF Close
<1>7. CASE EpollWait
  <2>1. batch' \subseteq ReadyEvents /\ UNCHANGED <<kernel, clients, own>>
    BY <1>7 DEF EpollWait, deploy
  <2>2. ASSUME NEW e \in ReadyEvents
        PROVE  \E r \in interest : /\ e = [fd |-> r[1], file |-> r[2], hup |-> r[2] \in broken]
                                   /\ e.fd = r[1] /\ e.file = r[2] /\ fds[r[1]] = r[2]
    BY DEF ReadyEvents
  <2>3. \A e, g \in ReadyEvents : e.fd = g.fd => e = g
    BY <2>2
  <2>4. QED
    BY <2>1, <2>2, <2>3
<1>8. CASE AcceptClient
  <2>1. PICK e \in batch, c \in Clients, fd \in Fds :
          /\ Handle(e) /\ conn[c] = "queued" /\ fds[fd] = "free"
          /\ fds' = [fds EXCEPT ![fd] = c] /\ interest' = interest \cup {<<fd, c>>}
          /\ conn' = [conn EXCEPT ![c] = "open"]
          /\ UNCHANGED <<held, broken, own>>
    <3> HIDE LoopAssumption DEF Registrations, NoStaleEvent, OnlyResetIsDropped, Handle
    <3>1. QED
      BY <1>8 DEF AcceptClient, IsLowestFree, Register, deploy
  <2>2. fds'[fd] = c /\ \A g \in Fds : g # fd => fds'[g] = fds[g]
    BY <1>1, <2>1
  <2>3. \A x \in batch' : x \in batch /\ x.fd # fd
    BY <1>1, <2>1
  <2>4. \A r \in interest : r[1] # fd
    BY <1>1, <2>1
  <2>5. \A r \in interest' : fds'[r[1]] = r[2]
    BY <1>1, <2>1, <2>2, <2>4
  <2>6. NoStaleEvent'
    BY <1>1, <2>2, <2>3
  <2>7. OnlyResetIsDropped'
    BY <2>1
  <2>8. QED
    BY <2>1, <2>3, <2>5, <2>6, <2>7
<1>9. CASE ScanDirectory
  <2>1. UNCHANGED <<interest, held, clients, own, batch>>
    BY <1>9 DEF ScanDirectory
  <2>2. ASSUME NEW fd \in Fds, fds[fd] = "free", fds' = [fds EXCEPT ![fd] = "dir"] PROVE Goal
    <3>1. \A g \in Fds : fds[g] # "free" => fds'[g] = fds[g]
      BY <1>1, <2>2
    <3>2. \A g \in Fds : fds'[g] \in Clients => fds'[g] = fds[g]
      BY <1>1, <2>2
    <3>3. \A r \in interest' : fds'[r[1]] = r[2]
      BY <1>1, <2>1, <3>1
    <3>4. NoStaleEvent'
      BY <1>1, <2>1, <3>1
    <3>5. QED
      BY <1>1, <2>1, <3>1, <3>2, <3>3, <3>4
  <2>3. fds' = fds \/ \E fd \in Fds : fds[fd] = "free" /\ fds' = [fds EXCEPT ![fd] = "dir"]
    BY <1>1, <1>9, ScanStep
  <2>4. CASE fds' = fds
    BY <2>1, <2>4
  <2>5. QED
    BY <2>2, <2>3, <2>4
<1>10. ASSUME NEW c \in Clients, Connect(c) PROVE Goal
  <2>1. UNCHANGED <<kernel, broken, own, batch>> /\ conn[c] = "new"
        /\ conn' = [conn EXCEPT ![c] = "queued"]
    BY <1>10 DEF Connect, deploy
  <2>2. QED
    BY <1>1, <2>1
<1>11. ASSUME NEW c \in Clients, Reset(c) PROVE Goal
  BY <1>11 DEF Reset, NoInheritedReset, deploy
<1>12. CASE Popen \/ OpenFiles
  <2>1. PICK S \in SUBSET Fds :
          /\ \A fd \in S : fds[fd] = "free"
          /\ fds' = [fd \in Fds |-> IF fd \in S THEN "temp" ELSE fds[fd]]
          /\ own' = S
          /\ UNCHANGED <<interest, held, clients, batch>>
    <3> HIDE LoopAssumption DEF Registrations, NoStaleEvent, OnlyResetIsDropped, Handle
    <3>1. QED
      BY <1>12, TakeStep, Zenon
  <2>2. \A g \in Fds : fds[g] # "free" => fds'[g] = fds[g]
    BY <2>1
  <2>3. \A r \in interest' : fds'[r[1]] = r[2]
    BY <1>1, <2>1, <2>2
  <2>4. \A fd \in own' : fds'[fd] = "temp"
    BY <2>1
  <2>5. NoStaleEvent'
    BY <1>1, <2>1, <2>2
  <2>6. QED
    BY <2>1, <2>3, <2>4, <2>5
<1>13. CASE Fork \/ EndCommand \/ CloseFiles
  <2>1. PICK S \in SUBSET own : /\ GiveBack(S) /\ interest' \subseteq interest
                                /\ UNCHANGED <<sent, broken, batch>>
    <3> HIDE LoopAssumption DEF Registrations, NoStaleEvent, OnlyResetIsDropped, Handle
    <3>1. QED
      BY <1>13, GiveBackStep, Zenon
  <2>2. \A g \in Fds : fds[g] # "temp" => g \notin S /\ fds'[g] = fds[g]
    BY <2>1 DEF GiveBack
  <2>3. conn' = conn
    <3>1. \A c \in Clients : ~\E fd \in S : fds[fd] = c
      BY <1>1, <2>1
    <3>2. QED
      BY <2>1, <3>1 DEF GiveBack
  <2>4. \A r \in interest' : fds'[r[1]] = r[2]
    BY <1>1, <2>1, <2>2
  <2>5. \A fd \in own' : fds'[fd] = "temp"
    BY <1>1, <2>1 DEF GiveBack
  <2>6. NoStaleEvent'
    BY <1>1, <2>1, <2>2
  <2>7. held' \cap broken' = {}
    BY <1>13, <2>1 DEF Fork, EndCommand, CloseFiles, NoInheritedReset
  <2>8. QED
    BY <2>1, <2>3, <2>4, <2>5, <2>6, <2>7
<1>14. CASE UNCHANGED <<kernel, conn, broken, own>> /\ batch' \subseteq batch
  BY <1>14
<1>15. CASE \/ \E c \in Clients : Send(c)
            \/ Modify \/ AcceptError \/ NotifyEvent \/ ReadModify \/ ReadNothing
            \/ StartDeploy \/ PopenError \/ FinishDeploy \/ UNCHANGED vars
  <2>1. UNCHANGED <<kernel, conn, broken, own>> /\ batch' \subseteq batch
    BY <1>15 DEF Send, Modify, AcceptError, NotifyEvent, ReadModify, ReadNothing,
                 StartDeploy, PopenError, FinishDeploy, deploy, vars
  <2>2. QED
    BY <1>14, <2>1
<1>16. QED
  BY <1>5, <1>6, <1>7, <1>8, <1>9, <1>10, <1>11, <1>12, <1>13, <1>15
     DEF Next, EventThread, DeployThread

\* A push that is wanted becomes a request exactly when it is answered.
THEOREM AnswersAreRequests == Spec => []Tickets
<1>1. DescriptorInv => Tickets
  BY DEF DescriptorInv
<1>2. QED
  BY <1>1, DescriptorsCorrect, PTL

\* If no command keeps a reset connection, the whole invariant holds for every
\* number of clients, descriptors and commands.
THEOREM LoopCorrect == NoInheritedReset => (Spec => []LoopInv)
<1> SUFFICES ASSUME NoInheritedReset PROVE Spec => []LoopInv
  OBVIOUS
<1>1. Init => Registrations /\ NoStaleEvent /\ OnlyResetIsDropped
  <2> SUFFICES ASSUME Init PROVE Registrations /\ NoStaleEvent /\ OnlyResetIsDropped
    OBVIOUS
  <2>1. \A r \in interest : fds[r[1]] = r[2]
    BY LoopAssumption DEF Init, Fds, ListenFd, NotifyFd
  <2>2. batch = {} /\ held = {} /\ own = {} /\ \A c \in Clients : conn[c] = "new"
    BY DEF Init
  <2>3. QED
    BY <2>1, <2>2 DEF Registrations, NoStaleEvent, OnlyResetIsDropped
<1>2. DescriptorInv /\ Registrations /\ NoStaleEvent /\ OnlyResetIsDropped /\ [Next]_vars
        => Registrations' /\ NoStaleEvent' /\ OnlyResetIsDropped'
  <2> SUFFICES ASSUME DescriptorInv, Registrations, NoStaleEvent, OnlyResetIsDropped, [Next]_vars
               PROVE  Registrations' /\ NoStaleEvent' /\ OnlyResetIsDropped'
    OBVIOUS
  <2>1. /\ KernelOK /\ Ownership
        /\ conn \in [Clients -> {"new", "queued", "open", "answered", "dropped"}]
    BY DEF DescriptorInv, TypeOK, KernelOK
  <2>2. QED
    BY <2>1, RegistrationsStep
<1>3. Spec => []DescriptorInv
  BY DescriptorsCorrect
<1>4. LoopInv <=> DescriptorInv /\ Registrations /\ NoStaleEvent /\ OnlyResetIsDropped
  BY DEF LoopInv
<1>5. QED
  BY <1>1, <1>2, <1>3, <1>4, PTL DEF Spec

\* The two invariants on their own. No event is handled for another file.
THEOREM EventsAreFresh == NoInheritedReset => (Spec => []NoStaleEvent)
<1> SUFFICES ASSUME NoInheritedReset PROVE Spec => []NoStaleEvent
  OBVIOUS
<1>1. LoopInv => NoStaleEvent
  BY DEF LoopInv
<1>2. Spec => []LoopInv
  BY LoopCorrect
<1>3. QED
  BY <1>1, <1>2, PTL

\* Only a connection its client has reset is closed without an answer.
THEOREM DroppedWasReset == NoInheritedReset => (Spec => []OnlyResetIsDropped)
<1> SUFFICES ASSUME NoInheritedReset PROVE Spec => []OnlyResetIsDropped
  OBVIOUS
<1>1. LoopInv => OnlyResetIsDropped
  BY DEF LoopInv
<1>2. Spec => []LoopInv
  BY LoopCorrect
<1>3. QED
  BY <1>1, <1>2, PTL

\* The triggers of the event loop, its exit and the deployments it sees behave as
\* the queue that CondVarMng implements.
THEOREM LoopImplementsQueue == Spec => Queue!Spec
<1>1. Init => Queue!Init
  BY DEF Init
<1>2. [Next]_vars => [Queue!Next]_(Queue!vars)
  BY QueueStep DEF Queue!Next, Queue!vars, qvars
<1>3. QED
  BY <1>1, <1>2, PTL DEF Spec, Queue!Spec
=============================================================================
