----------------------------- MODULE EventLoop -----------------------------
(***************************************************************************)
(* event_service: one thread waits with epoll for the listening socket,    *)
(* the inotify descriptor of the log and the accepted connections, and     *)
(* handles what is ready, event by event. The deploy thread shares the     *)
(* table of descriptors with it: every directory it reads stays open, each *)
(* command takes the two ends of a pipe, each file it reads or writes one  *)
(* descriptor or two, and the commands inherit the connections that are    *)
(* open then. The triggers go into DeployQueue, which the hand-over        *)
(* implements.                                                             *)
(*                                                                         *)
(* The kernel registers a descriptor together with the file it denotes,    *)
(* and forgets the registration when the last reference to the file, here  *)
(* or in a command, is closed. What a client sends is Webhook's matter:    *)
(* here it has sent something or nothing.                                  *)
(***************************************************************************)
EXTENDS Naturals, FiniteSets

CONSTANTS Clients,     \* connections
          Wanted,      \* those whose push is accepted and http_body_pred holds for
          MaxOpen,     \* bound on the connections at a time
          MaxFd,       \* the highest descriptor, counted from listen_fd on
          MaxEvents,   \* size of the array evs
          MaxChanges,  \* bound on the changes of the log
          MaxDirs,     \* directories in the tree under sub_so_dir, at most
          Faults       \* "reset": clients may reset their connection;
                       \* "inherited_reset": also when a command has inherited it

Fds == 0..MaxFd
ListenFd == 0
NotifyFd == 1
Files == Clients \cup {"listen", "notify", "dir", "temp"}

ASSUME LoopAssumption ==
  /\ IsFiniteSet(Clients) /\ Wanted \subseteq Clients
  /\ Clients \cap {"listen", "notify", "dir", "temp", "free"} = {}
  /\ MaxOpen \in Nat /\ MaxFd \in Nat \ {0} /\ MaxEvents \in Nat \ {0} /\ MaxChanges \in Nat
  /\ MaxDirs \in Nat \ {0}
  /\ Faults \subseteq {"reset", "inherited_reset"}

VARIABLES fds,                       \* descriptor -> open file, or "free"
          interest,                  \* epoll: registered <<descriptor, file>>
          held,                      \* connections a running command has inherited
          conn, sent, broken,        \* clients: state, those that have sent
                                     \* something, those that were reset
          changes, made,             \* inotify record waiting; changes made
          loop, batch,               \* position of the event thread, events to handle
          scanned,                   \* deploy thread: directories this run has read,
          call, own,                 \* the call it is in, with its descriptors
          ticket,                    \* history: request a client's push became
          requested, started, finished, running, up   \* DeployQueue

Queue == INSTANCE DeployQueue

qvars   == <<requested, started, finished, running, up>>
kernel  == <<fds, interest, held>>
clients == <<conn, sent, broken>>
log     == <<changes, made>>
deploy  == <<scanned, call, own>>
vars    == <<kernel, clients, log, loop, batch, deploy, ticket, qvars>>

Init == /\ fds = [fd \in Fds |-> CASE fd = ListenFd -> "listen" [] fd = NotifyFd -> "notify"
                                   [] OTHER -> "free"]
        /\ interest = {<<ListenFd, "listen">>, <<NotifyFd, "notify">>}
        /\ held = {}
        /\ conn = [c \in Clients |-> "new"] /\ sent = {} /\ broken = {}
        /\ changes = FALSE /\ made = 0
        /\ loop = "events" /\ batch = {}
        /\ scanned = 0 /\ call = "none" /\ own = {}
        /\ ticket = [c \in Clients |-> 0]
        /\ Queue!Init

IsOpen(c) == \E fd \in Fds : fds[fd] = c
-----------------------------------------------------------------------------
(* Clients and the file system *)

Connect(c) == /\ conn[c] = "new"
              /\ Cardinality({d \in Clients : conn[d] \in {"queued", "open"}}) < MaxOpen
              /\ conn' = [conn EXCEPT ![c] = "queued"]
              /\ UNCHANGED <<kernel, sent, broken, log, loop, batch, deploy, ticket, qvars>>

Send(c) == /\ conn[c] \in {"queued", "open"} /\ c \notin broken \cup sent
           /\ sent' = sent \cup {c}
           /\ UNCHANGED <<kernel, conn, broken, log, loop, batch, deploy, ticket, qvars>>

Reset(c) == /\ "reset" \in Faults
            /\ conn[c] \in {"queued", "open"} /\ c \notin broken
            /\ c \in held => "inherited_reset" \in Faults
            /\ broken' = broken \cup {c}
            /\ UNCHANGED <<kernel, conn, sent, log, loop, batch, deploy, ticket, qvars>>

\* Equal records that follow each other are merged by inotify.
Modify == /\ made < MaxChanges
          /\ made' = made + 1
          /\ changes' = TRUE
          /\ UNCHANGED <<kernel, clients, loop, batch, deploy, ticket, qvars>>
-----------------------------------------------------------------------------
(* The event thread *)

\* After its answer a client closes, so that a served connection stays readable.
Readable(c) == c \in broken \cup sent
Ready(f) == \/ f = "listen" /\ \E c \in Clients : conn[c] = "queued"
            \/ f = "notify" /\ changes
            \/ f \in Clients /\ Readable(f)
ReadyEvents == {[fd |-> r[1], file |-> r[2], hup |-> r[2] \in broken] :
                  r \in {r \in interest : Ready(r[2])}}

EpollWait == /\ up /\ loop = "events" /\ batch = {}
             /\ ReadyEvents # {}
             /\ batch' \in {b \in SUBSET ReadyEvents :
                  \/ b = ReadyEvents /\ Cardinality(b) <= MaxEvents
                  \/ Cardinality(b) = MaxEvents}
             /\ UNCHANGED <<kernel, clients, log, loop, deploy, ticket, qvars>>

\* The event the loop has come to, with the file its descriptor denotes now.
Handle(e) == /\ up /\ loop = "events"
             /\ e \in batch
             /\ batch' = batch \ {e}

\* close(): epoll forgets a file nobody refers to any more.
Forget(f, i) == {r \in i : r[2] # f \/ f \in held}
Close(fd, i) == /\ fds' = [fds EXCEPT ![fd] = "free"]
                /\ interest' = Forget(fds[fd], i)
                /\ UNCHANGED held

\* epoll_ctl(EPOLL_CTL_DEL): of the file the descriptor denotes, whoever holds it.
NoDelete(fd) == interest
Delete(fd) == interest \ {<<fd, fds[fd]>>}

\* EPOLLHUP or EPOLLERR: the descriptor is closed, but not deleted from epoll.
AnyHup(e) == \E other \in batch \cup {e} : other.hup
Hup(e) == e.hup

HangUp == \E e \in batch :
  /\ Handle(e)
  /\ Hup(e)
  /\ Close(e.fd, interest)
  /\ conn' = [c \in Clients |-> IF c = fds[e.fd] THEN "dropped" ELSE conn[c]]
  /\ UNCHANGED <<sent, broken, log, loop, deploy, ticket, qvars>>

IsLowestFree(fd) == fds[fd] = "free" /\ \A g \in Fds : fds[g] = "free" => fd <= g

AcceptOnce(fd, c) == interest' = (interest \cup {<<fd, c>>}) \ {<<ListenFd, "listen">>}
Register(fd, c) == interest' = interest \cup {<<fd, c>>}

AcceptClient == \E e \in batch, c \in Clients, fd \in Fds :
  /\ Handle(e)
  /\ ~Hup(e) /\ e.fd = ListenFd
  /\ conn[c] = "queued"
  /\ IsLowestFree(fd)
  /\ fds' = [fds EXCEPT ![fd] = c]
  /\ Register(fd, c)
  /\ conn' = [conn EXCEPT ![c] = "open"]
  /\ UNCHANGED <<held, sent, broken, log, loop, deploy, ticket, qvars>>

\* No descriptor is left: exit(EXIT_FAILURE).
AcceptError == \E e \in batch :
  /\ Handle(e)
  /\ ~Hup(e) /\ e.fd = ListenFd
  /\ \A fd \in Fds : fds[fd] # "free"
  /\ Queue!Stop
  /\ UNCHANGED <<kernel, clients, log, loop, deploy, ticket>>

\* handle_file_notify reads until nothing is left.
NotifyEvent == \E e \in batch :
  /\ Handle(e)
  /\ ~Hup(e) /\ e.fd = NotifyFd
  /\ loop' = "notify"
  /\ UNCHANGED <<kernel, clients, log, deploy, ticket, qvars>>

ReadModify == /\ up /\ loop = "notify" /\ changes
              /\ changes' = FALSE
              /\ Queue!Request
              /\ UNCHANGED <<kernel, clients, made, loop, batch, deploy, ticket>>

ReadNothing == /\ up /\ loop = "notify" /\ ~changes
               /\ loop' = "events"
               /\ UNCHANGED <<kernel, clients, log, batch, deploy, ticket, qvars>>

\* handle_http_event, for the file that the descriptor denotes: recv fails on what is
\* no connection, returns what a client sent before it reset its connection or fails
\* on that too, and waits for a client that has sent nothing. Then the descriptor is
\* deleted and closed.
Outcomes(f) == (IF f \in broken THEN {"dropped"} ELSE {}) \cup
               (IF f \in broken \ sent THEN {} ELSE {"answered"})
NeverTriggers(f, outcome) == FALSE
Triggers(f, outcome) == f \in Wanted /\ outcome = "answered"

HandOver(f, outcome) ==
  IF Triggers(f, outcome)
  THEN Queue!Request /\ ticket' = [ticket EXCEPT ![f] = requested + 1]
  ELSE UNCHANGED <<ticket, qvars>>

HandleHttpEvent == \E e \in batch :
  LET f == fds[e.fd] IN
  /\ Handle(e)
  /\ ~Hup(e) /\ e.fd \notin {ListenFd, NotifyFd}
  /\ f \in Clients => Readable(f)
  /\ \E outcome \in Outcomes(f) :
       /\ conn' = [c \in Clients |-> IF c = f THEN outcome ELSE conn[c]]
       /\ HandOver(f, outcome)
  /\ Close(e.fd, Delete(e.fd))
  /\ UNCHANGED <<sent, broken, log, loop, deploy>>

EventThread == \/ EpollWait \/ HangUp \/ AcceptClient \/ AcceptError \/ NotifyEvent
               \/ ReadModify \/ ReadNothing \/ HandleHttpEvent
-----------------------------------------------------------------------------
(* The deploy thread *)

StartDeploy == /\ Queue!Start
               /\ UNCHANGED <<kernel, clients, log, loop, batch, deploy, ticket>>

\* Commands run before the directories are read, and after.
Between == up /\ running /\ call = "none"
AtCommand == Between /\ scanned \in {0, MaxDirs}

\* pipe() and open() take the lowest descriptors that are free.
Take(name, S) == /\ \A fd \in S : fds[fd] = "free"
                 /\ \A fd \in S, g \in Fds : fds[g] = "free" /\ g < fd => g \in S
                 /\ fds' = [fd \in Fds |-> IF fd \in S THEN "temp" ELSE fds[fd]]
                 /\ own' = S
                 /\ call' = name

\* The descriptors in S are closed, whatever they denote now.
GiveBack(S) == /\ fds' = [fd \in Fds |-> IF fd \in S THEN "free" ELSE fds[fd]]
               /\ conn' = [c \in Clients |-> IF \E fd \in S : fds[fd] = c THEN "dropped"
                                                                        ELSE conn[c]]
               /\ own' = own \ S

\* popen begins with a pipe. Without two descriptors for it there is no stream, and
\* fgets crashes the daemon.
Popen == /\ AtCommand
         /\ \E fd, g \in Fds : fd # g /\ Take("pipe", {fd, g})
         /\ UNCHANGED <<interest, held, clients, log, loop, batch, scanned, ticket, qvars>>

PopenError == /\ AtCommand
              /\ \A fd, g \in Fds : fds[fd] = "free" /\ fds[g] = "free" => fd = g
              /\ Queue!Stop
              /\ UNCHANGED <<kernel, clients, log, loop, batch, deploy, ticket>>

\* The command inherits every connection that is open, and the daemon closes the
\* end that the command writes to, the second of the two.
Fork == /\ up /\ call = "pipe"
        /\ held' = {c \in Clients : IsOpen(c)}
        /\ held' \cap broken # {} => "inherited_reset" \in Faults
        /\ \E fd \in own : /\ \A g \in own : g <= fd
                           /\ GiveBack({fd})
                           /\ interest' = {r \in interest : r[2] # fds[fd] \/ r[2] \in held'}
        /\ call' = "command"
        /\ UNCHANGED <<sent, broken, log, loop, batch, scanned, ticket, qvars>>

\* It ends: pclose, and epoll forgets what only the command still referred to.
EndCommand == /\ up /\ call = "command"
              /\ GiveBack(own)
              /\ held' = {}
              /\ interest' = {r \in interest : \E fd \in Fds : fds'[fd] = r[2]}
              /\ call' = "none"
              /\ UNCHANGED <<sent, broken, log, loop, batch, scanned, ticket, qvars>>

\* fetch_dir_files goes on with a directory below, other than . and .., or there
\* is none or none that can be reached.
ReadsItself == scanned' \in {scanned, MaxDirs}
Reads == scanned' \in {scanned + 1, MaxDirs}

\* It opens a directory for good, if a descriptor is free.
ScanDirectory == /\ Between /\ scanned < MaxDirs
                 /\ Reads
                 /\ fds' = [fd \in Fds |-> IF IsLowestFree(fd) THEN "dir" ELSE fds[fd]]
                 /\ UNCHANGED <<interest, held, clients, log, loop, batch, call, own, ticket,
                                qvars>>

\* A file that is hashed, or the journal of the database and its directory; without
\* a descriptor there is an error that nobody looks at.
OpenFiles == /\ Between /\ scanned = MaxDirs
             /\ \E fd, g \in Fds : Take("files", {fd, g})
             /\ UNCHANGED <<interest, held, clients, log, loop, batch, scanned, ticket, qvars>>

CloseFiles == /\ up /\ call = "files"
              /\ GiveBack(own)
              /\ interest' = {r \in interest : \A fd \in own : r[2] # fds[fd] \/ r[2] \in held}
              /\ call' = "none"
              /\ UNCHANGED <<held, sent, broken, log, loop, batch, scanned, ticket, qvars>>

FinishDeploy == /\ Queue!Finish
                /\ scanned = MaxDirs /\ call = "none"
                /\ scanned' = 0
                /\ UNCHANGED <<kernel, clients, log, loop, batch, call, own, ticket>>

DeployThread == \/ StartDeploy \/ Popen \/ PopenError \/ Fork \/ EndCommand
                \/ ScanDirectory \/ OpenFiles \/ CloseFiles \/ FinishDeploy
-----------------------------------------------------------------------------
Next == \/ \E c \in Clients : Connect(c) \/ Send(c) \/ Reset(c)
        \/ Modify
        \/ EventThread
        \/ DeployThread

Spec == Init /\ [][Next]_vars

\* Both threads are scheduled; the commands of a deployment may never return.
FairSpec == Spec /\ WF_vars(EventThread) /\ WF_vars(StartDeploy)
-----------------------------------------------------------------------------
\* Types; the listening socket and the inotify descriptor are never closed.
TypeOK == /\ fds \in [Fds -> Files \cup {"free"}]
          /\ fds[ListenFd] = "listen" /\ fds[NotifyFd] = "notify"
          /\ interest \subseteq Fds \X (Clients \cup {"listen", "notify"})
          /\ held \subseteq Clients
          /\ conn \in [Clients -> {"new", "queued", "open", "answered", "dropped"}]
          /\ sent \subseteq Clients /\ broken \subseteq Clients
          /\ changes \in BOOLEAN /\ made \in 0..MaxChanges
          /\ loop \in {"events", "notify"}
          /\ batch \subseteq [fd : Fds, file : Clients \cup {"listen", "notify"}, hup : BOOLEAN]
          /\ scanned \in 0..MaxDirs
          /\ call \in {"none", "pipe", "command", "files"}
          /\ own \subseteq Fds \ {ListenFd, NotifyFd}
          /\ ticket \in [Clients -> Nat]
          /\ requested \in Nat /\ started \in 0..requested /\ finished \in 0..started
          /\ running \in BOOLEAN /\ up \in BOOLEAN

\* An event is handled for the file it happened to: between epoll_wait and the
\* handler a descriptor is not closed and given to another file.
NoStaleEvent == \A e \in batch : fds[e.fd] = e.file

\* A connection is closed without an answer only after its client has reset it:
\* no event of one connection closes another.
OnlyResetIsDropped == \A c \in Clients : conn[c] = "dropped" => c \in broken

\* Connections and the two descriptors that a call of the deploy thread takes for a
\* time do not use up the table if it is large enough for them, and a deployment uses
\* up no more than there are directories: for want of a descriptor the daemon exits or
\* crashes only after as many deployments as that takes, each for a request of its own.
ExitTakesDeployments == ~up => MaxFd <= MaxOpen + 2 + MaxDirs * started

\* A client that connects and sends something gets its answer or is closed,
\* although others are silent, reset their connection or are in the same batch.
EveryClientServed ==
  \A c \in Clients :
    conn[c] \in {"queued", "open"} /\ c \in sent ~>
      conn[c] \notin {"queued", "open"} \/ ~up

\* An answered push that was wanted is covered by a deployment that starts later,
\* unless a deployment never ends or the daemon exits.
AnsweredIsDeployed ==
  \A c \in Wanted :
    conn[c] = "answered" ~>
      (ticket[c] > 0 /\ started >= ticket[c]) \/ ~up \/ []running

(* Why the invariants hold. *)

\* The socket and inotify keep their descriptors; only connections are reset.
Places ==
  /\ \A r \in interest : /\ r[1] = ListenFd <=> r[2] = "listen"
                         /\ r[1] = NotifyFd <=> r[2] = "notify"
  /\ \A e \in batch : /\ e.fd = ListenFd <=> e.file = "listen"
                      /\ e.fd = NotifyFd <=> e.file = "notify"
                      /\ e.hup => e.file \in broken
  /\ \A fd \in Fds \ {ListenFd, NotifyFd} : fds[fd] \notin {"listen", "notify"}

\* An open connection has one descriptor, and one that is queued none.
Ownership ==
  /\ \A fd, g \in Fds : fds[fd] = fds[g] /\ fds[fd] \in Clients => fd = g
  /\ \A c \in Clients : IsOpen(c) => conn[c] = "open"

\* The listening socket is ready as long as a connection is queued, and there
\* are never more connections than MaxOpen.
Pending == {c \in Clients : conn[c] \in {"queued", "open"}}
Capacity ==
  /\ (\E e \in batch : e.file = "listen") => \E c \in Clients : conn[c] = "queued"
  /\ Cardinality(Pending) <= MaxOpen

\* Each deployment so far has left at most MaxDirs directories open, the one that
\* runs those it has read.
Leaked == {fd \in Fds : fds[fd] = "dir"}
Leaks == /\ running => /\ started > 0
                       /\ Cardinality(Leaked) <= MaxDirs * (started - 1) + scanned
         /\ ~running => scanned = 0 /\ Cardinality(Leaked) <= MaxDirs * started

\* The deploy thread has at most two descriptors for a time, and these while it is in
\* a call; a connection is inherited only while a command runs.
Calls ==
  /\ \A fd \in Fds : fds[fd] = "temp" => fd \in own
  /\ \E fd, g \in Fds : own \subseteq {fd, g}
  /\ call = "none" => own = {}
  /\ call # "none" => running
  /\ call # "command" => held = {}

\* A wanted push became a request of its own when it was answered; nothing else
\* of a client did.
Tickets ==
  /\ \A c \in Clients : IF c \in Wanted /\ conn[c] = "answered" THEN ticket[c] \in 1..requested
                                                              ELSE ticket[c] = 0
  /\ \A c, d \in Clients : ticket[c] = ticket[d] /\ ticket[c] # 0 => c = d

\* These are inductive whatever commands inherit.
DescriptorInv == /\ TypeOK /\ Places /\ Ownership /\ Capacity /\ Leaks /\ Calls /\ Tickets
                 /\ ExitTakesDeployments

\* A connection is registered at its descriptor and found there by its event; a
\* reset one belongs to no command, and nobody closes what the deploy thread holds.
Registrations ==
  /\ \A r \in interest : fds[r[1]] = r[2]
  /\ \A fd \in own : fds[fd] = "temp"
  /\ \A e, g \in batch : e.fd = g.fd => e = g
  /\ held \cap broken = {}

\* The inductive invariant, if no command can keep a reset connection.
LoopInv == /\ DescriptorInv /\ Registrations
           /\ NoStaleEvent /\ OnlyResetIsDropped
=============================================================================
