---------------------------- MODULE DeployProofs ----------------------------
(***************************************************************************)
(* Proofs about Deploy for every set of branches, files and processes, any *)
(* options and faults: its types, that the service comes back, that stored *)
(* hashes are of what was copied, that the branch of the newest webhook is *)
(* built, if git knew it and its name is handed over whole, that the files *)
(* copied have the hashes of those built, and are those built if hashes    *)
(* tell contents apart.                                                    *)
(***************************************************************************)
EXTENDS Deploy, TLAPS

\* The hashes of the files that are there.
LEMMA HashesType ==
  ASSUME NEW m \in [Files -> Contents \cup {Absent}]
  PROVE  /\ Hashes(m) \in [Files -> Md5s \cup {Absent}]
         /\ \A f \in Files : Hashes(m)[f] = Absent <=> m[f] = Absent
  BY DeployAssumption DEF Hashes

\* At the start a branch that was fetched is checked out and nothing is built.
LEMMA TypeInit == Init => TypeOK
<1> SUFFICES ASSUME Init PROVE TypeOK
  OBVIOUS
<1> USE DeployAssumption DEF Init
<1>1. /\ head \in [Branches -> 1..MaxCommits] /\ at \in Branches
      /\ local \in [Branches -> 0..MaxCommits]
      /\ local[at] > 0 /\ \A b \in Branches : local[b] <= head[b]
  OBVIOUS
<1>2. /\ build \in [Files -> Contents \cup {Absent}] /\ stored \in [Files -> Md5s \cup {Absent}]
      /\ offered \in [Files -> Contents \cup {Absent}] /\ target \in [Files -> Contents \cup {Absent}]
  BY DEF NoFiles
<1>3. wanted \in [branch : Branches \cup {Empty}, commit : 0..MaxCommits, known : BOOLEAN]
  BY DEF None
<1>4. /\ pc \in [Procs -> {"off", "wait", "checkout", "pull", "compile", "diff", "stop", "upload"}]
      /\ todo \in [Procs -> SUBSET Files]
  OBVIOUS
<1>5. /\ missed \subseteq Files /\ service \in {"up", "down"}
      /\ hurt \in BOOLEAN /\ ready \in BOOLEAN /\ clean \in BOOLEAN
  OBVIOUS
<1>6. slot \in Names \cup {Empty}
  OBVIOUS
<1>7. triggers \in 0..MaxTriggers /\ launches \in 0..MaxLaunches
  OBVIOUS
<1> HIDE DEF Init
<1>8. QED
  BY <1>1, <1>2, <1>3, <1>4, <1>5, <1>6, <1>7 DEF TypeOK

\* Every step keeps the types; git neither leaves the branches it knows nor has
\* a commit before GitLab.
LEMMA TypeStep == TypeOK /\ [Next]_vars => TypeOK'
<1> SUFFICES ASSUME TypeOK, [Next]_vars PROVE TypeOK'
  OBVIOUS
<1> USE DeployAssumption DEF TypeOK, clone, mirror, remote, memory, Goto, Fails, Works
<1>1. ASSUME NEW b \in Branches, Push(b) PROVE TypeOK'
  BY <1>1 DEF Push
<1>2. ASSUME NEW b \in Branches, Webhook(b) PROVE TypeOK'
  BY <1>2 DEF Webhook, Trigger
<1>3. CASE Modify
  BY <1>3 DEF Modify, Trigger
<1>4. ASSUME NEW p \in Procs, Launch(p) PROVE TypeOK'
  BY <1>4 DEF Launch, FirstStep
<1>5. ASSUME NEW p \in Procs, Take(p) PROVE TypeOK'
  BY <1>5 DEF Take, Quiet, Deploying
<1>6. ASSUME NEW p \in Procs, Checkout(p) PROVE TypeOK'
  <2>1. at' \in Branches /\ local[at'] > 0
    BY <1>6 DEF Checkout, Switch, Known
  <2>2. pc' = [pc EXCEPT ![p] = "pull"] /\ clean' \in BOOLEAN
    BY <1>6 DEF Checkout
  <2>3. UNCHANGED <<head, local, mirror, remote, memory, todo, launches>>
    BY <1>6 DEF Checkout
  <2>4. QED
    BY <2>1, <2>2, <2>3
<1>7. ASSUME NEW p \in Procs, Pull(p) PROVE TypeOK'
  <2>1. ASSUME NEW b \in Branches PROVE head[b] \in 1..MaxCommits /\ local[b] \in 0..MaxCommits
    OBVIOUS
  <2>2. /\ Pulled \in [Branches -> 0..MaxCommits] /\ Pulled[at] > 0
        /\ \A b \in Branches : Pulled[b] <= head[b]
    BY <2>1 DEF Pulled
  <2>3. local' = Pulled \/ local' = local
    BY <1>7 DEF Pull
  <2>4. /\ local' \in [Branches -> 0..MaxCommits] /\ local'[at] > 0
        /\ \A b \in Branches : local'[b] <= head[b]
    BY <2>2, <2>3
  <2>5. pc' = [pc EXCEPT ![p] = "compile"] /\ clean' \in BOOLEAN
    BY <1>7 DEF Pull
  <2>6. UNCHANGED <<head, at, mirror, remote, memory, todo, launches>>
    BY <1>7 DEF Pull
  <2>7. QED
    BY <2>4, <2>5, <2>6
<1>8. ASSUME NEW p \in Procs, Compile(p) PROVE TypeOK'
  <2>1. Output[Revision] \in [Files -> Contents]
    BY DEF Revision
  <2>2. build' \in [Files -> Contents \cup {Absent}]
    BY <1>8, <2>1 DEF Compile
  <2>3. ready' \in BOOLEAN
    BY <1>8 DEF Compile, Listening
  <2>4. QED
    BY <1>8, <2>2, <2>3 DEF Compile
<1>9. StoreHashes => stored' \in [Files -> Md5s \cup {Absent}]
  BY HashesType DEF StoreHashes
<1>10. Differing \subseteq Files
  BY DEF Differing
<1>11. ASSUME NEW p \in Procs, DeployDiff(p) PROVE TypeOK'
  BY <1>9, <1>10, <1>11 DEF DeployDiff
<1>12. ASSUME NEW p \in Procs, CompareDiff(p) PROVE TypeOK'
  BY <1>9, <1>10, <1>12 DEF CompareDiff
<1>13. ASSUME NEW p \in Procs, StopService(p) PROVE TypeOK'
  BY <1>13 DEF StopService, Stopped
<1>14. ASSUME NEW p \in Procs, Upload(p) PROVE TypeOK'
  <2>1. PICK f \in todo[p] :
          /\ \/ offered' = [offered EXCEPT ![f] = build[f]] /\ target' = Scp(f)
             \/ UNCHANGED <<offered, target>>
          /\ missed' \in {missed \ {f}, missed \cup {f}}
          /\ todo' = [todo EXCEPT ![p] = @ \ {f}]
    BY <1>14 DEF Upload
  <2>2. f \in Files /\ build[f] \in Contents \cup {Absent}
    OBVIOUS
  <2>3. target' = target \/ target' = [target EXCEPT ![f] = build[f]]
    BY <2>1 DEF Scp
  <2>4. target' \in [Files -> Contents \cup {Absent}]
    BY <2>2, <2>3
  <2>5. offered' \in [Files -> Contents \cup {Absent}]
    BY <2>1, <2>2
  <2>6. missed' \subseteq Files /\ todo' \in [Procs -> SUBSET Files]
    BY <2>1, <2>2
  <2>7. clean' \in BOOLEAN
    BY <1>14 DEF Upload
  <2>8. UNCHANGED <<head, clone, build, stored, service, hurt, memory, pc, launches>>
    BY <1>14 DEF Upload
  <2>9. QED
    BY <2>4, <2>5, <2>6, <2>7, <2>8
<1>15. ASSUME NEW p \in Procs, StartService(p) PROVE TypeOK'
  BY <1>15 DEF StartService, Started, LastStep
<1>16. ASSUME NEW p \in Procs, Crash(p) PROVE TypeOK'
  <2>1. None \in [branch : Branches \cup {Empty}, commit : 0..MaxCommits, known : BOOLEAN]
    BY DEF None
  <2>2. clean' \in BOOLEAN /\ hurt' \in BOOLEAN
    BY <1>16 DEF Crash, Deploying
  <2>3. /\ UNCHANGED wanted \/ wanted' = None
        /\ slot' \in Names \cup {Empty} /\ ready' \in BOOLEAN
    BY <1>16 DEF Crash
  <2>4. /\ pc' = [pc EXCEPT ![p] = "off"] /\ todo' = [todo EXCEPT ![p] = {}]
        /\ missed' \subseteq Files
    BY <1>16 DEF Crash
  <2>5. UNCHANGED <<head, clone, build, stored, offered, service, target, triggers, launches>>
    BY <1>16 DEF Crash
  <2>6. QED
    BY <2>1, <2>2, <2>3, <2>4, <2>5
<1>17. CASE UNCHANGED vars
  BY <1>17 DEF vars
<1>18. QED
  BY <1>1, <1>2, <1>3, <1>4, <1>5, <1>6, <1>7, <1>8, <1>11, <1>12, <1>13, <1>14, <1>15,
     <1>16, <1>17 DEF Next

\* Types of Deploy, whatever fails.
THEOREM TypeCorrect == Spec => []TypeOK
  BY TypeInit, TypeStep, PTL DEF Spec

\* Only a stop takes the service down, and whoever stopped it either starts it,
\* fails to, or dies while the service is down.
LEMMA ServiceStep == TypeOK /\ ServiceComesBack /\ [Next]_vars => ServiceComesBack'
<1> SUFFICES ASSUME TypeOK, ServiceComesBack, [Next]_vars PROVE ServiceComesBack'
  OBVIOUS
<1> USE DEF ServiceComesBack, remote, Goto
<1>1. pc \in [Procs -> {"off", "wait", "checkout", "pull", "compile", "diff", "stop", "upload"}]
      /\ hurt \in BOOLEAN
  BY DEF TypeOK
<1>2. CASE UNCHANGED <<service, hurt, pc>>
  BY <1>2
<1>3. ASSUME NEW p \in Procs, pc[p] # "upload", UNCHANGED <<service, hurt>>,
             NEW label, Goto(p, label)
      PROVE  ServiceComesBack'
  BY <1>1, <1>3
<1>4. ASSUME NEW p \in Procs, StopService(p) PROVE ServiceComesBack'
  BY <1>1, <1>4 DEF StopService
<1>5. ASSUME NEW p \in Procs, StartService(p) PROVE ServiceComesBack'
  BY <1>1, <1>5 DEF StartService, Started
<1>6. ASSUME NEW p \in Procs, Crash(p) PROVE ServiceComesBack'
  BY <1>1, <1>6 DEF Crash
<1>7. ASSUME NEW b \in Branches, Push(b) \/ Webhook(b) PROVE ServiceComesBack'
  BY <1>2, <1>7 DEF Push, Webhook, Trigger
<1>8. CASE Modify
  BY <1>2, <1>8 DEF Modify, Trigger
<1>9. ASSUME NEW p \in Procs, Launch(p) \/ Take(p) \/ Checkout(p) \/ Pull(p) \/ Compile(p)
      PROVE  ServiceComesBack'
  BY <1>3, <1>9 DEF Launch, Take, Checkout, Pull, Compile
<1>10. ASSUME NEW p \in Procs, DeployDiff(p) \/ CompareDiff(p) PROVE ServiceComesBack'
  BY <1>3, <1>10 DEF DeployDiff, CompareDiff
<1>11. ASSUME NEW p \in Procs, Upload(p) PROVE ServiceComesBack'
  BY <1>2, <1>11 DEF Upload
<1>12. CASE UNCHANGED vars
  BY <1>2, <1>12 DEF vars
<1>13. QED
  BY <1>4, <1>5, <1>6, <1>7, <1>8, <1>9, <1>10, <1>11, <1>12 DEF Next

\* The service is down only while somebody is about to start it, or after a
\* missed or failed start.
THEOREM ServiceReturns == Spec => []ServiceComesBack
<1>1. Init => ServiceComesBack
  BY DEF Init, ServiceComesBack
<1>2. QED
  BY <1>1, TypeCorrect, ServiceStep, PTL DEF Spec

\* A process that begins to deploy while another one does, and any fault, ends
\* the clean period; files wait only between a diff and the start of the service.
LEMMA AloneStep == TypeOK /\ Alone /\ [Next]_vars => Alone'
<1> SUFFICES ASSUME TypeOK, Alone, [Next]_vars PROVE Alone'
  OBVIOUS
<1> USE DEF Alone, Deploying, Goto
<1>1. /\ pc \in [Procs -> {"off", "wait", "checkout", "pull", "compile", "diff", "stop",
                           "upload"}]
      /\ todo \in [Procs -> SUBSET Files] /\ clean \in BOOLEAN
  BY DEF TypeOK
<1>2. CASE UNCHANGED <<pc, todo, clean>>
  BY <1>2
<1>3. ASSUME NEW p \in Procs, Deploying(p), pc[p] \notin {"stop", "upload"},
             NEW label, label # "wait", Goto(p, label),
             clean' = clean \/ clean' = FALSE, UNCHANGED todo
      PROVE  Alone'
  BY <1>1, <1>3
<1>4. ASSUME NEW p \in Procs, Launch(p) PROVE Alone'
  <2>1. CASE p \in Daemons
    <3>1. pc' = [pc EXCEPT ![p] = "wait"]
      BY <1>4, <2>1 DEF Launch, FirstStep, Daemons
    <3>2. UNCHANGED todo /\ (clean' => clean)
      BY <1>4 DEF Launch
    <3>3. QED
      BY <1>1, <1>4, <2>1, <3>1, <3>2 DEF Launch
  <2>2. CASE p \notin Daemons
    <3>1. clean' => Quiet
      BY <1>4, <2>2 DEF Launch
    <3>2. pc' = [pc EXCEPT ![p] = FirstStep(Opts[p])] /\ UNCHANGED todo /\ pc[p] = "off"
      BY <1>4 DEF Launch
    <3>3. FirstStep(Opts[p]) # "wait"
      BY <2>2, DeployAssumption DEF FirstStep, Daemons
    <3>4. QED
      BY <1>1, <3>1, <3>2, <3>3 DEF Quiet
  <2>3. QED
    BY <2>1, <2>2
<1>5. ASSUME NEW p \in Procs, Take(p) PROVE Alone'
  BY <1>1, <1>5 DEF Take, Quiet
<1>6. ASSUME NEW p \in Procs, Checkout(p) PROVE Alone'
  BY <1>3, <1>6 DEF Checkout, Works, Fails
<1>7. ASSUME NEW p \in Procs, Pull(p) PROVE Alone'
  BY <1>3, <1>7 DEF Pull, Works, Fails
<1>8. ASSUME NEW p \in Procs, Compile(p) PROVE Alone'
  BY <1>3, <1>8 DEF Compile, Works, Fails
<1>9. ASSUME NEW p \in Procs, DeployDiff(p) PROVE Alone'
  BY <1>1, <1>9 DEF DeployDiff
<1>10. ASSUME NEW p \in Procs, CompareDiff(p) PROVE Alone'
  BY <1>3, <1>10 DEF CompareDiff
<1>11. ASSUME NEW p \in Procs, StopService(p) PROVE Alone'
  BY <1>1, <1>11 DEF StopService, Works, Fails
<1>12. ASSUME NEW p \in Procs, Upload(p) PROVE Alone'
  <2>1. /\ pc[p] = "upload" /\ UNCHANGED pc /\ (clean' = clean \/ clean' = FALSE)
        /\ \E f \in todo[p] : todo' = [todo EXCEPT ![p] = @ \ {f}]
    BY <1>12 DEF Upload, Works, Fails
  <2>2. QED
    BY <1>1, <2>1
<1>13. ASSUME NEW p \in Procs, StartService(p) PROVE Alone'
  BY <1>1, <1>13 DEF StartService, LastStep, Works, Fails
<1>14. ASSUME NEW p \in Procs, Crash(p) PROVE Alone'
  BY <1>1, <1>14 DEF Crash
<1>15. ASSUME NEW b \in Branches, Push(b) \/ Webhook(b) PROVE Alone'
  BY <1>2, <1>15 DEF Push, Webhook, Trigger
<1>16. CASE Modify
  BY <1>2, <1>16 DEF Modify, Trigger
<1>17. CASE UNCHANGED vars
  BY <1>2, <1>17 DEF vars
<1>18. QED
  BY <1>4, <1>5, <1>6, <1>7, <1>8, <1>9, <1>10, <1>11, <1>12, <1>13, <1>14, <1>15, <1>16,
     <1>17 DEF Next

\* Without a fault deployments do not overlap.
LEMMA OneDeploys == Spec => []Alone
<1>1. Init => Alone
  BY DEF Init, Alone, Deploying
<1>2. QED
  BY <1>1, TypeCorrect, AloneStep, PTL DEF Spec

\* In a clean period nobody but the process that uploads touches the service.
LEMMA StoppedStep ==
  TypeOK /\ Alone /\ UploadsWhileStopped /\ [Next]_vars => UploadsWhileStopped'
<1> SUFFICES ASSUME TypeOK, Alone, UploadsWhileStopped, [Next]_vars
             PROVE  UploadsWhileStopped'
  OBVIOUS
<1> USE DEF UploadsWhileStopped, Goto, remote
<1>1. /\ pc \in [Procs -> {"off", "wait", "checkout", "pull", "compile", "diff", "stop",
                           "upload"}]
      /\ clean \in BOOLEAN
  BY DEF TypeOK
<1>2. ASSUME NEW p \in Procs, NEW label, label # "upload", Goto(p, label),
             clean' = clean \/ clean' = FALSE, UNCHANGED service
      PROVE  UploadsWhileStopped'
  BY <1>1, <1>2
<1>3. CASE UNCHANGED <<pc, clean, service>>
  BY <1>3
<1>4. ASSUME NEW p \in Procs, Launch(p) PROVE UploadsWhileStopped'
  <2>1. FirstStep(Opts[p]) \in {"diff", "checkout", "wait"}
    BY DEF FirstStep
  <2>2. Goto(p, FirstStep(Opts[p])) /\ (clean' = clean \/ clean' = FALSE) /\ UNCHANGED service
    BY <1>1, <1>4 DEF Launch, Quiet, Deploying
  <2>3. QED
    BY <1>2, <2>1, <2>2
<1>5. ASSUME NEW p \in Procs, Take(p) PROVE UploadsWhileStopped'
  BY <1>1, <1>5 DEF Take, Quiet, Deploying
<1>6. ASSUME NEW p \in Procs, Checkout(p) \/ Pull(p) \/ Compile(p)
      PROVE  UploadsWhileStopped'
  <2>1. CASE Checkout(p)
    BY <1>2, <2>1 DEF Checkout, Works, Fails
  <2>2. CASE Pull(p)
    BY <1>2, <2>2 DEF Pull, Works, Fails
  <2>3. CASE Compile(p)
    BY <1>2, <2>3 DEF Compile, Works, Fails
  <2>4. QED
    BY <1>6, <2>1, <2>2, <2>3
<1>7. ASSUME NEW p \in Procs, DeployDiff(p) \/ CompareDiff(p) PROVE UploadsWhileStopped'
  BY <1>2, <1>7 DEF DeployDiff, CompareDiff
<1>8. ASSUME NEW p \in Procs, StopService(p) PROVE UploadsWhileStopped'
  <2>1. service' = "down" \/ ~clean'
    BY <1>8 DEF StopService, Stopped, Fails
  <2>2. QED
    BY <2>1
<1>9. ASSUME NEW p \in Procs, Upload(p) PROVE UploadsWhileStopped'
  BY <1>9 DEF Upload, Works, Fails
<1>10. ASSUME NEW p \in Procs, StartService(p) PROVE UploadsWhileStopped'
  <2>1. CASE ~clean'
    BY <2>1
  <2>2. CASE clean'
    <3>1. clean /\ Deploying(p) /\ pc[p] = "upload"
      BY <1>10, <2>2 DEF StartService, Works, Fails, Deploying
    <3>2. \A q \in Procs : pc[q] = "upload" => q = p
      BY <3>1 DEF Alone, Deploying
    <3>3. pc' = [pc EXCEPT ![p] = LastStep(p)] /\ LastStep(p) # "upload"
      BY <1>10 DEF StartService, LastStep
    <3>4. QED
      BY <1>1, <3>2, <3>3
  <2>3. QED
    BY <2>1, <2>2
<1>11. ASSUME NEW p \in Procs, Crash(p) PROVE UploadsWhileStopped'
  <2>1. Goto(p, "off") /\ (clean' = clean \/ clean' = FALSE) /\ UNCHANGED service
    BY <1>1, <1>11 DEF Crash, Deploying
  <2>2. QED
    BY <1>2, <2>1
<1>12. ASSUME NEW b \in Branches, Push(b) \/ Webhook(b) PROVE UploadsWhileStopped'
  BY <1>3, <1>12 DEF Push, Webhook, Trigger
<1>13. CASE Modify
  BY <1>3, <1>13 DEF Modify, Trigger
<1>14. CASE UNCHANGED vars
  BY <1>3, <1>14 DEF vars
<1>15. QED
  BY <1>4, <1>5, <1>6, <1>7, <1>8, <1>9, <1>10, <1>11, <1>12, <1>13, <1>14 DEF Next

\* In a deployment without a fault nothing is copied under a running service.
THEOREM CopiesAreStopped == Spec => []UploadsWhileStopped
<1>1. Init => UploadsWhileStopped
  BY DEF Init, UploadsWhileStopped
<1>2. QED
  BY <1>1, TypeCorrect, OneDeploys, StoppedStep, PTL DEF Spec

\* A hash is stored together with the note that its file has to be copied, and
\* the note goes with the copy or into missed.
LEMMA StoredStep == TypeOK /\ Alone /\ StoredIsOffered /\ [Next]_vars => StoredIsOffered'
<1> SUFFICES ASSUME TypeOK, Alone, StoredIsOffered, [Next]_vars PROVE StoredIsOffered'
  OBVIOUS
<1> USE DEF StoredIsOffered, mirror
<1>1. /\ todo \in [Procs -> SUBSET Files]
      /\ stored \in [Files -> Md5s \cup {Absent}]
      /\ offered \in [Files -> Contents \cup {Absent}]
      /\ build \in [Files -> Contents \cup {Absent}]
  BY DEF TypeOK
<1>2. CASE UNCHANGED <<stored, offered, missed, todo>>
  BY <1>2
<1>3. ASSUME NEW p \in Procs, DeployDiff(p) PROVE StoredIsOffered'
  <2>1. todo[p] = {}
    BY <1>3 DEF Alone, DeployDiff
  <2>2. \A f \in Files : stored'[f] = stored[f] \/ f \in Differing
    BY <1>3 DEF DeployDiff, StoreHashes, Differing
  <2>3. todo' = [todo EXCEPT ![p] = Differing] /\ UNCHANGED <<offered, missed>>
    BY <1>3 DEF DeployDiff
  <2>4. QED
    BY <1>1, <2>1, <2>2, <2>3
<1>4. ASSUME NEW p \in Procs, CompareDiff(p) PROVE StoredIsOffered'
  <2>1. \A f \in Files : stored'[f] = stored[f] \/ f \in Differing
    BY <1>4 DEF CompareDiff, StoreHashes, Differing
  <2>2. missed' = missed \cup Differing /\ UNCHANGED <<offered, todo>>
    BY <1>4 DEF CompareDiff
  <2>3. QED
    BY <2>1, <2>2
<1>5. ASSUME NEW p \in Procs, Upload(p) PROVE StoredIsOffered'
  <2>1. PICK f \in todo[p] :
          /\ \/ /\ offered' = [offered EXCEPT ![f] = build[f]]
                /\ missed' = IF Hashes(build)[f] = stored[f] THEN missed \ {f}
                                                            ELSE missed \cup {f}
             \/ offered' = offered /\ missed' = missed \cup {f}
          /\ todo' = [todo EXCEPT ![p] = @ \ {f}]
    BY <1>5 DEF Upload
  <2>2. UNCHANGED stored /\ f \in Files
    BY <1>1, <1>5 DEF Upload
  <2>3. stored'[f] = Hashes(offered')[f] \/ f \in missed'
    <3>1. offered' = [offered EXCEPT ![f] = build[f]] => Hashes(offered')[f] = Hashes(build)[f]
      BY <1>1, <2>2 DEF Hashes
    <3>2. QED
      BY <2>1, <2>2, <3>1
  <2>4. ASSUME NEW g \in Files, g # f
        PROVE  \/ stored'[g] = Hashes(offered')[g] \/ g \in missed'
               \/ \E q \in Procs : g \in todo'[q]
    <3>1. stored'[g] = stored[g] /\ offered'[g] = offered[g] /\ (g \in missed => g \in missed')
      BY <1>1, <2>1, <2>2, <2>4
    <3>2. \A q \in Procs : g \in todo[q] => g \in todo'[q]
      BY <1>1, <2>1, <2>4
    <3>3. Hashes(offered')[g] = Hashes(offered)[g]
      BY <3>1 DEF Hashes
    <3>4. QED
      BY <3>1, <3>2, <3>3
  <2>5. QED
    BY <2>3, <2>4
<1>6. ASSUME NEW p \in Procs, Crash(p) PROVE StoredIsOffered'
  BY <1>1, <1>6 DEF Crash
<1>7. ASSUME NEW b \in Branches, Push(b) \/ Webhook(b) PROVE StoredIsOffered'
  BY <1>2, <1>7 DEF Push, Webhook, Trigger
<1>8. CASE Modify
  BY <1>2, <1>8 DEF Modify, Trigger
<1>9. ASSUME NEW p \in Procs, Launch(p) \/ Take(p) \/ Checkout(p) \/ Pull(p)
      PROVE  StoredIsOffered'
  BY <1>2, <1>9 DEF Launch, Take, Checkout, Pull
<1>10. ASSUME NEW p \in Procs, Compile(p) \/ StopService(p) \/ StartService(p)
       PROVE  StoredIsOffered'
  BY <1>2, <1>10 DEF Compile, StopService, StartService
<1>11. CASE UNCHANGED vars
  BY <1>2, <1>11 DEF vars
<1>12. QED
  BY <1>3, <1>4, <1>5, <1>6, <1>7, <1>8, <1>9, <1>10, <1>11 DEF Next

\* The stored hash of a file is that of what was copied last, but for files that wait
\* to be copied and those a failed copy, a crash, a comparison or an overlap left.
THEOREM StoredHashesAreOffered == Spec => []StoredIsOffered
<1>1. Init => StoredIsOffered
  BY DEF Init, StoredIsOffered, NoFiles, Hashes
<1>2. QED
  BY <1>1, TypeCorrect, OneDeploys, StoredStep, PTL DEF Spec

\* The string is the name cut from the branch of the newest webhook until the daemon
\* dies.
LEMMA SlotStep == TypeOK /\ Alone /\ SlotIsWanted /\ [Next]_vars => SlotIsWanted'
<1> SUFFICES ASSUME TypeOK, Alone, SlotIsWanted, [Next]_vars PROVE SlotIsWanted'
  OBVIOUS
<1> USE DeployAssumption DEF SlotIsWanted, Goto, memory, clone
<1>1. /\ pc \in [Procs -> {"off", "wait", "checkout", "pull", "compile", "diff", "stop",
                           "upload"}]
      /\ head \in [Branches -> 1..MaxCommits] /\ local \in [Branches -> 0..MaxCommits]
      /\ wanted.known \in BOOLEAN /\ \A b \in Branches : local[b] <= head[b]
      /\ \A p \in Daemons : p \in Procs
  BY DEF TypeOK, Daemons
<1>2. CASE UNCHANGED <<slot, wanted, head, local, pc>>
  BY <1>2
<1>3. ASSUME NEW p \in Procs, NEW label, Goto(p, label), label # "off" \/ p \notin Daemons,
             UNCHANGED <<slot, wanted, head>>,
             \A b \in Branches : local'[b] \in Nat /\ local[b] <= local'[b]
      PROVE  SlotIsWanted'
  BY <1>1, <1>3
<1>4. ASSUME NEW b \in Branches, Push(b) PROVE SlotIsWanted'
  <2>1. \A c \in Branches : head'[c] \in Nat /\ head[c] \in Nat /\ head'[c] >= head[c]
    BY <1>1, <1>4 DEF Push
  <2>2. UNCHANGED <<slot, wanted, pc, local>>
    BY <1>4 DEF Push
  <2>3. QED
    BY <2>1, <2>2
<1>5. ASSUME NEW b \in Branches, Webhook(b) PROVE SlotIsWanted'
  <2>1. /\ slot' = Cut[b]
        /\ wanted' = [branch |-> b, commit |-> head[b], known |-> local[b] > 0]
        /\ UNCHANGED <<head, pc, local>> /\ Listening
    BY <1>5 DEF Webhook, Trigger
  <2>2. /\ wanted'.branch = b /\ wanted'.commit = head[b] /\ head[b] \in 1..MaxCommits
        /\ wanted'.known <=> local[b] > 0
    BY <1>1, <2>1
  <2>3. /\ wanted'.branch \in Branches /\ slot' = Cut[wanted'.branch]
        /\ wanted'.commit \in 1..head'[wanted'.branch]
    BY <1>1, <2>1, <2>2
  <2>4. wanted'.known => local'[wanted'.branch] > 0
    BY <2>1, <2>2
  <2>5. \E p \in Daemons : pc'[p] # "off"
    BY <2>1 DEF Listening
  <2>6. QED
    BY <2>3, <2>4, <2>5
<1>6. CASE Modify
  BY <1>2, <1>6 DEF Modify, Trigger
<1>7. ASSUME NEW p \in Procs, Launch(p) PROVE SlotIsWanted'
  BY <1>3, <1>7 DEF Launch, FirstStep
<1>8. ASSUME NEW p \in Procs, Take(p) \/ Checkout(p) \/ Pull(p) PROVE SlotIsWanted'
  <2>1. \A b \in Branches : Pulled[b] \in Nat /\ local[b] <= Pulled[b]
    BY <1>1 DEF Pulled
  <2>2. local' = local \/ local' = Pulled
    BY <1>8 DEF Take, Checkout, Pull
  <2>3. \A b \in Branches : local'[b] \in Nat /\ local[b] <= local'[b]
    BY <1>1, <2>1, <2>2
  <2>4. \E label \in {"checkout", "pull", "compile"} : Goto(p, label)
    BY <1>8 DEF Take, Checkout, Pull
  <2>5. UNCHANGED <<slot, wanted, head>>
    BY <1>8 DEF Take, Checkout, Pull
  <2>6. QED
    BY <1>3, <2>3, <2>4, <2>5
<1>9. ASSUME NEW p \in Procs, Compile(p) \/ DeployDiff(p) \/ StopService(p)
      PROVE  SlotIsWanted'
  <2>1. UNCHANGED <<slot, wanted, head, local>>
    BY <1>9 DEF Compile, DeployDiff, StopService
  <2>2. \E label \in {"diff", "stop", "upload"} : Goto(p, label)
    BY <1>9 DEF Compile, DeployDiff, StopService
  <2>3. \A b \in Branches : local'[b] \in Nat /\ local[b] <= local'[b]
    BY <1>1, <2>1
  <2>4. QED
    BY <1>3, <2>1, <2>2, <2>3
<1>10. ASSUME NEW p \in Procs, CompareDiff(p) PROVE SlotIsWanted'
  <2>1. p \notin Daemons
    BY <1>10 DEF CompareDiff, DiffIsAll, Daemons
  <2>2. QED
    BY <1>3, <1>10, <2>1 DEF CompareDiff
<1>11. ASSUME NEW p \in Procs, Upload(p) PROVE SlotIsWanted'
  BY <1>2, <1>11 DEF Upload
<1>12. ASSUME NEW p \in Procs, StartService(p) PROVE SlotIsWanted'
  BY <1>3, <1>12 DEF StartService, LastStep
<1>13. ASSUME NEW p \in Procs, Crash(p) PROVE SlotIsWanted'
  <2>1. CASE p \in Daemons
    BY <1>13, <2>1 DEF Crash
  <2>2. CASE p \notin Daemons
    BY <1>3, <1>13, <2>2 DEF Crash
  <2>3. QED
    BY <2>1, <2>2
<1>14. CASE UNCHANGED vars
  BY <1>2, <1>14 DEF vars
<1>15. QED
  BY <1>4, <1>5, <1>6, <1>7, <1>8, <1>9, <1>10, <1>11, <1>12, <1>13, <1>14 DEF Next

\* What the daemon has reached of the newest webhook is kept by every step of
\* its own and of the processes beside it, or the deployment begins again.
LEMMA ProgressStep ==
  TypeOK /\ Alone /\ SlotIsWanted /\ Progress /\ [Next]_vars => Progress'
<1> SUFFICES ASSUME TypeOK, Alone, SlotIsWanted, Progress, [Next]_vars,
                    clean', ~ready', wanted' # None
             PROVE  Progress'
  BY DEF Progress
<1> USE DeployAssumption DEF Progress, After, Found, Goto, clone, mirror, remote, memory, Works, Fails
<1>1. /\ pc \in [Procs -> {"off", "wait", "checkout", "pull", "compile", "diff", "stop",
                           "upload"}]
      /\ head \in [Branches -> 1..MaxCommits] /\ local \in [Branches -> 0..MaxCommits]
      /\ at \in Branches /\ wanted.commit \in Nat /\ wanted.known \in BOOLEAN
      /\ clean \in BOOLEAN /\ ready \in BOOLEAN
      /\ \A b \in Branches : local[b] <= head[b]
  BY DEF TypeOK
<1>2. wanted # None => /\ Found => /\ slot \in Branches
                                    /\ wanted.commit \in 1..head[slot]
                                    /\ local[slot] > 0
                       /\ \E p \in Daemons : pc[p] # "off"
  BY DEF SlotIsWanted
<1>3. CASE UNCHANGED <<slot, ready, wanted, clean, pc, at, local, head, build, stored>>
  BY <1>3
<1>4. ASSUME NEW b \in Branches, Push(b) PROVE Progress'
  <2>1. UNCHANGED <<slot, ready, wanted, clean, pc, at, local, build, stored>>
    BY <1>4 DEF Push
  <2>2. Found => head[slot] \in Nat /\ head'[slot] \in Nat /\ head[slot] <= head'[slot]
    BY <1>1, <1>2, <1>4, <2>1 DEF Push
  <2>3. Found => wanted.commit..head[slot] \subseteq wanted.commit..head'[slot]
    BY <1>1, <2>2
  <2>4. QED
    BY <2>1, <2>3
<1>5. ASSUME NEW b \in Branches, Webhook(b) PROVE Progress'
  BY <1>5 DEF Webhook, Trigger
<1>6. CASE Modify
  BY <1>6 DEF Modify, Trigger
<1>7. ASSUME NEW p \in Procs, Launch(p) PROVE Progress'
  <2>1. /\ pc[p] = "off" /\ clean /\ ~ready /\ wanted # None
        /\ UNCHANGED <<slot, ready, wanted, at, local, head, build, stored>>
    BY <1>7, <1>1 DEF Launch
  <2>2. p \notin Daemons
    BY <1>2, <2>1
  <2>3. \A q \in Procs : q # p => pc'[q] = pc[q]
    BY <1>1, <1>7 DEF Launch
  <2>4. (\A q \in Procs : pc'[q] # "diff") => \A q \in Procs : pc[q] # "diff"
    BY <2>1, <2>3
  <2>5. ASSUME NEW q \in Procs PROVE q \in Daemons => pc'[q] = pc[q]
    BY <2>2, <2>3
  <2>6. QED
    BY <2>1, <2>4, <2>5
<1>8. ASSUME NEW p \in Procs, Take(p) PROVE Progress'
  <2>1. pc' = [pc EXCEPT ![p] = "checkout"] /\ p \in Daemons
    BY <1>8 DEF Take, Alone
  <2>2. \A q \in Procs : q \in Daemons => pc'[q] = "checkout"
    BY <1>1, <2>1
  <2>3. QED
    BY <2>2
<1>9. ASSUME NEW p \in Procs, Checkout(p) PROVE Progress'
  <2>1. /\ pc[p] = "checkout" /\ clean /\ ~ready /\ wanted # None
        /\ pc' = [pc EXCEPT ![p] = "pull"] /\ Switch(BranchOf(p))
        /\ UNCHANGED <<slot, ready, wanted, local, head, build, stored>>
    BY <1>9 DEF Checkout
  <2>2. Found => slot \in Known
    BY <1>1, <1>2, <2>1 DEF Known
  <2>3. CASE p \in Daemons
    <3>1. Found => at' = slot
      BY <2>1, <2>2, <2>3 DEF Switch, BranchOf
    <3>2. \A q \in Procs : q \in Daemons => pc'[q] = "pull"
      BY <1>1, <2>1, <2>3
    <3>3. QED
      BY <2>1, <3>1, <3>2
  <2>4. CASE p \notin Daemons
    <3>1. at' = at
      BY <2>1, <2>4 DEF Switch, BranchOf, Known
    <3>2. \A q \in Procs : q \in Daemons => pc'[q] = pc[q]
      BY <1>1, <2>1, <2>4
    <3>3. (\A q \in Procs : pc'[q] # "diff") => \A q \in Procs : pc[q] # "diff"
      BY <1>1, <2>1
    <3>4. QED
      BY <2>1, <3>1, <3>2, <3>3
  <2>5. QED
    BY <2>3, <2>4
<1>10. ASSUME NEW p \in Procs, Pull(p) PROVE Progress'
  <2>1. /\ pc[p] = "pull" /\ clean /\ ~ready /\ wanted # None
        /\ pc' = [pc EXCEPT ![p] = "compile"] /\ local' = Pulled
        /\ UNCHANGED <<slot, ready, wanted, at, head, build, stored>>
    BY <1>10 DEF Pull
  <2>2. Found /\ at = slot => wanted.commit <= local'[slot]
    BY <1>1, <1>2, <2>1 DEF Pulled
  <2>3. \A q \in Procs : After(q, {"compile", "diff"})' => After(q, {"pull", "compile", "diff"})
    BY <1>1, <2>1
  <2>4. \A q \in Procs : /\ After(q, {"diff"})' => After(q, {"diff"})
                         /\ After(q, {"pull", "compile", "diff"})'
                              => After(q, {"pull", "compile", "diff"})
                         /\ After(q, {})' => After(q, {})
    BY <1>1, <2>1
  <2>5. (\A q \in Procs : pc'[q] # "diff") => \A q \in Procs : pc[q] # "diff"
    BY <1>1, <2>1
  <2> HIDE DEF After
  <2>6. QED
    BY <2>1, <2>2, <2>3, <2>4, <2>5
<1>11. ASSUME NEW p \in Procs, Compile(p) PROVE Progress'
  <2>1. /\ pc[p] = "compile" /\ clean /\ ~ready /\ wanted # None
        /\ pc' = [pc EXCEPT ![p] = "diff"] /\ build' = Output[<<at, local[at]>>]
        /\ UNCHANGED <<slot, wanted, at, local, head, stored>>
    BY <1>1, <1>11 DEF Compile, Revision
  <2>2. Found /\ at = slot /\ wanted.commit <= local[slot]
          => \E n \in wanted.commit..head[slot] : build' = Output[<<slot, n>>]
    <3>1. SUFFICES ASSUME Found, at = slot, wanted.commit <= local[slot]
                   PROVE  \E n \in wanted.commit..head[slot] : build' = Output[<<slot, n>>]
      OBVIOUS
    <3>2. local[slot] \in wanted.commit..head[slot]
      BY <1>1, <1>2, <2>1, <3>1
    <3>3. build' = Output[<<slot, local[slot]>>]
      BY <2>1, <3>1
    <3>4. QED
      BY <3>2, <3>3
  <2>3. \A q \in Procs : /\ After(q, {"diff"})' => After(q, {"compile", "diff"})
                         /\ After(q, {"compile", "diff"})' => After(q, {"compile", "diff"})
                         /\ After(q, {"pull", "compile", "diff"})'
                              => After(q, {"pull", "compile", "diff"})
                         /\ After(q, {"compile", "diff"}) => After(q, {"pull", "compile", "diff"})
    BY <1>1, <2>1
  <2>4. pc'[p] = "diff"
    BY <1>1, <2>1
  <2>5. \A f \in Files : build'[f] # Absent
    <3>1. Output[<<at, local[at]>>] \in [Files -> Contents]
      BY DEF TypeOK
    <3>2. Absent \notin Contents
      OBVIOUS
    <3>3. \A f \in Files : build'[f] \in Contents
      BY <2>1, <3>1
    <3>4. QED
      BY <3>2, <3>3
  <2> HIDE DEF After
  <2>6. QED
    BY <2>1, <2>2, <2>3, <2>4, <2>5
<1>12. ASSUME NEW p \in Procs, DeployDiff(p) \/ CompareDiff(p) PROVE Progress'
  <2>1. /\ pc[p] = "diff" /\ clean /\ ~ready /\ wanted # None
        /\ pc' = [pc EXCEPT ![p] = "stop"] \/ (p \notin Daemons /\ pc' = [pc EXCEPT ![p] = "off"])
        /\ UNCHANGED <<slot, wanted, at, local, head, build>>
    <3>1. CASE DeployDiff(p)
      BY <3>1 DEF DeployDiff
    <3>2. CASE CompareDiff(p)
      <4>1. p \notin Daemons
        BY <3>2 DEF CompareDiff, DiffIsAll, Daemons
      <4>2. QED
        BY <3>2, <4>1 DEF CompareDiff
    <3>3. QED
      BY <1>12, <3>1, <3>2
  <2>2. \A q \in Procs : /\ After(q, {"diff"})' => After(q, {"diff"})
                         /\ After(q, {})' => After(q, {"diff"})
                         /\ After(q, {"compile", "diff"})' => After(q, {"compile", "diff"})
                         /\ After(q, {"pull", "compile", "diff"})'
                              => After(q, {"pull", "compile", "diff"})
    BY <1>1, <2>1
  <2>3. ASSUME \A f \in Files : build[f] # Absent PROVE stored' = Hashes(build)
    <3>1. stored' = [f \in Files |-> IF build[f] # Absent THEN Hashes(build)[f] ELSE stored[f]]
      BY <1>12 DEF DeployDiff, CompareDiff, StoreHashes
    <3>2. stored' = [f \in Files |-> Hashes(build)[f]]
      BY <2>3, <3>1
    <3>3. QED
      BY <3>2 DEF Hashes
  <2> HIDE DEF After
  <2>4. QED
    BY <2>1, <2>2, <2>3
<1>13. ASSUME NEW p \in Procs, StopService(p) PROVE Progress'
  <2>1. /\ pc[p] = "stop" /\ clean /\ ~ready /\ wanted # None
        /\ pc' = [pc EXCEPT ![p] = "upload"]
        /\ UNCHANGED <<slot, wanted, at, local, head, build, stored>>
    BY <1>13 DEF StopService
  <2>2. QED
    BY <1>1, <2>1
<1>14. ASSUME NEW p \in Procs, Upload(p) PROVE Progress'
  <2>1. UNCHANGED <<slot, ready, wanted, pc, at, local, head, build, stored>> /\ clean' = clean
    BY <1>14 DEF Upload
  <2>2. QED
    BY <1>3, <2>1
<1>15. ASSUME NEW p \in Procs, StartService(p) PROVE Progress'
  <2>1. /\ pc[p] = "upload" /\ clean /\ ~ready /\ wanted # None
        /\ pc' = [pc EXCEPT ![p] = IF p \in Daemons THEN "wait" ELSE "off"]
        /\ UNCHANGED <<slot, wanted, at, local, head, build, stored>>
    BY <1>15 DEF StartService, LastStep
  <2>2. QED
    BY <1>1, <2>1
<1>16. ASSUME NEW p \in Procs, Crash(p) PROVE Progress'
  <2>1. p \notin Daemons
    BY <1>16 DEF Crash
  <2>2. /\ pc[p] # "diff" /\ clean /\ pc' = [pc EXCEPT ![p] = "off"]
        /\ UNCHANGED <<slot, ready, wanted, at, local, head, build, stored>>
    BY <1>16, <2>1 DEF Crash, Deploying
  <2>3. QED
    BY <1>1, <2>1, <2>2
<1>17. CASE UNCHANGED vars
  BY <1>3, <1>17 DEF vars
<1>18. QED
  BY <1>4, <1>5, <1>6, <1>7, <1>8, <1>9, <1>10, <1>11, <1>12, <1>13, <1>14, <1>15, <1>16,
     <1>17 DEF Next

\* Nothing but a fault or an overlap keeps a deployment from doing what it is for:
\* the conjuncts that the runs check are kept together.
THEOREM DeployCorrect == Spec => []DeployInv
<1>1. Init => DeployInv
  <2> SUFFICES ASSUME Init PROVE DeployInv
    OBVIOUS
  <2>1. Alone
    BY DEF Init, Alone, Deploying
  <2>2. SlotIsWanted /\ Progress
    BY DEF Init, SlotIsWanted, Progress
  <2>3. ServiceComesBack /\ UploadsWhileStopped /\ StoredIsOffered
    BY DEF Init, ServiceComesBack, UploadsWhileStopped, StoredIsOffered, NoFiles, Hashes
  <2>4. QED
    BY TypeInit, <2>1, <2>2, <2>3 DEF DeployInv
<1>2. DeployInv /\ [Next]_vars => DeployInv'
  BY TypeStep, AloneStep, SlotStep, ProgressStep, ServiceStep, StoppedStep, StoredStep
     DEF DeployInv
<1>3. QED
  BY <1>1, <1>2, PTL DEF Spec

\* A daemon that waits with nothing to do has the branch of the newest webhook
\* built: KnownPushIsBuilt follows from what it had reached in each step.
LEMMA BuiltLemma == DeployInv => KnownPushIsBuilt
<1> SUFFICES ASSUME DeployInv, Found, Settled
             PROVE  \E n \in wanted.commit..head[wanted.branch] :
                      build = Output[<<wanted.branch, n>>]
  BY DEF KnownPushIsBuilt, LastPushIsBuilt
<1>1. PICK p \in Daemons : pc[p] # "off"
  BY DEF DeployInv, SlotIsWanted, Settled
<1>2. p \in Procs /\ pc[p] = "wait"
  BY <1>1 DEF Settled, Quiet, Deploying, Daemons
<1>3. After(p, {"diff"}) /\ slot = wanted.branch
  BY <1>1, <1>2 DEF After, DeployInv, SlotIsWanted, Settled, Found
<1>4. QED
  BY <1>2, <1>3 DEF DeployInv, Progress, Settled

\* The branch of the newest webhook is built when the daemon waits, if the clone
\* knew it and its name is one the daemon hands over whole: whatever triggers,
\* deployments by hand and comparisons come before or after it.
THEOREM KnownIsBuilt == Spec => []KnownPushIsBuilt
  BY DeployCorrect, BuiltLemma, PTL

\* git forgets no branch: one that all clones have is known to every webhook.
AllFetched == /\ \A b \in Branches : local[b] > 0
              /\ wanted # None => wanted.known /\ wanted.branch \in Branches

LEMMA FetchedStep == TypeOK /\ AllFetched /\ [Next]_vars => AllFetched'
<1> SUFFICES ASSUME TypeOK, AllFetched, [Next]_vars PROVE AllFetched'
  OBVIOUS
<1> USE DEF AllFetched, clone, memory
<1>1. \A b \in Branches : local'[b] > 0
  <2>1. UNCHANGED local \/ local' = Pulled
    BY DEF Next, vars, Push, Webhook, Modify, Trigger, Launch, Take, Checkout, Pull, Compile,
           DeployDiff, CompareDiff, StopService, Upload, StartService, Crash
  <2>2. \A b \in Branches : Pulled[b] > 0
    BY DEF TypeOK, Pulled
  <2>3. QED
    BY <2>1, <2>2
<1>2. \/ UNCHANGED wanted \/ wanted' = None
      \/ \E b \in Branches :
           wanted' = [branch |-> b, commit |-> head[b], known |-> local[b] > 0]
  BY DEF Next, vars, Push, Webhook, Modify, Trigger, Launch, Take, Checkout, Pull, Compile,
         DeployDiff, CompareDiff, StopService, Upload, StartService, Crash
<1>3. ASSUME NEW b \in Branches,
             wanted' = [branch |-> b, commit |-> head[b], known |-> local[b] > 0]
      PROVE  wanted'.known /\ wanted'.branch \in Branches
  <2>1. wanted'.branch = b /\ (wanted'.known <=> local[b] > 0)
    BY <1>3
  <2>2. QED
    BY <2>1
<1>4. wanted' # None => wanted'.known /\ wanted'.branch \in Branches
  BY <1>2, <1>3
<1>5. QED
  BY <1>1, <1>4

\* If git knows all branches and no name has a '/' or more than 32 characters, both
\* conditions are void.
THEOREM PushedIsBuilt ==
  Fetched = Branches /\ (\A b \in Branches : Cut[b] = b) => (Spec => []LastPushIsBuilt)
<1> SUFFICES ASSUME Fetched = Branches, \A b \in Branches : Cut[b] = b
             PROVE  Spec => []LastPushIsBuilt
  OBVIOUS
<1>1. Init => AllFetched
  BY DEF Init, AllFetched
<1>2. AllFetched /\ KnownPushIsBuilt => LastPushIsBuilt
  BY DEF AllFetched, KnownPushIsBuilt, LastPushIsBuilt, Found, Settled
<1>3. QED
  BY <1>1, <1>2, TypeCorrect, FetchedStep, KnownIsBuilt, PTL DEF Spec

\* When the daemon waits no file is left to copy, and the stored hashes are those
\* of the files built: what was copied has them too.
LEMMA OfferedLemma == DeployInv => BuiltIsOffered
<1> SUFFICES ASSUME DeployInv, Settled, NEW f \in Files \ missed
             PROVE  Hashes(offered)[f] = Hashes(build)[f]
  BY DEF BuiltIsOffered
<1>1. PICK p \in Daemons : pc[p] # "off"
  BY DEF DeployInv, SlotIsWanted, Settled
<1>2. p \in Procs /\ pc[p] = "wait"
  BY <1>1 DEF Settled, Quiet, Deploying, Daemons
<1>3. \A q \in Procs : pc[q] # "diff" /\ todo[q] = {}
  BY DEF Settled, Quiet, Deploying, DeployInv, Alone
<1>4. stored = Hashes(build)
  BY <1>1, <1>2, <1>3 DEF DeployInv, Progress, After, Settled
<1>5. QED
  BY <1>3, <1>4 DEF DeployInv, StoredIsOffered

\* Before the daemon waits again the files copied have the hashes of those built.
THEOREM HashesAreCopied == Spec => []BuiltIsOffered
  BY DeployCorrect, OfferedLemma, PTL

\* They are those built if a change of a file always shows in its first bytes.
THEOREM BuildIsCopied == ASSUME HashesTell PROVE Spec => []BuiltIsCopied
<1>1. ASSUME TypeOK, NEW f \in Files, Hashes(offered)[f] = Hashes(build)[f]
      PROVE  offered[f] = build[f]
  BY <1>1, DeployAssumption DEF TypeOK, Hashes, HashesTell
<1>2. TypeOK /\ BuiltIsOffered => BuiltIsCopied
  BY <1>1 DEF BuiltIsOffered, BuiltIsCopied
<1>3. QED
  BY <1>2, TypeCorrect, HashesAreCopied, PTL

\* A compilation is a build, a diff a deployment of everything: the files it leaves
\* out have the same hash on the target as here. A copy only does what was promised.
LEMMA MirrorStep ==
  ASSUME TypeOK, Alone, StoredIsOffered, [Next]_vars, clean, clean', missed = {}, missed' = {}
  PROVE  [Uploads!Next]_(Uploads!vars)
<1> USE DEF mirror, Goto
<1>1. /\ todo \in [Procs -> SUBSET Files]
      /\ build \in [Files -> Contents \cup {Absent}]
      /\ offered \in [Files -> Contents \cup {Absent}]
      /\ stored \in [Files -> Md5s \cup {Absent}]
  BY DEF TypeOK
<1>2. ASSUME UNCHANGED build, Promised' = Promised PROVE UNCHANGED Uploads!vars
  BY <1>2 DEF Uploads!vars
<1>3. CASE UNCHANGED <<build, offered, todo>>
  BY <1>2, <1>3 DEF Promised
<1>4. ASSUME NEW p \in Procs, pc[p] \in {"compile", "diff"} PROVE \A q \in Procs : todo[q] = {}
  BY <1>4 DEF Alone, Deploying
<1>5. ASSUME NEW p \in Procs, Compile(p) PROVE Uploads!Build
  <2>1. UNCHANGED <<offered, todo>> /\ pc[p] = "compile"
    BY <1>5 DEF Compile
  <2>2. Promised' = Promised
    BY <1>4, <2>1 DEF Promised
  <2>3. build' \in [Files -> Contents \cup {Absent}]
    BY TypeStep DEF TypeOK
  <2>4. Hashes(build') \in [Files -> Md5s \cup {Absent}]
    BY <2>3, HashesType
  <2>5. QED
    BY <2>2, <2>4 DEF Uploads!Build, Uploads!Maps
<1>6. ASSUME NEW p \in Procs, DeployDiff(p) PROVE Uploads!Deploy
  <2>1. /\ UNCHANGED <<build, offered>> /\ pc[p] = "diff"
        /\ todo' = [todo EXCEPT ![p] = Differing]
    BY <1>6 DEF DeployDiff
  <2>2. \A q \in Procs : todo[q] = {} /\ todo'[q] = IF q = p THEN Differing ELSE {}
    BY <1>1, <1>4, <2>1
  <2>3. \A f \in Files : Promised[f] = offered[f]
    BY <2>2 DEF Promised
  <2>4. \A f \in Files : Promised'[f] = IF f \in Differing THEN build[f] ELSE offered[f]
    BY <2>1, <2>2 DEF Promised
  <2>5. \A f \in Files : build[f] # Absent /\ f \notin Differing
                           => Hashes(offered)[f] = Hashes(build)[f]
    BY <2>2 DEF StoredIsOffered, Differing
  <2>6. ASSUME NEW f \in Files
        PROVE  Hashes(Promised')[f] = IF Hashes(build)[f] # Absent THEN Hashes(build)[f]
                                                                  ELSE Hashes(Promised)[f]
    <3>1. Hashes(build)[f] # Absent <=> build[f] # Absent
      BY <1>1, HashesType
    <3>2. CASE build[f] # Absent /\ f \in Differing
      BY <2>4, <3>1, <3>2 DEF Hashes
    <3>3. CASE build[f] # Absent /\ f \notin Differing
      <4>1. Hashes(Promised')[f] = Hashes(offered)[f]
        BY <2>4, <3>3 DEF Hashes
      <4>2. QED
        BY <2>5, <3>1, <3>3, <4>1
    <3>4. CASE build[f] = Absent
      <4>1. f \notin Differing
        BY <3>4 DEF Differing
      <4>2. Promised'[f] = Promised[f]
        BY <2>3, <2>4, <4>1
      <4>3. Hashes(Promised')[f] = Hashes(Promised)[f]
        BY <4>2 DEF Hashes
      <4>4. QED
        BY <3>1, <3>4, <4>3
    <3>5. QED
      BY <3>2, <3>3, <3>4
  <2>7. Hashes(Promised') = [f \in Files |-> IF Hashes(build)[f] # Absent
                              THEN Hashes(build)[f] ELSE Hashes(Promised)[f]]
    <3>1. Hashes(Promised') = [f \in Files |-> Hashes(Promised')[f]]
      BY DEF Hashes
    <3>2. QED
      BY <2>6, <3>1
  <2>8. QED
    BY <2>1, <2>7 DEF Uploads!Deploy
<1>7. ASSUME NEW p \in Procs, Upload(p) PROVE UNCHANGED Uploads!vars
  <2>1. PICK f \in todo[p] : /\ pc[p] = "upload" /\ UNCHANGED build
                            /\ offered' = [offered EXCEPT ![f] = build[f]]
                            /\ todo' = [todo EXCEPT ![p] = @ \ {f}]
    BY <1>7 DEF Upload, Works, Fails
  <2>2. \A q \in Procs : q # p => todo[q] = {}
    BY <2>1 DEF Alone, Deploying
  <2>3. \A q \in Procs : todo'[q] = todo[q] \ {f}
    BY <1>1, <2>1, <2>2
  <2>4. f \in Files /\ offered'[f] = build[f]
        /\ \A g \in Files : g # f => offered'[g] = offered[g]
    BY <1>1, <2>1
  <2>5. \A g \in Files : (IF \E q \in Procs : g \in todo'[q] THEN build'[g] ELSE offered'[g])
                           = IF \E q \in Procs : g \in todo[q] THEN build[g] ELSE offered[g]
    BY <2>1, <2>3, <2>4
  <2>6. Promised' = Promised
    BY <2>5 DEF Promised
  <2>7. QED
    BY <1>2, <2>1, <2>6
<1>8. ASSUME NEW p \in Procs, Crash(p) PROVE UNCHANGED Uploads!vars
  <2>1. todo[p] = {}
    BY <1>8 DEF Crash
  <2>2. UNCHANGED <<build, offered>> /\ todo' = [todo EXCEPT ![p] = {}]
    BY <1>8 DEF Crash
  <2>3. \A q \in Procs : todo'[q] = todo[q]
    BY <1>1, <2>1, <2>2
  <2>4. Promised' = Promised
    BY <2>2, <2>3 DEF Promised
  <2>5. QED
    BY <1>2, <2>2, <2>4
<1>9. CASE \/ \E b \in Branches : Push(b) \/ Webhook(b)
           \/ Modify
           \/ \E p \in Procs : \/ Launch(p) \/ Take(p) \/ Checkout(p) \/ Pull(p)
                               \/ CompareDiff(p) \/ StopService(p) \/ StartService(p)
           \/ UNCHANGED vars
  <2>1. UNCHANGED <<build, offered, todo>>
    BY <1>9 DEF Push, Webhook, Modify, Trigger, Launch, Take, Checkout, Pull, CompareDiff,
                StopService, StartService, vars
  <2>2. QED
    BY <1>3, <2>1
<1>10. QED
  BY <1>5, <1>6, <1>7, <1>8, <1>9 DEF Next, Uploads!Next

\* As long as nothing fails, no two processes overlap and no stored hash is of
\* content that was never copied, deployments implement Mirror for the hashes.
THEOREM DeployIsMirror == Spec => CopyingDiffsIsCopyingAll
<1>1. TypeOK /\ Alone /\ StoredIsOffered /\ [Next]_vars
        => [clean /\ clean' /\ missed = {} /\ missed' = {} => [Uploads!Next]_(Uploads!vars)]_vars
  BY MirrorStep
<1>2. QED
  BY <1>1, TypeCorrect, OneDeploys, StoredHashesAreOffered, PTL
     DEF Spec, CopyingDiffsIsCopyingAll
=============================================================================
