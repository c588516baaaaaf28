--------------------------- MODULE WebhookProofs ---------------------------
(***************************************************************************)
(* Proofs about Webhook: whatever is pushed, however its body is cut, and  *)
(* whatever fits into the buffer, an answer 200 means that the push was    *)
(* parsed whole and judged on its own strings, and its one outcome is one  *)
(* that Verdict allows.                                                    *)
(***************************************************************************)
EXTENDS Webhook, TLAPS

\* The types of a push and of the fields taken from it.
LEMMA FieldsType ==
  ASSUME push \in Pushes, push.commits # <<>>
  PROVE  Fields \in [flag : {0, 1}, branch : Names, user : Names, commit : Names]
<1> USE WebhookAssumption
<1>1. push.ref \in Seq(Names) /\ push.ref # <<>> /\ push.user \in Names
      /\ push.commits \in Seq(Names)
  OBVIOUS
<1>2. push.ref[Len(push.ref)] \in Names
  BY <1>1
<1>3. push.commits[1] \in Names
  BY <1>1
<1>4. QED
  BY <1>1, <1>2, <1>3 DEF Fields, LastSegment

LEMMA TypeInit == Init => TypeOK
<1> SUFFICES ASSUME Init PROVE TypeOK
  OBVIOUS
<1> USE WebhookAssumption DEF Init
<1>1. data \in [flag : {0, 1}, branch : Names, user : Names, commit : Names]
  BY DEF NoData
<1>2. push \in Pushes /\ parts \in 1..MaxParts /\ ends \subseteq 1..parts /\ parts \in ends
  OBVIOUS
<1>3. arrived \in 0..Total /\ got \in 0..arrived /\ got <= BufParts /\ at \in 0..got
  BY DEF Total
<1>4. hungup \in BOOLEAN /\ all \in BOOLEAN /\ trigger \in Names \cup {None}
  OBVIOUS
<1> QED
  BY <1>1, <1>2, <1>3, <1>4 DEF TypeOK

\* Every step keeps the types; recv returns at most what has arrived, and a
\* callback ends within what recv has returned.
LEMMA TypeStep == TypeOK /\ [Next]_vars => TypeOK'
<1> SUFFICES ASSUME TypeOK, [Next]_vars PROVE TypeOK'
  OBVIOUS
<1> USE WebhookAssumption DEF TypeOK, request, socket, Total
<1>1. CASE Arrive
  BY <1>1 DEF Arrive
<1>2. CASE HangUp
  BY <1>2 DEF HangUp
<1>3. CASE Recv
  BY <1>3 DEF Recv, Received, NoData
<1>4. CASE RecvError
  BY <1>4 DEF RecvError
<1>5. CASE ParseHeader
  BY <1>5 DEF ParseHeader
<1>6. CASE BodyCallback
  BY <1>6, FieldsType DEF BodyCallback
<1>7. CASE NoCommits
  BY <1>7 DEF NoCommits
<1>8. CASE InvalidJson
  <2>1. PICK hi \in at..(got - 1) : Fail(hi)
    BY <1>8 DEF InvalidJson
  <2>2. data' \in [flag : {0, 1}, branch : Names, user : Names, commit : Names]
    BY <2>1 DEF Fail
  <2>3. all' \in BOOLEAN /\ pc' = "reply"
    BY <2>1 DEF Fail
  <2>4. at' \in 0..got
    BY <1>8, <2>1 DEF Fail, InvalidJson
  <2>5. QED
    BY <1>8, <2>2, <2>3, <2>4 DEF InvalidJson
<1>9. CASE EndOfBuffer
  BY <1>9 DEF EndOfBuffer
<1>10. CASE Refuse
  BY <1>10 DEF Refuse
<1>11. CASE Accept
  BY <1>11 DEF Accept
<1>12. CASE Judge
  <2>1. trigger' \in Names \cup {None}
    BY <1>12 DEF Judge
  <2>2. QED
    BY <1>12, <2>1 DEF Judge
<1>13. CASE UNCHANGED vars
  BY <1>13 DEF vars
<1>14. QED
  BY <1>1, <1>2, <1>3, <1>4, <1>5, <1>6, <1>7, <1>8, <1>9, <1>10, <1>11, <1>12, <1>13
     DEF Next, HandleHttpEvent

\* Types: what is parsed was received, what was received had arrived.
THEOREM TypeCorrect == Spec => []TypeOK
  BY TypeInit, TypeStep, PTL DEF Spec

\* The flag goes up with the last part of a body that is parsed from its first
\* part on, and never again after it went down.
LEMMA FlagStep == TypeOK /\ FlagMeansWhole /\ [Next]_vars => FlagMeansWhole'
<1> SUFFICES ASSUME TypeOK, FlagMeansWhole, [Next]_vars PROVE FlagMeansWhole'
  OBVIOUS
<1> USE WebhookAssumption DEF FlagMeansWhole, request, socket, Total
<1>1. /\ parts \in Nat /\ got \in Nat /\ at \in Nat /\ at <= got /\ got <= Total
      /\ data.flag \in {0, 1}
  BY DEF TypeOK
<1>2. CASE Arrive
  BY <1>1, <1>2 DEF Arrive, Fields, LastSegment
<1>3. CASE HangUp
  BY <1>1, <1>3 DEF HangUp, Fields, LastSegment
<1>4. CASE Recv
  BY <1>1, <1>4 DEF Recv, NoData
<1>5. CASE RecvError
  BY <1>1, <1>5 DEF RecvError, Fields, LastSegment
<1>6. CASE ParseHeader
  BY <1>1, <1>6 DEF ParseHeader
<1>7. CASE BodyCallback
  <2>1. /\ at' = Total /\ push.commits # <<>> /\ data' = Fields /\ pc = "parse"
        /\ UNCHANGED <<request, pc, answer>>
    BY <1>1, <1>7 DEF BodyCallback, IsBody
  <2>2. Fields' = Fields /\ Fields.flag = 1
    BY <2>1 DEF Fields, LastSegment
  <2>3. QED
    BY <2>1, <2>2
<1>8. CASE NoCommits
  <2>1. data.flag = 0
    BY <1>1, <1>8 DEF NoCommits
  <2>2. QED
    BY <1>8, <2>1 DEF NoCommits
<1>9. CASE InvalidJson
  <2>1. PICK hi \in at..(got - 1) : Fail(hi)
    BY <1>9 DEF InvalidJson
  <2>2. data'.flag = 0
    BY <2>1 DEF Fail, TypeOK
  <2>3. pc = "parse" /\ pc' = "reply" /\ answer' = answer
    BY <1>9, <2>1 DEF InvalidJson, Fail
  <2>4. QED
    BY <2>2, <2>3
<1>10. CASE EndOfBuffer
  BY <1>1, <1>10 DEF EndOfBuffer, Fields, LastSegment
<1>11. CASE Refuse
  BY <1>1, <1>11 DEF Refuse, Fields, LastSegment
<1>12. CASE Accept
  BY <1>1, <1>12 DEF Accept, Fields, LastSegment
<1>13. CASE Judge
  BY <1>1, <1>13 DEF Judge, Fields, LastSegment
<1>14. CASE UNCHANGED vars
  BY <1>14 DEF vars, Fields, LastSegment
<1>15. QED
  BY <1>2, <1>3, <1>4, <1>5, <1>6, <1>7, <1>8, <1>9, <1>10, <1>11, <1>12, <1>13, <1>14
     DEF Next, HandleHttpEvent

\* recv is called once: nothing that arrives later changes what was received,
\* and a body received in one chunk from its first part on is parsed.
LEMMA ReadStep == TypeOK /\ FlagMeansWhole /\ ReadOnce /\ [Next]_vars => ReadOnce'
<1> SUFFICES ASSUME TypeOK, FlagMeansWhole, ReadOnce, [Next]_vars PROVE ReadOnce'
  OBVIOUS
<1> USE WebhookAssumption DEF ReadOnce, Split, request, socket, Total, Received
<1>1. /\ parts \in Nat \ {0} /\ got \in Nat /\ at \in Nat /\ at <= got /\ arrived \in 0..Total
      /\ data.flag \in {0, 1} /\ BufParts \in Nat /\ parts \in ends /\ ends \subseteq 1..parts
  BY DEF TypeOK
<1>2. CASE Arrive \/ HangUp
  BY <1>2 DEF Arrive, HangUp
<1>3. CASE Recv
  BY <1>3 DEF Recv
<1>4. CASE RecvError \/ NoCommits \/ Refuse \/ Accept \/ Judge
  BY <1>4 DEF RecvError, NoCommits, Refuse, Accept, Judge
<1>5. CASE ParseHeader \/ BodyCallback
  BY <1>5 DEF ParseHeader, BodyCallback
<1>6. CASE InvalidJson
  <2>1. PICK hi \in at..(got - 1) : EndsCallback(hi) /\ ~IsBody(at, hi)
    BY <1>6 DEF InvalidJson
  <2>2. pc = "parse" /\ at > 0 /\ UNCHANGED <<request, socket, got>>
    BY <1>6 DEF InvalidJson
  <2>3. at = 1
    BY <1>1, <2>1, <2>2 DEF FlagMeansWhole
  <2>4. SUFFICES ASSUME arrived = Total, Total <= BufParts, ends = {parts} PROVE FALSE
    BY <1>1, <1>6, <2>2
  <2>5. got = Total
    BY <1>1, <2>2, <2>4
  <2>6. hi = parts
    BY <1>1, <2>1, <2>4, <2>5 DEF EndsCallback
  <2>7. QED
    BY <2>1, <2>3, <2>6 DEF IsBody
<1>7. CASE EndOfBuffer
  <2>1. pc = "parse" /\ at = got /\ all' /\ UNCHANGED <<request, socket, got, data>>
    BY <1>7 DEF EndOfBuffer
  <2>2. data.flag = 0 => got <= 1
    BY <2>1 DEF FlagMeansWhole
  <2>3. QED
    BY <1>1, <2>1, <2>2
<1>8. CASE UNCHANGED vars
  BY <1>8 DEF vars
<1>9. QED
  BY <1>2, <1>3, <1>4, <1>5, <1>6, <1>7, <1>8 DEF Next, HandleHttpEvent

\* A part of the body that is no whole body ends the process only by an index
\* into an empty vector of commits.
LEMMA DeadStep ==
  TypeOK /\ FlagMeansWhole /\ DiesOnlyWithoutCommits /\ [Next]_vars => DiesOnlyWithoutCommits'
<1> SUFFICES ASSUME TypeOK, FlagMeansWhole, DiesOnlyWithoutCommits, [Next]_vars
             PROVE  DiesOnlyWithoutCommits'
  OBVIOUS
<1> USE DEF DiesOnlyWithoutCommits, request
<1>1. CASE NoCommits
  <2>1. PICK hi \in at..(got - 1) : MayBeJson(at, hi) /\ (IsBody(at, hi) => push.commits = <<>>)
    BY <1>1 DEF NoCommits
  <2>2. at = 1
    BY <1>1 DEF NoCommits, TypeOK, FlagMeansWhole, Total
  <2>3. QED
    BY <1>1, <2>1, <2>2 DEF MayBeJson, IsBody, NoCommits
<1>2. CASE ~NoCommits
  BY <1>2 DEF Next, HandleHttpEvent, vars, Arrive, HangUp, Recv, RecvError, ParseHeader,
              BodyCallback, InvalidJson, Fail, EndOfBuffer, Refuse, Accept, Judge
<1>3. QED
  BY <1>1, <1>2

\* The verdict on the 32 characters is the verdict on the strings.
LEMMA VerdictKept ==
  ASSUME push \in Pushes, push.commits # <<>>
  PROVE  HttpBodyPred(Fields) <=> IsWanted
<1> USE WebhookAssumption
<1>1. push.ref \in Seq(Names) /\ push.ref # <<>> /\ push.user \in Names
      /\ push.commits \in Seq(Names)
  OBVIOUS
<1>2. push.ref[Len(push.ref)] \in Names
  BY <1>1
<1>3. push.commits[1] \in Names
  BY <1>1
<1>4. QED
  BY <1>1, <1>2, <1>3 DEF HttpBodyPred, Fields, LastSegment, IsWanted

LEMMA JudgedStep ==
  TypeOK /\ FlagMeansWhole /\ JudgedAsSent /\ [Next]_vars => JudgedAsSent'
<1> SUFFICES ASSUME TypeOK, FlagMeansWhole, JudgedAsSent, [Next]_vars PROVE JudgedAsSent'
  OBVIOUS
<1> USE DEF JudgedAsSent, request, IsWanted
<1>1. CASE Judge
  <2>1. data = Fields /\ push \in Pushes /\ push.commits # <<>>
    BY <1>1 DEF Judge, FlagMeansWhole, TypeOK
  <2>2. trigger' = IF IsWanted THEN Clip[push.ref[Len(push.ref)]] ELSE None
    BY <1>1, <2>1, VerdictKept DEF Judge, Fields, LastSegment
  <2>3. QED
    BY <1>1, <2>2 DEF Judge
<1>2. CASE Refuse
  BY <1>2 DEF Refuse
<1>3. CASE ~Judge /\ ~Refuse
  BY <1>3 DEF Next, HandleHttpEvent, vars, FlagMeansWhole, Arrive, HangUp, Recv, RecvError,
              ParseHeader, BodyCallback, NoCommits, InvalidJson, Fail, EndOfBuffer, Accept
<1>4. QED
  BY <1>1, <1>2, <1>3

LEMMA RefusedStep ==
  TypeOK /\ FlagMeansWhole /\ ReadOnce /\ RefusedMeansSplit /\ [Next]_vars => RefusedMeansSplit'
<1> SUFFICES ASSUME TypeOK, FlagMeansWhole, ReadOnce, RefusedMeansSplit, [Next]_vars
             PROVE  RefusedMeansSplit'
  OBVIOUS
<1> USE DEF RefusedMeansSplit, Split, Total, request, socket
<1>1. CASE Refuse
  BY <1>1 DEF Refuse, ReadOnce
<1>2. CASE Arrive
  BY <1>2 DEF Arrive, FlagMeansWhole
<1>3. CASE ~Refuse /\ ~Arrive
  BY <1>3 DEF Next, HandleHttpEvent, vars, HangUp, Recv, RecvError, ParseHeader, BodyCallback,
              NoCommits, InvalidJson, Fail, EndOfBuffer, Accept, Judge
<1>4. QED
  BY <1>1, <1>2, <1>3

\* What an answer of 200 says about the request.
LEMMA WholeLemma == TypeOK /\ FlagMeansWhole => OkMeansWhole
  BY DEF TypeOK, FlagMeansWhole, OkMeansWhole, Total

\* All of it together, for every push, every cut of a body and every buffer.
THEOREM WebhookCorrect == Spec => []WebhookInv
<1>1. Init => WebhookInv
  <2>1. Init => FlagMeansWhole /\ ReadOnce /\ JudgedAsSent /\ RefusedMeansSplit
                /\ DiesOnlyWithoutCommits
    BY DEF Init, NoData, FlagMeansWhole, ReadOnce, JudgedAsSent, RefusedMeansSplit,
           DiesOnlyWithoutCommits
  <2>2. QED
    BY <2>1, TypeInit, WholeLemma DEF WebhookInv
<1>2. WebhookInv /\ [Next]_vars => WebhookInv'
  <2>1. TypeOK' /\ FlagMeansWhole' => OkMeansWhole'
    BY WholeLemma, PTL
  <2>2. QED
    BY <2>1, TypeStep, FlagStep, ReadStep, DeadStep, JudgedStep, RefusedStep DEF WebhookInv
<1>3. QED
  BY <1>1, <1>2, PTL DEF Spec

\* Only a body that was received and parsed whole is answered with 200.
THEOREM AcceptedWhole == Spec => []OkMeansWhole
<1>1. WebhookInv => OkMeansWhole
  BY DEF WebhookInv
<1>2. QED
  BY <1>1, WebhookCorrect, PTL

\* The trigger is the verdict on the push GitLab sent.
THEOREM VerdictCorrect == Spec => []JudgedAsSent
<1>1. WebhookInv => JudgedAsSent
  BY DEF WebhookInv
<1>2. QED
  BY <1>1, WebhookCorrect, PTL

\* A request that one recv returns in one chunk is not refused.
THEOREM RefusalsExplained == Spec => []RefusedMeansSplit
<1>1. WebhookInv => RefusedMeansSplit
  BY DEF WebhookInv
<1>2. QED
  BY <1>1, WebhookCorrect, PTL

\* Only a push without commits ends the daemon.
THEOREM DeathExplained == Spec => []DiesOnlyWithoutCommits
<1>1. WebhookInv => DiesOnlyWithoutCommits
  BY DEF WebhookInv
<1>2. QED
  BY <1>1, WebhookCorrect, PTL
-----------------------------------------------------------------------------
(* The verdict as an abstract specification. *)

\* The branch that is pushed, and whether it is wanted.
LEMMA PushedType == TypeOK => Pushed \in Names \cup {None} /\ IsWanted \in BOOLEAN
<1> SUFFICES ASSUME TypeOK PROVE Pushed \in Names \cup {None} /\ IsWanted \in BOOLEAN
  OBVIOUS
<1>1. push.ref \in Seq(Names)
  BY WebhookAssumption DEF TypeOK
<1>2. Plain => push.ref[3] \in Names
  BY <1>1 DEF Plain
<1>3. IsWanted \in BOOLEAN
  BY Zenon DEF IsWanted
<1>4. QED
  BY <1>2, <1>3 DEF Pushed

\* A step of the handler ends the request, with the outcome the answer and the
\* trigger say, or is not seen.
LEMMA SeenStep ==
  ASSUME WebhookInv, WebhookInv', [Next]_vars
  PROVE  [Seen!Next]_Seen!vars
<1> USE DEF Seen!vars, request, socket
<1>1. CASE push' = push /\ trigger' = trigger /\ answer' = answer
           /\ (pc' = pc \/ {pc, pc'} \cap {"closed", "dead"} = {})
  BY <1>1 DEF Outcome, Pushed, Plain, IsWanted
<1>2. CASE RecvError
  <2>1. answer = "none" /\ pc = "ready"
    BY <1>2 DEF RecvError, WebhookInv, TypeOK, FlagMeansWhole
  <2>2. Outcome = "pending" /\ Outcome' = "dropped"
    BY <1>2, <2>1 DEF RecvError, Outcome
  <2>3. UNCHANGED <<Pushed, IsWanted>> /\ push' = push /\ trigger' = trigger
    BY <1>2 DEF RecvError, Pushed, Plain, IsWanted
  <2>4. QED
    BY <2>2, <2>3 DEF Seen!Next, Seen!TurnedDown, Seen!Becomes
<1>3. CASE Refuse
  <2>1. Outcome = "pending" /\ Outcome' = "400"
    BY <1>3 DEF Refuse, Outcome
  <2>2. UNCHANGED <<Pushed, IsWanted>> /\ push' = push /\ trigger' = trigger
    BY <1>3 DEF Refuse, Pushed, Plain, IsWanted
  <2>3. QED
    BY <2>1, <2>2 DEF Seen!Next, Seen!TurnedDown, Seen!Becomes
<1>4. CASE NoCommits
  <2>1. Outcome = "pending" /\ Outcome' = "dead"
    BY <1>4 DEF NoCommits, Outcome
  <2>2. UNCHANGED <<Pushed, IsWanted>> /\ push' = push /\ trigger' = trigger
    BY <1>4 DEF NoCommits, Pushed, Plain, IsWanted
  <2>3. push.commits = <<>>
    BY <1>4, <2>2 DEF NoCommits, WebhookInv, DiesOnlyWithoutCommits
  <2>4. QED
    BY <2>1, <2>2, <2>3 DEF Seen!Next, Seen!Fatal, Seen!Becomes
<1>5. CASE Judge
  <2>1. answer = "200" /\ answer' = "200" /\ push' = push /\ pc = "judge" /\ pc' = "closed"
    BY <1>5 DEF Judge, WebhookInv, FlagMeansWhole
  <2>2. Outcome = "pending" /\ Outcome' = "200"
    BY <2>1 DEF Outcome
  <2>3. UNCHANGED <<Pushed, IsWanted>>
    BY <2>1 DEF Pushed, Plain, IsWanted
  <2>4. push.commits # <<>>
    BY <2>1 DEF WebhookInv, FlagMeansWhole, TypeOK
  <2>5. trigger' = IF IsWanted THEN Clip[push.ref[Len(push.ref)]] ELSE None
    BY <2>1, <2>3 DEF WebhookInv, JudgedAsSent
  <2>6. trigger' \in Seen!Deployable
    <3>1. CASE Plain
      <4>1. Pushed = push.ref[3] /\ Clip[push.ref[Len(push.ref)]] = Pushed
        BY <3>1 DEF Plain, Pushed
      <4>2. Pushed \in Names /\ Pushed # None
        BY <3>1, <4>1, WebhookAssumption DEF WebhookInv, TypeOK, Plain
      <4>3. QED
        BY <2>5, <4>1, <4>2 DEF Seen!Deployable
    <3>2. CASE ~Plain
      <4>1. Pushed = None
        BY <3>2 DEF Pushed
      <4>2. trigger' \in Names \cup {None}
        BY DEF WebhookInv, TypeOK
      <4>3. QED
        BY <4>1, <4>2 DEF Seen!Deployable
    <3>3. QED
      BY <3>1, <3>2
  <2>7. QED
    BY <2>1, <2>2, <2>3, <2>4, <2>6 DEF Seen!Next, Seen!Accepted, Seen!Becomes
<1>6. CASE ~RecvError /\ ~Refuse /\ ~NoCommits /\ ~Judge
  <2>1. CASE Accept
    <3>1. Outcome = "pending" /\ Outcome' = "pending"
      BY <2>1 DEF Accept, Outcome
    <3>2. QED
      BY <2>1, <3>1 DEF Accept, Pushed, Plain, IsWanted
  <2>2. CASE ~Accept
    <3>1. push' = push /\ trigger' = trigger /\ answer' = answer
          /\ (pc' = pc \/ {pc, pc'} \cap {"closed", "dead"} = {})
      BY <1>6, <2>2 DEF Next, HandleHttpEvent, vars, Arrive, HangUp, Recv, ParseHeader,
                        BodyCallback, InvalidJson, Fail, EndOfBuffer
    <3>2. QED
      BY <1>1, <3>1
  <2>3. QED
    BY <2>1, <2>2
<1>7. QED
  BY <1>2, <1>3, <1>4, <1>5, <1>6

\* However the handler gets there, a webhook has one outcome, once: for a branch of
\* one segment and at most 32 characters, the branch pushed is what is handed over if
\* the push is accepted and wanted, and nothing otherwise.
THEOREM WebhookIsVerdict == Spec => OneVerdict
<1>1. Init => Seen!Init
  <2> SUFFICES ASSUME Init PROVE Seen!Init
    OBVIOUS
  <2>1. Outcome = "pending" /\ trigger = None
    BY DEF Init, Outcome
  <2>2. QED
    BY <2>1, TypeInit, PushedType DEF Seen!Init
<1>2. WebhookInv /\ WebhookInv' /\ [Next]_vars => [Seen!Next]_Seen!vars
  BY SeenStep
<1>3. QED
  BY <1>1, <1>2, WebhookCorrect, PTL DEF Spec, OneVerdict, Seen!Spec
=============================================================================
