------------------------------ MODULE Webhook ------------------------------
(***************************************************************************)
(* handle_http_event: one webhook of GitLab from the bytes on its socket   *)
(* to the answer and the trigger. The request arrives in pieces, a header  *)
(* and the parts of a JSON body; recv is called once, and what it returns  *)
(* is run through http_parser, which calls my_body_callback for each chunk *)
(* of the body there is. The answer depends on nparsed and data.flag, the  *)
(* trigger on http_body_pred.                                              *)
(*                                                                         *)
(* Names stand for the strings of a push; Clip is what strncpy leaves of   *)
(* one in 32 characters. A ref is the nonempty sequence of its segments    *)
(* between slashes. Where a body is cut into parts is arbitrary.           *)
(***************************************************************************)
EXTENDS Naturals, Sequences

CONSTANTS Names, Empty, Clip,     \* strings, the empty one, their 32 characters
          Dev, Root, Compile,     \* "dev", "root", strings that begin "compile"
          Pushes,                 \* what clients send
          MaxParts,               \* bound on the parts of a body
          BufParts,               \* pieces that fit into buf[BUF_LEN]
          None                    \* no trigger

\* "dev", "root" and "compile" are shorter than a field of CustomerData.
ASSUME WebhookAssumption ==
  /\ Empty \in Names /\ Clip \in [Names -> Names]
  /\ Dev \in Names /\ Root \in Names /\ Compile \subseteq Names
  /\ \A n \in Names : /\ Clip[n] = Dev <=> n = Dev
                      /\ Clip[n] = Root <=> n = Root
                      /\ Clip[n] \in Compile <=> n \in Compile
  /\ Pushes \subseteq [ref : Seq(Names) \ {<<>>}, user : Names, commits : Seq(Names)]
  /\ MaxParts \in Nat \ {0} /\ BufParts \in Nat \ {0}
  /\ None \notin Names

VARIABLES push, parts, ends,     \* the request: content, parts of its body, the
                                 \* parts its chunks end with (one chunk when it
                                 \* has a Content-Length)
          arrived, hungup,       \* socket: pieces received, client has closed
          pc, got, at,           \* position, pieces in buf, pieces parsed
          data, all,             \* CustomerData; nparsed = recved
          answer, trigger        \* what was written; branch handed over

request == <<push, parts, ends>>
socket  == <<arrived, hungup>>
vars    == <<request, socket, pc, got, at, data, all, answer, trigger>>

Total == parts + 1
NoData == [flag |-> 0, branch |-> Empty, user |-> Empty, commit |-> Empty]

Init == /\ push \in Pushes
        /\ parts \in 1..MaxParts
        /\ ends \in {e \in SUBSET (1..parts) : parts \in e}
        /\ arrived = 0 /\ hungup = FALSE
        /\ pc = "ready" /\ got = 0 /\ at = 0
        /\ data = NoData /\ all = FALSE
        /\ answer = "none" /\ trigger = None
-----------------------------------------------------------------------------
(* The client *)

\* The next piece arrives. What comes after the recv is never read.
Arrive == /\ pc = "ready" /\ ~hungup
          /\ arrived < Total
          /\ arrived' = arrived + 1
          /\ UNCHANGED <<request, hungup, pc, got, at, data, all, answer, trigger>>

\* It closes the connection, perhaps before it has sent everything.
HangUp == /\ pc = "ready" /\ ~hungup
          /\ hungup' = TRUE
          /\ UNCHANGED <<request, arrived, pc, got, at, data, all, answer, trigger>>
-----------------------------------------------------------------------------
(* handle_http_event *)

Readable == arrived > 0 \/ hungup

\* recv() returns what is there, as far as the buffer holds it; 0 at the end.
ReceivedAll == arrived
ReceivedLessOne == IF arrived < BufParts THEN arrived ELSE BufParts - 1
Received == IF arrived <= BufParts THEN arrived ELSE BufParts
Recv == /\ pc = "ready" /\ Readable
        /\ got' = Received
        /\ at' = 0
        /\ data' = NoData
        /\ pc' = "parse"
        /\ UNCHANGED <<request, socket, all, answer, trigger>>

\* recv() fails: return, without an answer.
RecvError == /\ pc = "ready" /\ Readable
             /\ pc' = "closed"
             /\ UNCHANGED <<request, socket, got, at, data, all, answer, trigger>>

\* The request line and the header fields are passed over.
ParseHeader == /\ pc = "parse" /\ at = 0 /\ got > 0
               /\ at' = 1
               /\ UNCHANGED <<request, socket, pc, got, data, all, answer, trigger>>

\* The rest of the chunk that begins with part "at", or what there is of it.
EndsCallback(hi) == /\ hi \in ends \/ hi = got - 1
                    /\ \A k \in at..(hi - 1) : k \notin ends

\* The whole body is a JSON object. A proper part that begins like it is no
\* JSON; any other part may be, by chance, but has no commits.
IsBody(lo, hi) == lo = 1 /\ hi = parts
MayBeJson(lo, hi) == lo > 1 \/ hi = parts

\* substr(find_last_of('/') + 1): a ref without a slash is one segment.
FirstSegment(ref) == ref[1]
LastSegment(ref) == ref[Len(ref)]

\* The strncpy calls into the fields of data.
Fields == [flag |-> 1, branch |-> Clip[LastSegment(push.ref)],
           user |-> Clip[push.user], commit |-> Clip[push.commits[1]]]

\* my_body_callback on valid JSON: commits[0] must exist.
BodyCallback ==
  /\ pc = "parse" /\ at \in 1..(got - 1)
  /\ \E hi \in at..(got - 1) :
       /\ EndsCallback(hi)
       /\ IsBody(at, hi) /\ push.commits # <<>>
       /\ data' = Fields
       /\ at' = hi + 1
  /\ UNCHANGED <<request, socket, pc, got, all, answer, trigger>>

\* commits[0] of an empty vector is a null reference: the process dies.
NoCommits ==
  /\ pc = "parse" /\ at \in 1..(got - 1)
  /\ \E hi \in at..(got - 1) :
       /\ EndsCallback(hi)
       /\ MayBeJson(at, hi) /\ (IsBody(at, hi) => push.commits = <<>>)
  /\ pc' = "dead"
  /\ UNCHANGED <<request, socket, got, at, data, all, answer, trigger>>

\* data->flag = 0 and return -1, which stops http_parser_execute; it has parsed
\* all of the buffer only if the callback was the last thing it did. The mutant
\* has the callback return 0, with the flag still up.
GoOn(hi) == /\ data' = [data EXCEPT !.flag = 1]
            /\ at' = hi + 1
            /\ UNCHANGED <<pc, all>>
Fail(hi) == /\ data' = [data EXCEPT !.flag = 0]
            /\ all' \in IF hi = got - 1 THEN BOOLEAN ELSE {FALSE}
            /\ at' = hi + 1
            /\ pc' = "reply"

InvalidJson ==
  /\ pc = "parse" /\ at \in 1..(got - 1)
  /\ \E hi \in at..(got - 1) :
       /\ EndsCallback(hi)
       /\ ~IsBody(at, hi)
       /\ Fail(hi)
  /\ UNCHANGED <<request, socket, got, answer, trigger>>

\* http_parser_execute returns recved.
EndOfBuffer == /\ pc = "parse" /\ at = got
               /\ all' = TRUE
               /\ pc' = "reply"
               /\ UNCHANGED <<request, socket, got, at, data, answer, trigger>>

Refuse == /\ pc = "reply" /\ (~all \/ data.flag = 0)
          /\ answer' = "400"
          /\ pc' = "closed"
          /\ UNCHANGED <<request, socket, got, at, data, all, trigger>>

Accept == /\ pc = "reply" /\ all /\ data.flag # 0
          /\ answer' = "200"
          /\ pc' = "judge"
          /\ UNCHANGED <<request, socket, got, at, data, all, trigger>>

\* The three conditions of http_body_pred; the mutant joins them by a wrong "and".
AndPred(d) == d.branch = Dev /\ (d.user = Root \/ d.commit \in Compile)
HttpBodyPred(d) == d.branch = Dev \/ d.user = Root \/ d.commit \in Compile

Judge == /\ pc = "judge"
         /\ trigger' = IF HttpBodyPred(data) THEN data.branch ELSE None
         /\ pc' = "closed"
         /\ UNCHANGED <<request, socket, got, at, data, all, answer>>

HandleHttpEvent == \/ Recv \/ RecvError \/ ParseHeader \/ BodyCallback \/ NoCommits
                   \/ InvalidJson \/ EndOfBuffer \/ Refuse \/ Accept \/ Judge
Next == Arrive \/ HangUp \/ HandleHttpEvent

Spec == Init /\ [][Next]_vars
-----------------------------------------------------------------------------
\* Types. Nothing is parsed that was not received, nor received that was not sent.
TypeOK == /\ push \in Pushes
          /\ parts \in 1..MaxParts
          /\ ends \subseteq 1..parts /\ parts \in ends
          /\ arrived \in 0..Total /\ hungup \in BOOLEAN
          /\ pc \in {"ready", "parse", "reply", "judge", "closed", "dead"}
          /\ got \in 0..arrived /\ got <= BufParts
          /\ at \in 0..got
          /\ data \in [flag : {0, 1}, branch : Names, user : Names, commit : Names]
          /\ all \in BOOLEAN
          /\ answer \in {"none", "200", "400"}
          /\ trigger \in Names \cup {None}

\* The push GitLab sent, judged on its strings as they are.
IsWanted == \/ push.ref[Len(push.ref)] = Dev
            \/ push.user = Root
            \/ push.commits # <<>> /\ push.commits[1] \in Compile

\* Only a body that was received whole is answered with 200: no part of a
\* request leads to a deployment, however it was cut into segments and chunks.
OkMeansWhole == answer = "200" => got = Total /\ data = Fields

\* A push that was accepted triggers a deployment exactly if it is wanted, and
\* the 32 characters of its fields do not change the verdict. What is handed over
\* is the last segment of the ref, cut: for feature/x that is x.
JudgedAsSent ==
  pc = "closed" /\ answer = "200" =>
    trigger = IF IsWanted THEN Clip[push.ref[Len(push.ref)]] ELSE None

\* A request is refused only if recv could not return its body in one chunk: it
\* had not arrived, did not fit into the buffer, or was sent in several chunks.
Split == arrived < Total \/ Total > BufParts \/ ends # {parts}
RefusedMeansSplit == answer = "400" => Split

\* The daemon survives every push that has a commit, whatever parts of it a
\* chunk consists of.
DiesOnlyWithoutCommits == pc = "dead" => push.commits = <<>>

\* What the client and the deploy thread see of it is one outcome, once: until
\* the handler returns there is none, and the answer and the trigger that then
\* follow belong to each other and to the push that was sent: the branch that was
\* pushed is handed over as it is if the push is wanted, and nothing otherwise.
\* For a branch with a slash in its name, or one of more than 32 characters, the
\* code does not keep this, and Verdict does not promise it.
Outcome == CASE pc = "closed" -> IF answer = "none" THEN "dropped" ELSE answer
             [] pc = "dead"   -> "dead"
             [] OTHER         -> "pending"
Plain == Len(push.ref) = 3 /\ Clip[push.ref[3]] = push.ref[3]
Pushed == IF Plain THEN push.ref[3] ELSE None
Seen == INSTANCE Verdict WITH Branches <- Names, pushed <- Pushed, wanted <- IsWanted,
                              commits <- push.commits # <<>>, outcome <- Outcome,
                              deployed <- trigger
OneVerdict == Seen!Spec

(* Why they hold. *)

\* The flag is up only after the whole body was parsed, with its commits.
FlagMeansWhole ==
  /\ data.flag = 1 => /\ pc \in {"parse", "reply", "judge", "closed"}
                      /\ at = Total /\ data = Fields /\ push.commits # <<>>
  /\ pc = "parse" /\ data.flag = 0 => at <= 1
  /\ pc = "judge" => answer = "200"
  /\ answer # "none" => pc \in {"judge", "closed"}
  /\ answer = "200" => data.flag = 1

\* What recv returned is all that is parsed, and parsing it fails only if the
\* body was split.
ReadOnce ==
  /\ pc \in {"parse", "reply"} => got = Received
  /\ pc = "reply" /\ (~all \/ data.flag = 0) => Split

WebhookInv == /\ TypeOK /\ FlagMeansWhole /\ ReadOnce /\ OkMeansWhole
              /\ JudgedAsSent /\ RefusedMeansSplit /\ DiesOnlyWithoutCommits
=============================================================================
