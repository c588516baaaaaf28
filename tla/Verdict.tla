------------------------------ MODULE Verdict ------------------------------
(***************************************************************************)
(* What a webhook comes to, as its client and the deploy thread see it:    *)
(* one outcome, once. It is dropped or refused, and nothing is deployed;   *)
(* or it is accepted, and the branch that was pushed is deployed if the    *)
(* push is wanted, and nothing otherwise; or, when it has no commits, it   *)
(* ends the process. This much is promised only for branches with a plain  *)
(* name: for one with a slash or more than 32 characters any string may be *)
(* handed over, or none.                                                   *)
(***************************************************************************)
CONSTANTS Branches, None

VARIABLES pushed,     \* the branch, or None if its name is not plain
          wanted,     \* is its branch, user or message one to deploy for?
          commits,    \* it has one at least
          outcome,    \* what became of it
          deployed    \* branch handed to the deploy thread, or None

vars == <<pushed, wanted, commits, outcome, deployed>>

Init == /\ pushed \in Branches \cup {None}
        /\ wanted \in BOOLEAN /\ commits \in BOOLEAN
        /\ outcome = "pending" /\ deployed = None

Becomes(o) == /\ outcome = "pending"
              /\ outcome' = o
              /\ UNCHANGED <<pushed, wanted, commits>>

TurnedDown == /\ Becomes("dropped") \/ Becomes("400")
              /\ UNCHANGED deployed

Deployable == IF pushed = None THEN Branches \cup {None}
              ELSE IF wanted THEN {pushed} ELSE {None}

Accepted == /\ commits
            /\ Becomes("200")
            /\ deployed' \in Deployable

Fatal == /\ ~commits
         /\ Becomes("dead")
         /\ UNCHANGED deployed

Next == TurnedDown \/ Accepted \/ Fatal

Spec == Init /\ [][Next]_vars
=============================================================================
