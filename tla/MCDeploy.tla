------------------------------ MODULE MCDeploy ------------------------------
(***************************************************************************)
(* Instances of Deploy: a daemon d, a deployment by hand u, a comparison c. *)
(* One file depends on the branch, the other on the commit, and of that one *)
(* no hash shows a change. The branch s, with a '/', is handed over as b1.  *)
(***************************************************************************)
EXTENDS Deploy, TLC

CONSTANTS d, u, c, b1, s, f1, m1, m2, x1, x2, x3

OptsOf == [p \in Procs |-> CASE p = d -> {"x"} [] p = u -> {"u", "x"} [] p = c -> {"c", "u"}]

LastPart == [b \in Branches |-> IF b = s THEN b1 ELSE b]

HashOf == [x \in Contents |-> IF x = x1 THEN m1 ELSE m2]

Sources == [r \in Branches \X (1..MaxCommits) |->
  [f \in Files |-> IF f = f1 THEN IF r[1] = b1 THEN x1 ELSE x2
                             ELSE IF r[2] = 1 THEN x2 ELSE x3]]
=============================================================================
