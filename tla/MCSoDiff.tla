------------------------------ MODULE MCSoDiff ------------------------------
(***************************************************************************)
(* Instances of SoDiff: a daemon d, single deployments u, comparisons c. A *)
(* content is its first bytes, as their hash, and what comes after them.   *)
(***************************************************************************)
EXTENDS SoDiff, TLC

CONSTANTS d, u, c, Tails

Kind == d :> "daemon" @@ u :> "once" @@ c :> "compare"
ModeOf == [p \in Procs |-> Kind[p]]

Bytes == Md5s \X Tails
OfHead == [b \in Bytes |-> b[1]]

\* Files, hashes and contents are only compared for equality.
Symmetric == Permutations(Files) \cup Permutations(Md5s) \cup Permutations(Tails)
=============================================================================
