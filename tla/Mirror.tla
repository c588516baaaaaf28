------------------------------- MODULE Mirror -------------------------------
(***************************************************************************)
(* What uploading only the files that differ promises: it cannot be told   *)
(* from uploading all of them. A build leaves some files; a deployment     *)
(* puts every one of them on the target, over what was there, or nothing.  *)
(***************************************************************************)
CONSTANTS Files, Absent,
          Values   \* what tells two versions of a file apart: hashes, or contents

VARIABLES built,   \* value of each file of the last build
          mirror   \* value of each file that was uploaded

vars == <<built, mirror>>

Maps == [Files -> Values \cup {Absent}]

Init == /\ built = [f \in Files |-> Absent]
        /\ mirror = [f \in Files |-> Absent]

Build == /\ built' \in Maps
         /\ UNCHANGED mirror

Deploy == /\ mirror' = [f \in Files |-> IF built[f] # Absent THEN built[f] ELSE mirror[f]]
          /\ UNCHANGED built

Next == Build \/ Deploy

Spec == Init /\ [][Next]_vars
=============================================================================
