---------------------------- MODULE DeployQueue ----------------------------
(***************************************************************************)
(* What the hand-over from the event thread to the deploy thread promises. *)
(* Requests are numbered in the order they are signalled. Deployments run  *)
(* one at a time; a deployment covers every request signalled before it    *)
(* starts, so requests that arrive during one are merged into the next,    *)
(* none is dropped, and no deployment starts without one. The process may  *)
(* stop, and then serves nothing more.                                     *)
(***************************************************************************)
EXTENDS Naturals

VARIABLES requested,  \* number of requests signalled
          started,    \* number of requests covered by the deployments started
          finished,   \* number of requests covered by the deployments finished
          running,    \* is a deployment running?
          up          \* is the process alive?

vars == <<requested, started, finished, running, up>>

Init == /\ requested = 0 /\ started = 0 /\ finished = 0
        /\ running = FALSE
        /\ up = TRUE

Request == /\ up
           /\ requested' = requested + 1
           /\ UNCHANGED <<started, finished, running, up>>

Start == /\ up /\ ~running
         /\ started < requested
         /\ started' = requested
         /\ running' = TRUE
         /\ UNCHANGED <<requested, finished, up>>

Finish == /\ up /\ running
          /\ finished' = started
          /\ running' = FALSE
          /\ UNCHANGED <<requested, started, up>>

Stop == /\ up
        /\ up' = FALSE
        /\ UNCHANGED <<requested, started, finished, running>>

Next == Request \/ Start \/ Finish \/ Stop

Spec == Init /\ [][Next]_vars

\* A deployment starts when it can; whether it ends is up to its commands.
FairSpec == Spec /\ WF_vars(Start)
=============================================================================
