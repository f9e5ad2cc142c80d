----------------------------- MODULE MCProcess -----------------------------
(***************************************************************************)
(* Instances of Process for TLC, with a history variable: whether some     *)
(* process has killed itself and run on.                                   *)
(***************************************************************************)
EXTENDS Process

VARIABLE selfKilled

MCInit == Init /\ selfKilled = FALSE

MCNext ==
    /\ Next
    /\ selfKilled' = (selfKilled \/ (pc' = "run" /\ ring'[1].state = "ZOMBIE"))

MCSpec == MCInit /\ [][MCNext]_<<vars, selfKilled>> /\ Fairness

\* As long as no process runs on after it killed itself, the parent of every
\* process is on the run list: exit_current_process() hands all children to the
\* idle process before its pid can be used again.
OrphansAdoptedUnlessKilled == ~selfKilled => OrphansAdopted
=============================================================================
