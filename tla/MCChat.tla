------------------------------- MODULE MCChat -------------------------------
(***************************************************************************)
(* Three requests on two threads.                                          *)
(***************************************************************************)
EXTENDS ChatProperties, TLC

CONSTANTS q1, q2, q3, i1

MCRequests == {q1, q2, q3}

\* One server process, as deployed.
OneProcess == [q \in MCRequests |-> i1]
=============================================================================
