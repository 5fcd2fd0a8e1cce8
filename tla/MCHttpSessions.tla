-------------------------- MODULE MCHttpSessions --------------------------
(***************************************************************************)
(* HttpSessions for TLC.                                                   *)
(***************************************************************************)
EXTENDS HttpSessions, TLC

\* Attempts and processes are interchangeable (used by the runs without liveness
\* properties only).
Symmetry == Permutations(Attempt) \cup Permutations(Instance)

=============================================================================
