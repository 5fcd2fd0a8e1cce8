-------------------------- MODULE MCAuditSession --------------------------
(***************************************************************************)
(* AuditSession for TLC.                                                   *)
(***************************************************************************)
EXTENDS AuditSession, TLC

\* Calls are interchangeable (used by the runs without liveness properties only).
Symmetry == Permutations(Call)

=============================================================================
