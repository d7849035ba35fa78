--------------------------- MODULE MCIntegration ---------------------------
(***************************************************************************)
(* Integration for TLC, and what comments in the source say of it that the *)
(* code does not keep: each claim is refuted by a run of its own.          *)
(***************************************************************************)
EXTENDS Integration, TLC

Symmetry == Permutations(Tasks) \cup Permutations(Requests)

\* What a crash left half done is reconciled when the daemon starts
\* (gitworkflow/integration.go, RecoverIntegrations): the start never fails on it.
RecoveryReconciles == daemon # "REFUSED"
=============================================================================
