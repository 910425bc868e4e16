-------------------------- MODULE MCEvidenceIngest --------------------------
(* A small instance of EvidenceIngest for TLC. *)
EXTENDS EvidenceIngest, TLC

Symmetry == Permutations(Processes)
=============================================================================
