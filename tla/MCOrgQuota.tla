----------------------------- MODULE MCOrgQuota -----------------------------
(* Small instances of OrgQuota for TLC. *)
EXTENDS OrgQuota, TLC

Symmetry == Permutations(Pods) \cup Permutations(Requests) \cup Permutations(Tenants)
=============================================================================
