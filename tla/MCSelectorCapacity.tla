------------------------- MODULE MCSelectorCapacity -------------------------
(* Small instances of SelectorCapacity for TLC. *)
EXTENDS SelectorCapacity, TLC

CONSTANTS r1, r2, r3, r4, o1, o2, o3

\* Two requests of one organization and one of each of two others.
TwoOneOne == (r1 :> o1) @@ (r2 :> o1) @@ (r3 :> o2) @@ (r4 :> o3)

\* default_max_org_selections: half of the slots, and at least one.
HalfOf(n) == IF n < 2 THEN 1 ELSE n \div 2
HalfOfTwo == HalfOf(2)
=============================================================================
