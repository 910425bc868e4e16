------------------------- MODULE MCStreamGeneration -------------------------
(* Small instances of StreamGeneration for TLC. *)
EXTENDS StreamGeneration, TLC

CONSTANTS a, b

\* A generation longer than the buffer, beside an empty or a short one.
LongAndShort == (a :> {3}) @@ (b :> {0, 1})
=============================================================================
