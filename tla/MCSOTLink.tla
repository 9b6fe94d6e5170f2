----------------------------- MODULE MCSOTLink -----------------------------
(* SOTLink on small instances. *)
EXTENDS SOTLink

CONSTANTS c1, c2, meta1, meta2

OneMeta == <<meta1>>
=============================================================================
