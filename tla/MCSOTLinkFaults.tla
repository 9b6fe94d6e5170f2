-------------------------- MODULE MCSOTLinkFaults --------------------------
(* SOTLinkFaults on small instances. *)
EXTENDS SOTLinkFaults

CONSTANTS c1, c2, meta1, value

OneMeta == <<meta1>>

AllFaults     == {"loss", "client restart", "master restart"}
MasterFaults  == {"master restart"}
ClientFaults  == {"client restart"}
=============================================================================
