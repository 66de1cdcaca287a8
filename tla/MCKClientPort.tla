--------------------------- MODULE MCKClientPort ---------------------------
(* KClientPort on small instances.                                         *)
EXTENDS KClientPort
=============================================================================
