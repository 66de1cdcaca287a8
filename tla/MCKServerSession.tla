-------------------------- MODULE MCKServerSession --------------------------
(* KServerSession on small instances.                                      *)
EXTENDS KServerSession
=============================================================================
