-------------------------- MODULE MCKResourceLimit --------------------------
(* KResourceLimit on small instances.                                      *)
EXTENDS KResourceLimit
=============================================================================
