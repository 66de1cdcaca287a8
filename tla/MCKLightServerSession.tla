----------------------- MODULE MCKLightServerSession -----------------------
(* KLightServerSession on small instances.                                 *)
EXTENDS KLightServerSession
=============================================================================
