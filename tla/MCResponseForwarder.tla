------------------------ MODULE MCResponseForwarder ------------------------
(***************************************************************************)
(* Instances of ResponseForwarder for TLC.                                 *)
(***************************************************************************)
EXTENDS ResponseForwarder
=============================================================================
