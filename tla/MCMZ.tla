-------------------------------- MODULE MCMZ --------------------------------
(***************************************************************************)
(* The generation of a maze on small grids.                                *)
(***************************************************************************)
EXTENDS MZProperties
=============================================================================
