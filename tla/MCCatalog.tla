------------------------------- MODULE MCCatalog -------------------------------
(***************************************************************************)
(* The catalog of two threads.                                             *)
(***************************************************************************)
EXTENDS Catalog

CONSTANTS t1, t2, ix
=============================================================================
