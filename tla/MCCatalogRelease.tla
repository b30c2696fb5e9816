-------------------------- MODULE MCCatalogRelease --------------------------
(***************************************************************************)
(* An instance of CatalogRelease for TLC.                                  *)
(***************************************************************************)
EXTENDS CatalogRelease

CONSTANTS b1, b2
=============================================================================
