---------------------------- MODULE MCCatalogSync ----------------------------
(* CatalogSync on small instances, for TLC.  No symmetry: the runs check liveness. *)
EXTENDS CatalogSync, TLC

==============================================================================
