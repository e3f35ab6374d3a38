---------------------------- MODULE MCSecondaryTransfer ----------------------------
(* SecondaryTransfer on small instances, for TLC.  No symmetry: the runs check liveness. *)
EXTENDS SecondaryTransfer, TLC

==============================================================================
