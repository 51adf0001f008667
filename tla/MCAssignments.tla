--------------------------- MODULE MCAssignments ----------------------------
(***************************************************************************)
(* Small instances of the banker with its assignments one by one, with the *)
(* accounts and amounts of MCMasterBanker.                                 *)
(***************************************************************************)
EXTENDS MasterBankerAssignments, MCMasterBanker

=============================================================================
