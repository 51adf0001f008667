--------------------------- MODULE MCShadowBanker ---------------------------
(***************************************************************************)
(* A small instance of a spend account and its shadow for TLC.             *)
(***************************************************************************)
EXTENDS ShadowBanker, TLC

CONSTANT b1

Top == << "top" >>
Spend == << "top", "spend" >>
TwoKeys == { Top, Spend }

=============================================================================
