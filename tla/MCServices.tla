------------------------------- MODULE MCServices -------------------------------
(***************************************************************************)
(* The instance of Services for TLC: what a configuration file cannot say. *)
(***************************************************************************)
EXTENDS Services, TLC

MCProfiles == <<"p", "q">>
MCPriority == <<0, 0>>
MCOrder    == <<"p", "q">>

\* No part but the turns knows them, and they are alike.
TurnSymmetry == Permutations(Turn)
================================================================================
