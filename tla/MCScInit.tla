----------------------------- MODULE MCScInit -----------------------------
(***************************************************************************)
(* Instances of ScInit: the three models of the repository with the number *)
(* of subscriptions their init functions make.                             *)
(***************************************************************************)
EXTENDS ScInit

MCModels == {"ietf_interface", "ietf_nat", "openconfig_interface"}

MCNPoints ==
  [m \in MCModels |-> CASE m = "ietf_interface" -> 5
                        [] m = "ietf_nat" -> 3
                        [] m = "openconfig_interface" -> 2]
=============================================================================
