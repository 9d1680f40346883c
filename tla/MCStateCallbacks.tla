-------------------------- MODULE MCStateCallbacks --------------------------
(***************************************************************************)
(* StateCallbacks with three interfaces, one of which VOM does not have,   *)
(* and a name that VPP does not have.  A filter for eth1 also lets eth10   *)
(* through.                                                                *)
(***************************************************************************)
EXTENDS StateCallbacks

MCIfs    == {"eth0", "eth1", "eth10"}
MCNames  == {"", "eth0", "eth1", "eth10", "ghost"}
MCVomIfs == {"eth0", "eth1", "ghost"}

MCMatches ==
  [n \in MCNames |-> CASE n = "eth1" -> {"eth1", "eth10"}
                       [] n \in {"eth0", "eth10"} -> {n}
                       [] OTHER -> {}]
=============================================================================
