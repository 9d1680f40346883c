----------------------------- MODULE MCIetfNat -----------------------------
(***************************************************************************)
(* Instances of IetfNat: two indices that may be given the same pair, as   *)
(* source or as destination addresses.                                     *)
(***************************************************************************)
EXTENDS IetfNat

MCAddrs == {"10.0.0.1", "192.0.2.1"}
MCGiven == {<<"10.0.0.1", "192.0.2.1">>}
=============================================================================
