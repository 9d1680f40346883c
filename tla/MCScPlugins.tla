---------------------------- MODULE MCScPlugins ----------------------------
(* ScPlugins on a small instance; the values are in the cfg files. *)
EXTENDS ScPlugins
=============================================================================
