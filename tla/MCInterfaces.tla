---------------------------- MODULE MCInterfaces ----------------------------
(***************************************************************************)
(* Instances of Interfaces: a device of VPP, and a name that is no device. *)
(***************************************************************************)
EXTENDS Interfaces

OneDevice == {"eth0"}
WithGhost == {"eth0", "ghost"}
AllFlags  == {"create", "remove", "modify"}
=============================================================================
