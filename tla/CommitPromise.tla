--------------------------- MODULE CommitPromise ---------------------------
(***************************************************************************)
(* What a configuration callback promises sysrepo and the other models,    *)
(* whatever it does on the way: VPP changes once per commit, in the step   *)
(* that accepts it, and only what the commit names; a commit that is       *)
(* refused, or that kills the daemon, while it is verified has no effect.  *)
(* An accepted commit that another subscriber refuses stays in VPP.        *)
(* Between commits only a restart of VPP changes anything.                 *)
(***************************************************************************)
EXTENDS Naturals

CONSTANT Devices   \* the parts of VPP's state that commits are about

VARIABLES
  stage,   \* where the commit in progress stands
  named,   \* the devices it names
  dev,     \* VPP: the state of every device
  boots    \* restarts of VPP so far

vars == <<stage, named, dev, boots>>

Init == stage = "idle" /\ boots = 0

Begin ==
  /\ stage = "idle" /\ stage' \in {"verify", "accepted", "refused"}
  /\ UNCHANGED <<dev, boots>>

Accept ==
  /\ stage = "verify" /\ stage' = "accepted"
  /\ \A d \in Devices \ named : dev'[d] = dev[d]
  /\ UNCHANGED <<named, boots>>

Refuse ==
  /\ stage \in {"verify", "accepted"} /\ stage' = "refused"
  /\ UNCHANGED <<named, dev, boots>>

End ==
  /\ stage \in {"accepted", "refused"} /\ stage' = "idle"
  /\ UNCHANGED <<dev, boots>>

Reboot == boots' = boots + 1 /\ UNCHANGED <<stage, named>>

Next == Begin \/ Accept \/ Refuse \/ End \/ Reboot

Spec == Init /\ [][Next]_vars
=============================================================================
