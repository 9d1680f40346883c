----------------------------- MODULE Interfaces -----------------------------
(***************************************************************************)
(* The two models that configure the same interfaces: ietf-interfaces      *)
(* (module IetfInterface) and openconfig-interfaces, whose callback        *)
(* oc_interfaces_config_cb() of openconfig_interfaces.cpp has the same     *)
(* body but for three places.  Both write VOM objects under the name of    *)
(* the interface; each has a RUNNING datastore of its own.                 *)
(*                                                                         *)
(* All subscriptions share one context, so one callback runs at a time.    *)
(* The health check runs on the daemon's timer: VPP may be restarted, and  *)
(* the VOM database replayed to it, between any two steps of a callback.   *)
(* ScPlugins has the detail of that; here it is one step.                  *)
(***************************************************************************)
EXTENDS IetfInterface

CONSTANT MaxBoots   \* bound on the restarts of VPP

ASSUME MaxBootsAssumption == MaxBoots \in Nat

VARIABLES
  running,     \* RUNNING datastore of ietf-interfaces
  ocRunning,   \* RUNNING datastore of openconfig-interfaces
  model,       \* the model the commit in progress belongs to, or "none"
  boots,       \* restarts of VPP so far
  before,      \* history: <<vom, vpp>> when the commit began
  asked        \* history: by device, the state last asked for and accepted,
               \* "unknown" after a commit that spoils the books, see Apply

protocolVars == <<running, ocRunning, model, boots, before, asked>>
vars == <<edits, pos, locals, vom, vpp, pc, protocolVars>>

Datastores == [Names -> States \cup {"none"}]

Init ==
  /\ edits = <<>> /\ pos = <<1, 1>>
  /\ builder = NoBuilder /\ flags = {} /\ intf = NoIntf
  /\ vpp = [d \in Devices |-> "down"] /\ vom = Populated(vpp)
  /\ pc = "idle"
  /\ running = [n \in Names |-> "none"] /\ ocRunning = running
  /\ model = "none" /\ boots = 0
  /\ before = <<vom, vpp>>
  /\ asked = vpp

-----------------------------------------------------------------------------
(***************************************************************************)
(* The callback of ietf-interfaces.                                        *)
(***************************************************************************)
IetfCommit ==
  /\ Commit(running, Creations \cup {"delete", "enable", "ipv4", "descr"})
  /\ model' = "ietf"
  /\ before' = <<vom, vpp>>
  /\ UNCHANGED <<running, ocRunning, boots, asked>>

IetfStep ==
  /\ model = "ietf"
  /\ ChangeModified \/ ChangeCreated \/ ChangeDeleted \/ Finish
  /\ UNCHANGED protocolVars

-----------------------------------------------------------------------------
(***************************************************************************)
(* The callback of openconfig-interfaces.  Its subtree, config, has no     *)
(* other leaf called enabled.  Without an iterator it returns SR_ERR_OK.   *)
(***************************************************************************)
OcCommit ==
  /\ pc = "idle"
  /\ \E es \in Commits(ocRunning, {"create", "delete", "enable", "descr"}) :
       Enter(es)
  /\ pc' \in {"loop", "verified"}
  /\ model' = "oc"
  /\ before' = <<vom, vpp>>
  /\ UNCHANGED <<running, ocRunning, boots, asked>>

OcChangeCreated ==
  model = "oc" /\ ChangeCreated /\ UNCHANGED protocolVars

OcChangeModified ==
  model = "oc" /\ ChangeModified /\ UNCHANGED protocolVars

\* The new value, null for a deletion, is dereferenced before the switch.
OcChangeDeleted ==
  /\ model = "oc" /\ NextChange("DELETED")
  /\ pc' = "crashed"
  /\ UNCHANGED <<edits, builder, flags, intf, vom, vpp, protocolVars>>

OcFinish == model = "oc" /\ Finish /\ UNCHANGED protocolVars

-----------------------------------------------------------------------------
(***************************************************************************)
(* sysrepo ends the commit; both callbacks return at once on every event   *)
(* other than SR_EV_VERIFY.                                                *)
(***************************************************************************)
EndCommit ==
  /\ edits' = <<>> /\ pos' = <<1, 1>> /\ FreshLocals
  /\ pc' = "idle"
  /\ before' = <<vom', vpp>>
  /\ model' = "none"
  /\ UNCHANGED <<vpp, boots>>

Forget(set) ==
  [d \in Devices |-> IF d \in set THEN "unknown" ELSE asked[d]]

(***************************************************************************)
(* The commit is accepted.  What becomes of its devices is not promised    *)
(* for a commit of several edits, which are not all carried out, for the   *)
(* leaf ipv4/enabled, which is taken for the interface's own, alone or in  *)
(* a creation, and for an openconfig commit accepted without an iterator.  *)
(***************************************************************************)
Apply ==
  /\ pc = "verified"
  /\ LET all == Creations \cup {"delete", "enable"}
     IN IF model = "ietf"
          THEN running' = Edited(running, all) /\ UNCHANGED ocRunning
          ELSE ocRunning' = Edited(ocRunning, all) /\ UNCHANGED running
  /\ asked' = IF /\ Len(edits) = 1 /\ pos[1] > 1
                 /\ edits[1].kind \notin {"ipv4", "create_ipv4"}
                THEN Edited(asked, {"create", "enable"})
                ELSE Forget(Named)
  /\ UNCHANGED vom
  /\ EndCommit

\* Another subscriber refuses what this one has accepted: SR_EV_ABORT.
Abort ==
  /\ pc = "verified"
  /\ pc' = "aborted"
  /\ UNCHANGED <<edits, pos, locals, vom, vpp, protocolVars>>

\* The commit has failed; nothing is promised of a device it left a trace of.
Failed ==
  /\ asked' = Forget({d \in Devices : \/ vom'[d] # before[1][d]
                                      \/ vpp[d] # before[2][d]})
  /\ UNCHANGED <<running, ocRunning>>
  /\ EndCommit

Refuse == pc \in {"rejected", "aborted"} /\ UNCHANGED vom /\ Failed

\* The daemon is started again after a crash, with a VOM database that
\* OM::populate("boot") fills.
Restart == pc = "crashed" /\ vom' = Populated(vpp) /\ Failed

\* VPP crashes and comes back, and the health check replays VOM's objects;
\* without a daemon nobody does.
VppRestart ==
  /\ boots < MaxBoots
  /\ boots' = boots + 1
  /\ vpp' = [d \in Devices |-> IF pc = "crashed" THEN "down" ELSE vom[d]]
  /\ asked' = IF pc = "crashed" THEN Forget(Devices) ELSE asked
  /\ UNCHANGED <<edits, pos, locals, vom, pc, running, ocRunning, model, before>>

Next ==
  \/ IetfCommit \/ IetfStep
  \/ OcCommit \/ OcChangeCreated \/ OcChangeModified \/ OcChangeDeleted
  \/ OcFinish
  \/ Apply \/ Abort \/ Refuse \/ Restart \/ VppRestart

Spec == Init /\ [][Next]_vars

-----------------------------------------------------------------------------
(***************************************************************************)
(* Properties                                                              *)
(***************************************************************************)

\* Types of the variables; VOM always holds the devices, also after one
\* model has removed an interface that the other still configures.
TypeOK ==
  /\ Len(edits) \in 0..MaxEdits
  /\ pos \in (1 .. MaxEdits + 1) \X (1..4)
  /\ builder \in [name : Names \cup {""}, type : {"", "ETHERNET"},
                  state : States \cup {"unset"}]
  /\ flags \subseteq {"create", "remove", "modify"}
  /\ intf \in [name : Names \cup {""}, state : States]
  /\ vom \in Datastores /\ \A d \in Devices : vom[d] # "none"
  /\ vpp \in [Devices -> States]
  /\ asked \in [Devices -> States \cup {"unknown"}]
  /\ pc \in {"idle", "loop", "finish", "verified", "rejected", "aborted",
             "crashed"}
  /\ running \in Datastores /\ ocRunning \in Datastores
  /\ model \in {"none", "ietf", "oc"} /\ boots \in 0..MaxBoots

(***************************************************************************)
(* At rest every device is in the state that the last accepted commit of   *)
(* either model asked for, and VOM would replay that state: after a        *)
(* removal by the other model, after restarts of VPP at any point of a     *)
(* callback, after crashes of the callback and restarts of the daemon, and *)
(* whatever the uninitialised flags are.  A commit that spoils this for a  *)
(* device is made good by the next one that is accepted.                   *)
(***************************************************************************)
AcceptedInVpp ==
  pc = "idle" => \A d \in Devices : asked[d] # "unknown"
                                       => vpp[d] = asked[d] /\ vom[d] = asked[d]

\* The refinement mapping: a commit is accepted once it is verified.
Stage ==
  CASE pc = "idle" -> "idle" [] pc \in {"loop", "finish"} -> "verify"
    [] pc = "verified" -> "accepted" [] OTHER -> "refused"

Promise == INSTANCE CommitPromise WITH
             stage <- Stage, named <- Named, dev <- vpp

(***************************************************************************)
(* Both callbacks keep the promise: VPP is changed by the step that        *)
(* accepts a commit and by no other step of either callback, and only the  *)
(* devices that the commit names.                                          *)
(***************************************************************************)
KeepsPromise == Promise!Spec

(***************************************************************************)
(* What the documents say and the code does not do.                        *)
(***************************************************************************)

\* ietf_interface.cpp:114 "we only care about SR_EV_{ENABLED,VERIFY,ABORT}":
\* the callback returns on SR_EV_ABORT, and VPP keeps an aborted commit.
AbortRestoresVpp == pc = "aborted" => vpp = before[2]
=============================================================================
