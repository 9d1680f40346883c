--------------------------- MODULE IetfInterface ---------------------------
(***************************************************************************)
(* ietf_interface_create_cb() of src/plugins/ietf/ietf_interface.cpp: the  *)
(* callback that turns a commit on /ietf-interfaces:interfaces/interface   *)
(* into VOM and VPP operations.                                            *)
(*                                                                         *)
(* sysrepo calls it with SR_EV_VERIFY and the list of changes, one per     *)
(* leaf.  The callback walks the list, collecting what it sees in local    *)
(* variables, and then performs ONE write or ONE removal.  Its steps are   *)
(* actions here; module Interfaces puts the commit protocol of sysrepo,    *)
(* the other model of interfaces and VPP around them.                      *)
(*                                                                         *)
(* Outside the repository: sysrepo, VOM (its database holds an object as   *)
(* long as a key does; interfaces found in VPP at start are held by the    *)
(* key "boot" for ever), and VPP (Ethernet interfaces are devices, which   *)
(* are neither created nor destroyed, only put up or down).                *)
(***************************************************************************)
EXTENDS Naturals, Sequences

CONSTANTS
  Names,         \* interface names a client may use
  Devices,       \* those of them that are devices of VPP
  MaxEdits,      \* bound on the edits of one commit
  GarbageFlags   \* flags among create, remove and modify, none of which the
                 \* code initialises, that may start out true

ASSUME IetfInterfaceAssumption ==
  /\ Devices \subseteq Names /\ "" \notin Names
  /\ MaxEdits \in Nat
  /\ GarbageFlags \subseteq {"create", "remove", "modify"}

VARIABLES
  edits,     \* the commit in progress, a sequence of edits
  pos,       \* <<i, j>>: the iterator is at the j-th change of the i-th edit
  builder,   \* local variable: the interface_builder
  flags,     \* local variables create, remove, modify: the ones set to true
  intf,      \* local variable: the interface pointed to, name "" if null
  vom,       \* admin state of the interfaces of the VOM database, or "none"
  vpp,       \* admin state of the devices
  pc         \* where the commit stands

locals == <<builder, flags, intf>>

States == {"up", "down"}
NoBuilder == [name |-> "", type |-> "", state |-> "unset"]
NoIntf == [name |-> "", state |-> "down"]

\* What OM::populate("boot") finds in VPP.
Populated(v) == [n \in Names |-> IF n \in Devices THEN v[n] ELSE "none"]

-----------------------------------------------------------------------------
(***************************************************************************)
(* Edits a client may make to datastore ds, which gives an interface       *)
(* "none" or the value of its leaf enabled, and the changes sysrepo        *)
(* reports for each.  "ipv4" sets the leaf enabled of the container ipv4   *)
(* of an interface, "descr" any leaf the callback has no use for.          *)
(* "create_ipv4" creates the interface with its container ipv4; where both *)
(* leaves say the same, or the container comes first, "create" stands for  *)
(* it.                                                                     *)
(***************************************************************************)
Types == {"ethernetCsmacd", "other"}

Creations == {"create", "create_ipv4"}

Opposite(state) == IF state = "up" THEN "down" ELSE "up"

Edits(ds, kinds) ==
  { e \in [kind : kinds, name : Names, type : Types, val : States] :
      /\ e.kind \in Creations <=> ds[e.name] = "none"
      /\ e.kind \notin Creations => e.type = "ethernetCsmacd"
      /\ e.kind = "enable" => e.val # ds[e.name]
      /\ e.kind \in {"delete", "descr"} => e.val = "up" }

ChangesOf(e) ==
  LET Change(op, node, val) ==
        [op |-> op, node |-> node, if |-> e.name, val |-> val]
  IN CASE e.kind = "create" -> << Change("CREATED", "name", e.name),
                                  Change("CREATED", "type", e.type),
                                  Change("CREATED", "enabled", e.val) >>
       [] e.kind = "create_ipv4" ->
            << Change("CREATED", "name", e.name),
               Change("CREATED", "type", e.type),
               Change("CREATED", "enabled", e.val),
               Change("CREATED", "ipv4/enabled", Opposite(e.val)) >>
       [] e.kind = "delete" -> << Change("DELETED", "name", e.name),
                                  Change("DELETED", "enabled", e.val) >>
       [] e.kind = "enable" -> << Change("MODIFIED", "enabled", e.val) >>
       [] e.kind = "ipv4"   -> << Change("MODIFIED", "ipv4/enabled", e.val) >>
       [] e.kind = "descr"  -> << Change("MODIFIED", "description", e.val) >>

\* The names the commit in progress is about.
Named == {edits[i].name : i \in DOMAIN edits}

\* ds with the edits of the given kinds applied.
Edited(ds, kinds) ==
  [n \in DOMAIN ds |->
    LET of == {i \in DOMAIN edits : edits[i].name = n
                                    /\ edits[i].kind \in kinds}
    IN IF of = {} THEN ds[n]
       ELSE LET e == edits[CHOOSE i \in of : TRUE]
            IN IF e.kind = "delete" THEN "none" ELSE e.val]

(***************************************************************************)
(* sr_xpath_node_name_eq() looks at the last node of the path only.        *)
(***************************************************************************)
NodeNameEq(c, node) ==
  c.node = node \/ (node = "enabled" /\ c.node = "ipv4/enabled")

\* sr_xpath_key_value(): the name of the interface the change is under.
KeyValue(c) == c.if

-----------------------------------------------------------------------------
\* The locals of a call, before its first and after its last statement.
FreshLocals == builder' = NoBuilder /\ flags' = {} /\ intf' = NoIntf

(***************************************************************************)
(* A client commits edits es, and the callback is entered with             *)
(* SR_EV_VERIFY with fresh locals.  The flags and the builder's state are  *)
(* uninitialised: their values are chosen when they are read, after the    *)
(* loop, if the loop has not set them.                                     *)
(***************************************************************************)
Enter(es) ==
  /\ edits' = es /\ pos' = <<1, 1>>
  /\ FreshLocals
  /\ UNCHANGED <<vom, vpp>>

\* Commits: up to MaxEdits edits, on different interfaces.
Commits(ds, kinds) ==
  { es \in UNION {[1..k -> Edits(ds, kinds)] : k \in 1..MaxEdits} :
      \A i, j \in DOMAIN es : es[i].name = es[j].name => i = j }

\* SR_ERR_OPERATION_FAILED if there is no iterator.
Commit(ds, kinds) ==
  /\ pc = "idle"
  /\ \E es \in Commits(ds, kinds) : Enter(es)
  /\ pc' \in {"loop", "rejected"}

-----------------------------------------------------------------------------
(***************************************************************************)
(* foreach_change: the switch on the operation.                            *)
(***************************************************************************)
MoreChanges == pos[1] <= Len(edits)

ThisChange == ChangesOf(edits[pos[1]])[pos[2]]

NextChange(op) ==
  /\ pc = "loop" /\ MoreChanges /\ ThisChange.op = op
  /\ pos' = IF pos[2] < Len(ChangesOf(edits[pos[1]]))
              THEN <<pos[1], pos[2] + 1>> ELSE <<pos[1] + 1, 1>>

\* mutant: MODIFIED changes the device at once
ChangeModifiedEager ==
  /\ NextChange("MODIFIED")
  /\ LET c == ThisChange
         n == KeyValue(c)
     IN IF ~NodeNameEq(c, "enabled") \/ vom[n] = "none"
          THEN pc' = "rejected" /\ UNCHANGED <<flags, intf, vom, vpp>>
        ELSE /\ intf' = [name |-> n, state |-> c.val]
             /\ vom' = [vom EXCEPT ![n] = c.val]
             /\ vpp' = [d \in Devices |-> IF d = n THEN c.val ELSE vpp[d]]
             /\ flags' = flags \cup {"modify"}
             /\ UNCHANGED pc
  /\ UNCHANGED <<edits, builder>>

\* enabled: intf is VOM's own object, and set() changes it there and then.
ChangeModified ==
  /\ NextChange("MODIFIED")
  /\ LET c == ThisChange
         n == KeyValue(c)
     IN IF ~NodeNameEq(c, "enabled")
          THEN UNCHANGED <<flags, intf, vom, pc>>
        ELSE IF vom[n] = "none"
          THEN pc' = "rejected" /\ intf' = NoIntf /\ UNCHANGED <<flags, vom>>
        ELSE /\ intf' = [name |-> n, state |-> c.val]
             /\ vom' = [vom EXCEPT ![n] = c.val]
             /\ flags' = flags \cup {"modify"}
             /\ UNCHANGED pc
  /\ UNCHANGED <<edits, builder, vpp>>

\* set_type() keeps the type it has when the new one is not supported.
ChangeCreated ==
  /\ NextChange("CREATED")
  /\ LET c == ThisChange
     IN \/ /\ NodeNameEq(c, "name")
           /\ builder' = [builder EXCEPT !.name = c.val]
           /\ flags' = flags \cup {"create"}
        \/ /\ NodeNameEq(c, "type")
           /\ builder' = IF c.val = "ethernetCsmacd"
                           THEN [builder EXCEPT !.type = "ETHERNET"]
                           ELSE builder
           /\ UNCHANGED flags
        \/ /\ NodeNameEq(c, "enabled")
           /\ builder' = [builder EXCEPT !.state = c.val]
           /\ UNCHANGED flags
  /\ UNCHANGED <<edits, intf, vom, vpp, pc>>

ChangeDeleted ==
  /\ NextChange("DELETED")
  /\ LET c == ThisChange
     IN IF NodeNameEq(c, "name")
          THEN /\ builder' = [builder EXCEPT !.name = c.val]
               /\ flags' = flags \cup {"remove"}
          ELSE UNCHANGED <<builder, flags>>
  /\ UNCHANGED <<edits, intf, vom, vpp, pc>>

-----------------------------------------------------------------------------
\* After the loop: the locals are read, what they hold if they are not set
\* is chosen here.
ReadLocals ==
  /\ pc = "loop" /\ ~MoreChanges
  /\ \E g \in SUBSET GarbageFlags : flags' = flags \cup g
  /\ \E s \in States :
       builder' = IF builder.state = "unset"
                    THEN [builder EXCEPT !.state = s] ELSE builder
  /\ pc' = "finish"
  /\ UNCHANGED <<edits, pos, intf, vom, vpp>>

Returns == FreshLocals /\ UNCHANGED <<edits, pos>>

\* An error after the loop frees the values of the last change, which the
\* loop has freed, again: the daemon may not survive it.
LateError == pc' \in {"rejected", "crashed"}

\* The interface to write: a new one if create, else what MODIFIED found.
ToWrite ==
  IF "create" \in flags
    THEN [name |-> builder.name, state |-> builder.state]
    ELSE intf

\* create, and the builder lacks the name or the type: SR_ERR_INVAL_ARG.
BuildFails ==
  pc = "finish" /\ "create" \in flags /\ (builder.name = "" \/ builder.type = "")

FinishInval ==
  /\ BuildFails
  /\ LateError
  /\ Returns /\ UNCHANGED <<vom, vpp>>

Writes == pc = "finish" /\ ~BuildFails /\ flags \cap {"create", "modify"} # {}

\* mutant: the result of OM::write() is not looked at
FinishWriteUnchecked ==
  /\ Writes /\ ToWrite.name # ""
  /\ LET n == ToWrite.name
     IN /\ vom' = [vom EXCEPT ![n] = ToWrite.state]
        /\ \/ n \in Devices /\ vpp' = [vpp EXCEPT ![n] = ToWrite.state]
           \/ UNCHANGED vpp
        /\ pc' = "verified"
  /\ Returns

(***************************************************************************)
(* create or modify: OM::write(intf->key(), *intf).  VOM keeps the object  *)
(* under the key in any case; VPP may refuse, and does if the interface is *)
(* not one of its devices.                                                 *)
(***************************************************************************)
FinishWrite ==
  /\ Writes /\ ToWrite.name # ""
  /\ LET n == ToWrite.name
     IN /\ vom' = [vom EXCEPT ![n] = ToWrite.state]
        /\ \/ /\ n \in Devices
              /\ vpp' = [vpp EXCEPT ![n] = ToWrite.state]
              /\ pc' = "verified"
           \/ LateError /\ UNCHANGED vpp
  /\ Returns

\* modify, true without a MODIFIED change: intf is null and dereferenced.
FinishNullIntf ==
  /\ Writes /\ ToWrite.name = ""
  /\ pc' = "crashed"
  /\ Returns /\ UNCHANGED <<vom, vpp>>

Removes == pc = "finish" /\ flags = {"remove"}

\* mutant: the object is dropped for "boot" too
FinishRemoveBoot ==
  /\ Removes
  /\ vom' = [n \in Names |-> IF n = builder.name THEN "none" ELSE vom[n]]
  /\ pc' = "verified"
  /\ Returns /\ UNCHANGED vpp

\* OM::remove(): the key is dropped, and with it an object no other key
\* holds.  "boot" holds the devices, so VPP is left as it is.
FinishRemove ==
  /\ Removes
  /\ vom' = [n \in Names |-> IF n = builder.name /\ n \notin Devices
                               THEN "none" ELSE vom[n]]
  /\ pc' = "verified"
  /\ Returns /\ UNCHANGED vpp

FinishNothing ==
  /\ pc = "finish" /\ flags = {}
  /\ pc' = "verified"
  /\ Returns /\ UNCHANGED <<vom, vpp>>

Finish ==
  \/ ReadLocals \/ FinishInval \/ FinishWrite \/ FinishNullIntf
  \/ FinishRemove \/ FinishNothing
=============================================================================
