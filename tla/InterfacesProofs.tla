-------------------------- MODULE InterfacesProofs --------------------------
(***************************************************************************)
(* Both callbacks that configure interfaces implement CommitPromise, and   *)
(* at rest every device is as the last accepted commit asked, for every    *)
(* set of names and devices, any number of edits per commit, any garbage   *)
(* in the uninitialised flags and any number of restarts of VPP.           *)
(***************************************************************************)
EXTENDS Interfaces, TLAPS

AllKinds == {"create", "create_ipv4", "delete", "enable", "ipv4", "descr"}
AllEdits == [kind : AllKinds, name : Names, type : Types, val : States]

EditsTyped == edits \in Seq(AllEdits)

\* The iterator is at a change, or past the last one.
PosInRange ==
  /\ pos \in (Nat \ {0}) \X (Nat \ {0})
  /\ MoreChanges => pos[2] <= Len(ChangesOf(edits[pos[1]]))

\* The locals name interfaces of the commit only.
LocalsNamed ==
  /\ builder \in [name : Named \cup {""}, type : {"", "ETHERNET"},
                  state : States \cup {"unset"}]
  /\ intf \in [name : Named \cup {""}, state : States]

VppTyped == vpp = [d \in Devices |-> vpp[d]]

(***************************************************************************)
(* The inductive invariant.  What OM::write() writes to is found in the    *)
(* locals, so the promise that it is named by the commit needs LocalsNamed *)
(* and with it where the locals come from: the change the iterator is at.  *)
(***************************************************************************)
NamedInv == EditsTyped /\ PosInRange /\ LocalsNamed /\ VppTyped

-----------------------------------------------------------------------------
\* The changes sysrepo reports for an edit: one to four, all under the
\* edited interface, and the leaf name holds its name.
LEMMA ChangesShape ==
  ASSUME NEW e \in AllEdits
  PROVE  /\ Len(ChangesOf(e)) \in 1..4 /\ 1 <= Len(ChangesOf(e))
         /\ \A j \in 1..Len(ChangesOf(e)) :
              /\ ChangesOf(e)[j].if = e.name
              /\ ChangesOf(e)[j].node = "name" => ChangesOf(e)[j].val = e.name
              /\ ChangesOf(e)[j].op = "MODIFIED" => ChangesOf(e)[j].val \in States
              /\ ChangesOf(e)[j].node \in {"enabled", "ipv4/enabled"}
                   => ChangesOf(e)[j].val \in States
<1>. e.name \in Names /\ e.val \in States /\ e.kind \in AllKinds
  BY DEF AllEdits
<1>1. CASE e.kind = "create"
  BY <1>1 DEF ChangesOf
<1>2. CASE e.kind = "delete"
  BY <1>2 DEF ChangesOf
<1>3. CASE e.kind = "enable"
  BY <1>3 DEF ChangesOf
<1>4. CASE e.kind = "ipv4"
  BY <1>4 DEF ChangesOf
<1>5. CASE e.kind = "descr"
  BY <1>5 DEF ChangesOf
<1>6. CASE e.kind = "create_ipv4"
  <2>1. Opposite(e.val) \in States
    BY DEF Opposite, States
  <2>2. QED
    BY <1>6, <2>1 DEF ChangesOf
<1>7. QED
  BY <1>1, <1>2, <1>3, <1>4, <1>5, <1>6 DEF AllKinds

\* The change the iterator is at belongs to an edit of the commit.
LEMMA ThisChangeNamed ==
  ASSUME EditsTyped, PosInRange, MoreChanges
  PROVE  /\ edits[pos[1]] \in AllEdits
         /\ ThisChange.if \in Named
         /\ ThisChange.node = "name" => ThisChange.val \in Named
         /\ ThisChange.op = "MODIFIED" => ThisChange.val \in States
         /\ ThisChange.node \in {"enabled", "ipv4/enabled"}
              => ThisChange.val \in States
<1>. DEFINE e == edits[pos[1]]
<1>1. pos[1] \in DOMAIN edits /\ e \in AllEdits
  BY DEF EditsTyped, PosInRange, MoreChanges
<1>2. e.name \in Named
  BY <1>1 DEF Named
<1>3. pos[2] \in 1..Len(ChangesOf(e))
  BY <1>1, ChangesShape DEF PosInRange
<1>4. QED
  BY <1>1, <1>2, <1>3, ChangesShape DEF ThisChange

\* The iterator moves on.
LEMMA NextInRange ==
  ASSUME EditsTyped, PosInRange, NEW op, NextChange(op), edits' = edits
  PROVE  EditsTyped' /\ PosInRange' /\ Named' = Named
<1>. DEFINE n == Len(ChangesOf(edits[pos[1]]))
<1>1. n \in 1..4
  BY ThisChangeNamed, ChangesShape DEF NextChange
<1>2. EditsTyped' /\ Named' = Named
  BY DEF EditsTyped, Named
<1>3. CASE pos[2] < n
  <2>1. pos' = <<pos[1], pos[2] + 1>>
    BY <1>3 DEF NextChange
  <2>2. QED
    BY <1>1, <1>2, <1>3, <2>1 DEF PosInRange, MoreChanges
<1>4. CASE ~(pos[2] < n)
  <2>1. pos' = <<pos[1] + 1, 1>>
    BY <1>4 DEF NextChange
  <2>2. ASSUME pos[1] + 1 <= Len(edits)
        PROVE  1 <= Len(ChangesOf(edits[pos[1] + 1]))
    <3>1. edits[pos[1] + 1] \in AllEdits
      BY <2>2 DEF EditsTyped, PosInRange
    <3>2. QED
      BY <3>1, ChangesShape, Zenon
  <2>3. QED
    BY <1>2, <2>1, <2>2 DEF PosInRange, MoreChanges
<1>5. QED
  BY <1>3, <1>4

\* A call begins with fresh locals at the first change.
LEMMA EnterNamed ==
  ASSUME NEW ds, NEW kinds \in SUBSET AllKinds, NEW es \in Commits(ds, kinds),
         MaxEdits \in Nat, VppTyped, Enter(es)
  PROVE  NamedInv'
<1>1. es \in Seq(AllEdits)
  <2>1. PICK k \in 1..MaxEdits : es \in [1..k -> Edits(ds, kinds)]
    BY DEF Commits
  <2>2. Edits(ds, kinds) \subseteq AllEdits
    BY DEF Edits, AllEdits
  <2>3. QED
    BY <2>1, <2>2
<1>2. PosInRange'
  <2>1. ASSUME 1 <= Len(es) PROVE 1 <= Len(ChangesOf(es[1]))
    BY <1>1, <2>1, ChangesShape
  <2>2. QED
    BY <1>1, <2>1 DEF Enter, PosInRange, MoreChanges
<1>3. LocalsNamed'
  BY DEF Enter, FreshLocals, NoBuilder, NoIntf, LocalsNamed, States
<1>4. QED
  BY <1>1, <1>2, <1>3 DEF Enter, NamedInv, EditsTyped, VppTyped

-----------------------------------------------------------------------------
\* Every step of a callback, of sysrepo and of VPP preserves the invariant.
LEMMA NamedStep ==
  ASSUME NamedInv, [Next]_vars
  PROVE  NamedInv'
<1>. USE DEF NamedInv
<1>1. CASE UNCHANGED <<edits, pos, builder, intf, vpp>>
  BY <1>1 DEF EditsTyped, PosInRange, MoreChanges, LocalsNamed, Named, VppTyped
<1>2. ASSUME NEW ds, NEW kinds \in SUBSET AllKinds,
             \E es \in Commits(ds, kinds) : Enter(es)
      PROVE  NamedInv'
  BY <1>2, EnterNamed, IetfInterfaceAssumption
<1>3. CASE IetfCommit
  BY <1>2, <1>3 DEF IetfCommit, Commit, AllKinds, Creations
<1>4. CASE OcCommit
  BY <1>2, <1>4 DEF OcCommit, AllKinds
<1>5. CASE ChangeModified
  <2>1. EditsTyped' /\ PosInRange' /\ Named' = Named
    BY <1>5, NextInRange DEF ChangeModified
  <2>2. MoreChanges /\ ThisChange.op = "MODIFIED"
    BY <1>5 DEF ChangeModified, NextChange
  <2>3. ThisChange.if \in Named /\ ThisChange.val \in States
    BY <2>2, ThisChangeNamed
  <2>4. \/ intf' = intf \/ intf' = NoIntf
        \/ intf' = [name |-> ThisChange.if, state |-> ThisChange.val]
    BY <1>5 DEF ChangeModified, KeyValue
  <2>5. intf' \in [name : Named \cup {""}, state : States]
    <3>1. intf \in [name : Named \cup {""}, state : States]
      BY DEF LocalsNamed
    <3>2. NoIntf \in [name : Named \cup {""}, state : States]
      BY DEF NoIntf, States
    <3>3. [name |-> ThisChange.if, state |-> ThisChange.val]
            \in [name : Named \cup {""}, state : States]
      BY <2>3
    <3>4. QED
      BY <2>4, <3>1, <3>2, <3>3
  <2>6. QED
    BY <1>5, <2>1, <2>5 DEF ChangeModified, LocalsNamed, VppTyped
<1>6. CASE ChangeCreated
  <2>1. EditsTyped' /\ PosInRange' /\ Named' = Named
    BY <1>6, NextInRange DEF ChangeCreated
  <2>2. MoreChanges
    BY <1>6 DEF ChangeCreated, NextChange
  <2>3. /\ ThisChange.node = "name" => ThisChange.val \in Named
        /\ ThisChange.node \in {"enabled", "ipv4/enabled"}
             => ThisChange.val \in States
    BY <2>2, ThisChangeNamed
  <2>4. \/ /\ builder' = [builder EXCEPT !.name = ThisChange.val]
           /\ ThisChange.node = "name"
        \/ builder' = [builder EXCEPT !.type = "ETHERNET"]
        \/ builder' = builder
        \/ /\ builder' = [builder EXCEPT !.state = ThisChange.val]
           /\ ThisChange.val \in States
    BY <1>6, <2>3 DEF ChangeCreated, NodeNameEq
  <2>5. builder' \in [name : Named \cup {""}, type : {"", "ETHERNET"},
                      state : States \cup {"unset"}]
    BY <2>3, <2>4 DEF LocalsNamed
  <2>6. QED
    BY <1>6, <2>1, <2>5 DEF ChangeCreated, LocalsNamed, VppTyped
<1>7. CASE ChangeDeleted
  <2>1. EditsTyped' /\ PosInRange' /\ Named' = Named
    BY <1>7, NextInRange DEF ChangeDeleted
  <2>2. MoreChanges
    BY <1>7 DEF ChangeDeleted, NextChange
  <2>3. ThisChange.node = "name" => ThisChange.val \in Named
    BY <2>2, ThisChangeNamed
  <2>4. QED
    BY <1>7, <2>1, <2>3 DEF ChangeDeleted, LocalsNamed, VppTyped, NodeNameEq
<1>8. CASE OcChangeDeleted
  <2>1. EditsTyped' /\ PosInRange' /\ Named' = Named
    BY <1>8, NextInRange DEF OcChangeDeleted
  <2>2. QED
    BY <1>8, <2>1 DEF OcChangeDeleted, LocalsNamed, VppTyped
<1>9. CASE ReadLocals
  <2>1. EditsTyped' /\ PosInRange' /\ VppTyped' /\ Named' = Named
    BY <1>9 DEF ReadLocals, EditsTyped, PosInRange, MoreChanges, Named, VppTyped
  <2>2. PICK s \in States : builder' = builder
                             \/ builder' = [builder EXCEPT !.state = s]
    BY <1>9 DEF ReadLocals
  <2>3. builder' \in [name : Named \cup {""}, type : {"", "ETHERNET"},
                      state : States \cup {"unset"}]
    BY <2>2 DEF LocalsNamed
  <2>4. QED
    BY <1>9, <2>1, <2>3 DEF ReadLocals, LocalsNamed
<1>10. ASSUME FreshLocals, UNCHANGED <<edits, pos>>, VppTyped'
       PROVE  NamedInv'
  BY <1>10 DEF FreshLocals, NoBuilder, NoIntf, EditsTyped, PosInRange,
               MoreChanges, LocalsNamed, Named, States
<1>11. CASE FinishInval \/ FinishNullIntf \/ FinishRemove \/ FinishNothing
  BY <1>10, <1>11 DEF FinishInval, FinishNullIntf, FinishRemove,
                      FinishNothing, Returns, VppTyped
<1>12. CASE FinishWrite
  BY <1>10, <1>12 DEF FinishWrite, Returns, VppTyped
<1>13. CASE EndCommit
  <2>1. EditsTyped' /\ PosInRange' /\ VppTyped'
    BY <1>13 DEF EndCommit, EditsTyped, PosInRange, MoreChanges, VppTyped
  <2>2. LocalsNamed'
    BY <1>13 DEF EndCommit, FreshLocals, NoBuilder, NoIntf, LocalsNamed, States
  <2>3. QED
    BY <2>1, <2>2
<1>14. CASE VppRestart
  BY <1>14 DEF VppRestart, locals, EditsTyped, PosInRange, MoreChanges,
               LocalsNamed, Named, VppTyped
<1>15. CASE Finish
  BY <1>9, <1>11, <1>12, <1>15 DEF Finish
<1>16. QED
  BY <1>1, <1>3, <1>4, <1>5, <1>6, <1>7, <1>8, <1>13, <1>14, <1>15
     DEF Next, IetfStep, OcChangeCreated, OcChangeModified, OcFinish, Apply,
         Abort, Failed, Refuse, Restart, vars, locals

(***************************************************************************)
(* The refinement: every step of the system is a step of CommitPromise or  *)
(* leaves its variables alone.                                             *)
(***************************************************************************)
LEMMA PromiseStep ==
  ASSUME NamedInv, [Next]_vars
  PROVE  [Promise!Next]_(Promise!vars)
<1>. USE DEF Promise!Next, Promise!vars, Stage
<1>1. CASE UNCHANGED vars
  BY <1>1 DEF vars, protocolVars, Named
<1>2. CASE IetfCommit \/ OcCommit
  BY <1>2 DEF IetfCommit, Commit, OcCommit, Enter, Promise!Begin
<1>3. ASSUME UNCHANGED <<edits, boots, vpp>>, pc \in {"loop", "finish"},
             pc' \in {"loop", "finish", "verified", "rejected", "crashed"}
      PROVE  [Promise!Next]_(Promise!vars)
  BY <1>3 DEF Named, Promise!Refuse, Promise!Accept
<1>4. CASE ChangeModified /\ UNCHANGED protocolVars
  BY <1>3, <1>4 DEF ChangeModified, NextChange, protocolVars
<1>5. CASE (ChangeCreated \/ ChangeDeleted) /\ UNCHANGED protocolVars
  BY <1>3, <1>5 DEF ChangeCreated, ChangeDeleted, NextChange, protocolVars
<1>6. CASE OcChangeDeleted
  BY <1>3, <1>6 DEF OcChangeDeleted, NextChange, protocolVars
<1>7. CASE /\ ReadLocals \/ FinishInval \/ FinishNullIntf
           /\ UNCHANGED protocolVars
  BY <1>3, <1>7 DEF ReadLocals, FinishInval, BuildFails, LateError, Writes,
                    FinishNullIntf, Returns, protocolVars
<1>8. CASE (FinishRemove \/ FinishNothing) /\ UNCHANGED protocolVars
  BY <1>3, <1>8 DEF FinishRemove, Removes, FinishNothing, Returns, protocolVars
<1>9. CASE FinishWrite /\ UNCHANGED protocolVars
  <2>. DEFINE n == ToWrite.name
  <2>1. n \in Named
    BY <1>9 DEF FinishWrite, ToWrite, NamedInv, LocalsNamed
  <2>2. /\ UNCHANGED <<edits, boots>> /\ pc = "finish"
        /\ \/ vpp' = [vpp EXCEPT ![n] = ToWrite.state] /\ pc' = "verified"
           \/ vpp' = vpp /\ pc' \in {"rejected", "crashed"}
    BY <1>9 DEF FinishWrite, Writes, Returns, LateError, protocolVars
  <2>. HIDE DEF n
  <2>3. CASE vpp' = [vpp EXCEPT ![n] = ToWrite.state] /\ pc' = "verified"
    <3>1. \A d \in Devices \ Named : vpp'[d] = vpp[d]
      BY <2>1, <2>3 DEF NamedInv, VppTyped
    <3>2. QED
      BY <2>2, <2>3, <3>1 DEF Promise!Accept, Named
  <2>4. QED
    BY <1>3, <2>2, <2>3
<1>10. CASE Apply \/ Refuse \/ Restart
  BY <1>10 DEF Apply, Refuse, Restart, Failed, EndCommit, Promise!End
<1>11. CASE Abort
  BY <1>11 DEF Abort, protocolVars, Named, Promise!Refuse
<1>12. CASE VppRestart
  BY <1>12 DEF VppRestart, Named, Promise!Reboot
<1>13. QED
  BY <1>1, <1>2, <1>4, <1>5, <1>6, <1>7, <1>8, <1>9, <1>10, <1>11, <1>12
     DEF Next, IetfStep, OcChangeCreated, OcChangeModified, OcFinish, Finish

\* The invariant holds at first.
LEMMA NamedInit == Init => NamedInv
<1>1. Init => EditsTyped /\ PosInRange /\ VppTyped
  BY DEF Init, EditsTyped, PosInRange, MoreChanges, VppTyped
<1>2. Init => LocalsNamed
  <2>1. Init => builder = NoBuilder /\ intf = NoIntf
    BY DEF Init
  <2>2. /\ NoBuilder \in [name : Named \cup {""}, type : {"", "ETHERNET"},
                          state : States \cup {"unset"}]
        /\ NoIntf \in [name : Named \cup {""}, state : States]
    BY DEF NoBuilder, NoIntf, States
  <2>3. QED
    BY <2>1, <2>2 DEF LocalsNamed
<1>3. QED
  BY <1>1, <1>2 DEF NamedInv

\* KeepsPromise: VPP is changed only by the step of
\* ietf_interface_create_cb() or oc_interfaces_config_cb() that accepts a
\* commit, only in the interfaces the commit names, and by restarts of VPP.
THEOREM InterfacesKeepPromise == Spec => KeepsPromise
<1>1. NamedInv /\ [Next]_vars => NamedInv'
  BY NamedStep
<1>2. Init => Promise!Init
  BY DEF Init, Promise!Init, Stage
<1>3. NamedInv /\ [Next]_vars => [Promise!Next]_(Promise!vars)
  BY PromiseStep
<1>4. QED
  BY <1>1, <1>2, <1>3, NamedInit, PTL DEF Spec, KeepsPromise, Promise!Spec

-----------------------------------------------------------------------------
(***************************************************************************)
(* Types.                                                                  *)
(***************************************************************************)
Flags == {"create", "remove", "modify"}

Stages == {"idle", "loop", "finish", "verified", "rejected", "aborted", "crashed"}

\* The iterator stops right behind the last change, and the builder's state
\* has been read, or chosen, once the loop is over.
PosBounded ==
  /\ Len(edits) <= MaxEdits /\ pos[1] <= Len(edits) + 1
  /\ ~MoreChanges => pos[2] = 1

PastLoop == pc = "finish" => ~MoreChanges /\ builder.state # "unset"

VomTyped == vom \in Datastores /\ \A d \in Devices : vom[d] # "none"

HistoryTyped ==
  /\ asked \in [Devices -> States \cup {"unknown"}]
  /\ running \in Datastores /\ ocRunning \in Datastores
  /\ model \in {"none", "ietf", "oc"} /\ boots \in 0..MaxBoots

InterfacesTypeInv ==
  /\ NamedInv /\ PosBounded /\ PastLoop
  /\ flags \subseteq Flags /\ VomTyped /\ vpp \in [Devices -> States]
  /\ pc \in Stages /\ HistoryTyped

\* An edited datastore has the edited values where an edit applies, and is
\* unchanged elsewhere.
LEMMA EditedAt ==
  ASSUME NEW ds, NEW kinds, NEW n \in DOMAIN ds
  PROVE  \/ /\ Edited(ds, kinds)[n] = ds[n]
            /\ \A i \in DOMAIN edits : edits[i].name = n => edits[i].kind \notin kinds
         \/ \E i \in DOMAIN edits :
              /\ edits[i].name = n /\ edits[i].kind \in kinds
              /\ Edited(ds, kinds)[n] = IF edits[i].kind = "delete" THEN "none"
                                        ELSE edits[i].val
<1>. DEFINE of == {i \in DOMAIN edits : edits[i].name = n /\ edits[i].kind \in kinds}
            c == CHOOSE i \in of : TRUE
<1>1. Edited(ds, kinds)[n] = IF of = {} THEN ds[n]
                             ELSE IF edits[c].kind = "delete" THEN "none"
                             ELSE edits[c].val
  BY DEF Edited
<1>2. CASE of = {}
  BY <1>1, <1>2
<1>3. CASE of # {}
  <2>1. c \in of
    BY <1>3
  <2>2. QED
    BY <1>1, <1>3, <2>1
<1>4. QED
  BY <1>2, <1>3

\* The values an edited datastore may hold.
LEMMA EditedTyped ==
  ASSUME EditsTyped, NEW S, NEW T, NEW ds \in [S -> T],
         NEW kinds \in SUBSET AllKinds, States \subseteq T,
         "delete" \in kinds => "none" \in T
  PROVE  Edited(ds, kinds) \in [S -> T]
<1>1. Edited(ds, kinds) = [n \in S |-> Edited(ds, kinds)[n]]
  BY DEF Edited
<1>2. ASSUME NEW n \in S PROVE Edited(ds, kinds)[n] \in T
  <2>1. ASSUME NEW i \in DOMAIN edits PROVE edits[i].val \in States
    <3>1. edits[i] \in AllEdits
      BY DEF EditsTyped
    <3>2. QED
      BY <3>1 DEF AllEdits
  <2>2. QED
    BY <2>1, EditedAt
<1>3. QED
  BY <1>1, <1>2

\* A turn of the loop keeps the iterator in its bounds.
LEMMA TurnBounded ==
  ASSUME InterfacesTypeInv, NEW op, NextChange(op), edits' = edits
  PROVE  PosBounded'
<1>. DEFINE n == Len(ChangesOf(edits[pos[1]]))
<1>1. n \in 1..4 /\ Len(edits) \in Nat
  BY ThisChangeNamed, ChangesShape DEF NextChange, InterfacesTypeInv, NamedInv, EditsTyped
<1>2. pos' = IF pos[2] < n THEN <<pos[1], pos[2] + 1>> ELSE <<pos[1] + 1, 1>>
  BY DEF NextChange
<1>3. pos[1] \in Nat /\ pos[1] <= Len(edits) /\ Len(edits) <= MaxEdits
  BY DEF InterfacesTypeInv, NamedInv, PosInRange, PosBounded, NextChange, MoreChanges
<1>4. QED
  BY <1>1, <1>2, <1>3 DEF PosBounded, MoreChanges

\* A commit begins with the first of its edits.
LEMMA CommitTyped ==
  ASSUME InterfacesTypeInv, IetfCommit \/ OcCommit
  PROVE  InterfacesTypeInv'
<1>1. NamedInv'
  BY NamedStep DEF InterfacesTypeInv, Next
<1>2. PICK ds, kinds, es : es \in Commits(ds, kinds) /\ Enter(es)
  BY DEF IetfCommit, Commit, OcCommit
<1>3. PICK k \in 1..MaxEdits : es \in [1..k -> Edits(ds, kinds)]
  BY <1>2 DEF Commits
<1>4. PosBounded'
  <2>1. edits' = es /\ pos' = <<1, 1>> /\ MaxEdits \in Nat
    BY <1>2, IetfInterfaceAssumption DEF Enter
  <2>2. Len(es) = k
    BY <1>3, <2>1
  <2>3. QED
    BY <1>3, <2>1, <2>2 DEF PosBounded, MoreChanges
<1>5. UNCHANGED <<vom, vpp, running, ocRunning, boots, asked>> /\ flags' = {}
  BY <1>2 DEF IetfCommit, OcCommit, Enter, FreshLocals
<1>6. pc' \in {"loop", "rejected", "verified"} /\ model' \in {"ietf", "oc"}
  BY DEF IetfCommit, Commit, OcCommit
<1>7. QED
  BY <1>1, <1>4, <1>5, <1>6 DEF InterfacesTypeInv, PastLoop, VomTyped, HistoryTyped, Stages

\* A turn of the loop of either callback.
LEMMA ChangeTyped ==
  ASSUME InterfacesTypeInv, NamedInv', UNCHANGED protocolVars \/ OcChangeDeleted,
         ChangeModified \/ ChangeCreated \/ ChangeDeleted \/ OcChangeDeleted
  PROVE  InterfacesTypeInv'
<1>1. PosBounded' /\ MoreChanges
  BY TurnBounded DEF ChangeModified, ChangeCreated, ChangeDeleted, OcChangeDeleted, NextChange
<1>2. pc' \in {"loop", "rejected", "crashed"} /\ vpp' = vpp
  BY DEF ChangeModified, ChangeCreated, ChangeDeleted, OcChangeDeleted, NextChange
<1>3. flags' \subseteq Flags
  BY DEF ChangeModified, ChangeCreated, ChangeDeleted, OcChangeDeleted, Flags,
         InterfacesTypeInv
<1>4. HistoryTyped'
  BY DEF OcChangeDeleted, protocolVars, InterfacesTypeInv, HistoryTyped
<1>5. VomTyped'
  <2>1. CASE ChangeModified
    <3>1. vom' = vom \/ (/\ vom' = [vom EXCEPT ![ThisChange.if] = ThisChange.val]
                         /\ ThisChange.op = "MODIFIED")
      BY <2>1 DEF ChangeModified, NextChange, KeyValue
    <3>2. ThisChange.op = "MODIFIED" => ThisChange.val \in States
      BY <1>1, ThisChangeNamed DEF InterfacesTypeInv, NamedInv
    <3>3. Devices \subseteq Names
      BY IetfInterfaceAssumption
    <3>4. QED
      BY <3>1, <3>2, <3>3 DEF InterfacesTypeInv, VomTyped, Datastores, States
  <2>2. QED
    BY <2>1 DEF ChangeCreated, ChangeDeleted, OcChangeDeleted, InterfacesTypeInv, VomTyped
<1>6. QED
  BY <1>1, <1>2, <1>3, <1>4, <1>5 DEF InterfacesTypeInv, PastLoop, Stages

\* What OM::write() is given: a state, once the loop is over.
LEMMA WrittenState ==
  ASSUME InterfacesTypeInv, pc = "finish"
  PROVE  ToWrite.state \in States
<1>1. builder.state \in States
  BY DEF InterfacesTypeInv, NamedInv, LocalsNamed, PastLoop
<1>2. intf.state \in States
  BY DEF InterfacesTypeInv, NamedInv, LocalsNamed
<1>3. QED
  BY <1>1, <1>2 DEF ToWrite

\* The end of a call.
LEMMA FinishTyped ==
  ASSUME InterfacesTypeInv, NamedInv', UNCHANGED protocolVars, Finish
  PROVE  InterfacesTypeInv'
<1>1. HistoryTyped'
  BY DEF protocolVars, InterfacesTypeInv, HistoryTyped
<1>2. CASE ReadLocals
  <2>1. /\ UNCHANGED <<edits, pos, vom, vpp>> /\ pc' = "finish" /\ ~MoreChanges
        /\ \E g \in SUBSET GarbageFlags : flags' = flags \cup g
    BY <1>2 DEF ReadLocals
  <2>2. GarbageFlags \subseteq Flags
    BY IetfInterfaceAssumption DEF Flags
  <2>3. builder'.state # "unset"
    BY <1>2 DEF ReadLocals, InterfacesTypeInv, NamedInv, LocalsNamed, States
  <2>4. QED
    BY <1>1, <2>1, <2>2, <2>3
       DEF InterfacesTypeInv, PosBounded, PastLoop, MoreChanges, VomTyped, Stages
<1>3. ASSUME Returns, VomTyped', vpp' \in [Devices -> States],
             pc' \in {"verified", "rejected", "crashed"}
      PROVE  InterfacesTypeInv'
  BY <1>1, <1>3 DEF Returns, FreshLocals, InterfacesTypeInv, PosBounded, PastLoop,
                    MoreChanges, Stages
<1>4. CASE FinishInval \/ FinishNullIntf \/ FinishNothing
  BY <1>3, <1>4 DEF FinishInval, LateError, FinishNullIntf, FinishNothing,
                    InterfacesTypeInv, VomTyped
<1>5. CASE FinishWrite
  <2>. DEFINE n == ToWrite.name
              st == ToWrite.state
  <2>1. /\ vom' = [vom EXCEPT ![n] = st] /\ Returns /\ pc = "finish"
        /\ vpp' = vpp \/ vpp' = [vpp EXCEPT ![n] = st]
        /\ pc' \in {"verified", "rejected", "crashed"}
    BY <1>5 DEF FinishWrite, Writes, LateError
  <2>2. st \in States
    BY <2>1, WrittenState
  <2>. HIDE DEF n, st
  <2>3. VomTyped'
    <3>1. Devices \subseteq Names
      BY IetfInterfaceAssumption
    <3>2. QED
      BY <2>1, <2>2, <3>1 DEF InterfacesTypeInv, VomTyped, Datastores, States
  <2>4. vpp' \in [Devices -> States]
    BY <2>1, <2>2 DEF InterfacesTypeInv
  <2>5. QED
    BY <1>3, <2>1, <2>3, <2>4
<1>6. CASE FinishRemove
  <2>1. VomTyped'
    <3>1. Devices \subseteq Names
      BY IetfInterfaceAssumption
    <3>2. QED
      BY <1>6, <3>1 DEF FinishRemove, InterfacesTypeInv, VomTyped, Datastores
  <2>2. QED
    BY <1>3, <1>6, <2>1 DEF FinishRemove, InterfacesTypeInv
<1>7. QED
  BY <1>2, <1>4, <1>5, <1>6 DEF Finish

\* The end of a commit, and a restart of the daemon.
LEMMA EndTyped ==
  ASSUME InterfacesTypeInv, NamedInv', Apply \/ Refuse \/ Restart
  PROVE  InterfacesTypeInv'
<1>1. /\ edits' = <<>> /\ pos' = <<1, 1>> /\ flags' = {} /\ pc' = "idle"
      /\ vpp' = vpp /\ boots' = boots /\ model' = "none"
  BY DEF Apply, Refuse, Restart, Failed, EndCommit, FreshLocals
<1>2. PosBounded' /\ PastLoop'
  <2>1. MaxEdits \in Nat
    BY IetfInterfaceAssumption
  <2>2. QED
    BY <1>1, <2>1 DEF PosBounded, MoreChanges, PastLoop
<1>3. VomTyped'
  <2>1. CASE vom' = vom
    BY <2>1 DEF InterfacesTypeInv, VomTyped
  <2>2. CASE vom' = Populated(vpp)
    <3>1. Devices \subseteq Names
      BY IetfInterfaceAssumption
    <3>2. QED
      BY <2>2, <3>1 DEF Populated, InterfacesTypeInv, VomTyped, Datastores, States
  <2>3. QED
    BY <2>1, <2>2 DEF Apply, Refuse, Restart
<1>4. ASSUME NEW set PROVE Forget(set) \in [Devices -> States \cup {"unknown"}]
  BY DEF Forget, InterfacesTypeInv, HistoryTyped
<1>5. HistoryTyped'
  <2>1. CASE Apply
    <3>1. EditsTyped
      BY DEF InterfacesTypeInv, NamedInv
    <3>2. ASSUME NEW ds \in Datastores
          PROVE  Edited(ds, Creations \cup {"delete", "enable"}) \in Datastores
      <4>. DEFINE T == States \cup {"none"}
                  all == Creations \cup {"delete", "enable"}
      <4>1. ds \in [Names -> T] /\ all \in SUBSET AllKinds
            /\ States \subseteq T /\ "none" \in T
        BY DEF Datastores, AllKinds, Creations
      <4>. HIDE DEF T, all
      <4>2. Edited(ds, all) \in [Names -> T]
        BY <3>1, <4>1, EditedTyped
      <4>3. QED
        BY <4>2 DEF T, all, Datastores
    <3>3. Edited(asked, {"create", "enable"}) \in [Devices -> States \cup {"unknown"}]
      BY <3>1, EditedTyped DEF AllKinds, InterfacesTypeInv, HistoryTyped
    <3>4. QED
      BY <1>1, <1>4, <2>1, <3>2, <3>3 DEF Apply, InterfacesTypeInv, HistoryTyped
  <2>2. CASE Failed
    BY <1>1, <1>4, <2>2 DEF Failed, InterfacesTypeInv, HistoryTyped
  <2>3. QED
    BY <2>1, <2>2 DEF Refuse, Restart
<1>6. QED
  BY <1>1, <1>2, <1>3, <1>5 DEF InterfacesTypeInv, Stages

\* A restart of VPP: the replayed state of a device is that of VOM.
LEMMA VppRestartTyped ==
  ASSUME InterfacesTypeInv, NamedInv', VppRestart
  PROVE  InterfacesTypeInv'
<1>1. /\ UNCHANGED <<edits, pos, builder, flags, vom, pc, running, ocRunning, model>>
      /\ boots' = boots + 1 /\ boots < MaxBoots
      /\ asked' = Forget(Devices) \/ asked' = asked
  BY DEF VppRestart, locals
<1>2. vpp' \in [Devices -> States]
  <2>1. \A d \in Devices : vom[d] \in States
    BY IetfInterfaceAssumption DEF InterfacesTypeInv, VomTyped, Datastores
  <2>2. QED
    BY <2>1 DEF VppRestart, States
<1>3. HistoryTyped'
  BY <1>1, MaxBootsAssumption DEF InterfacesTypeInv, HistoryTyped, Forget
<1>4. QED
  BY <1>1, <1>2, <1>3 DEF InterfacesTypeInv, PosBounded, PastLoop, MoreChanges, VomTyped

\* Every step keeps the types.
LEMMA InterfacesTypeStep ==
  ASSUME InterfacesTypeInv, [Next]_vars
  PROVE  InterfacesTypeInv'
<1>1. NamedInv'
  BY NamedStep DEF InterfacesTypeInv
<1>2. CASE UNCHANGED <<edits, pos, builder, flags, vom, vpp, protocolVars>>
           /\ pc' \in {pc, "aborted"}
  BY <1>1, <1>2 DEF protocolVars, InterfacesTypeInv, PosBounded, PastLoop, MoreChanges,
                    VomTyped, HistoryTyped, Stages
<1>3. CASE UNCHANGED vars
  BY <1>2, <1>3 DEF vars, locals
<1>4. CASE Abort
  BY <1>2, <1>4 DEF Abort, locals
<1>5. CASE IetfStep \/ OcChangeCreated \/ OcChangeModified \/ OcChangeDeleted \/ OcFinish
  BY <1>1, <1>5, ChangeTyped, FinishTyped
     DEF IetfStep, OcChangeCreated, OcChangeModified, OcFinish
<1>6. QED
  BY <1>1, <1>3, <1>4, <1>5, CommitTyped, EndTyped, VppRestartTyped DEF Next

\* The types hold at first.
LEMMA InterfacesTypeInit == Init => InterfacesTypeInv
<1>. SUFFICES ASSUME Init PROVE InterfacesTypeInv
  OBVIOUS
<1>1. NamedInv
  BY NamedInit
<1>2. /\ edits = <<>> /\ pos = <<1, 1>> /\ flags = {} /\ pc = "idle" /\ model = "none"
      /\ boots = 0 /\ vpp = [d \in Devices |-> "down"] /\ vom = Populated(vpp)
      /\ asked = vpp /\ running = [n \in Names |-> "none"] /\ ocRunning = running
  BY DEF Init
<1>3. Devices \subseteq Names /\ MaxEdits \in Nat
  BY IetfInterfaceAssumption
<1>4. PosBounded /\ PastLoop
  BY <1>2, <1>3 DEF PosBounded, PastLoop, MoreChanges
<1>5. VomTyped /\ vpp \in [Devices -> States]
  BY <1>2, <1>3 DEF VomTyped, Populated, Datastores, States
<1>6. HistoryTyped
  BY <1>2, MaxBootsAssumption DEF HistoryTyped, Datastores, States
<1>7. QED
  BY <1>1, <1>2, <1>4, <1>5, <1>6 DEF InterfacesTypeInv, Stages

\* TypeOK: the locals of both callbacks, VOM and VPP keep their types; VOM
\* holds every device also after one model has removed its interface.
THEOREM InterfacesTypes == Spec => []TypeOK
<1>1. InterfacesTypeInv => TypeOK
  <2>. SUFFICES ASSUME InterfacesTypeInv PROVE TypeOK
    OBVIOUS
  <2>1. MaxEdits \in Nat
    BY IetfInterfaceAssumption
  <2>2. Len(edits) \in 0..MaxEdits
    BY <2>1 DEF InterfacesTypeInv, NamedInv, EditsTyped, PosBounded
  <2>3. pos \in (1 .. MaxEdits + 1) \X (1..4)
    <3>1. CASE MoreChanges
      <4>. DEFINE n == Len(ChangesOf(edits[pos[1]]))
                  m == Len(edits)
      <4>1. n \in 1..4
        BY <3>1, ThisChangeNamed, ChangesShape DEF InterfacesTypeInv, NamedInv
      <4>2. pos \in (Nat \ {0}) \X (Nat \ {0}) /\ pos[2] <= n /\ pos[1] <= m
        BY <3>1 DEF InterfacesTypeInv, NamedInv, PosInRange, MoreChanges
      <4>3. pos[1] \in 1 .. MaxEdits + 1 /\ pos[2] \in 1..4
        <5>1. m \in 0..MaxEdits
          BY <2>2
        <5>. HIDE DEF n, m
        <5>2. QED
          BY <2>1, <4>1, <4>2, <5>1
      <4>4. QED
        BY <4>2, <4>3
    <3>2. CASE ~MoreChanges
      BY <2>1, <2>2, <3>2 DEF InterfacesTypeInv, NamedInv, PosInRange, PosBounded
    <3>3. QED
      BY <3>1, <3>2
  <2>4. Named \subseteq Names
    <3>1. \A i \in DOMAIN edits : edits[i] \in AllEdits
      BY DEF InterfacesTypeInv, NamedInv, EditsTyped
    <3>2. \A e \in AllEdits : e.name \in Names
      BY DEF AllEdits
    <3>3. QED
      BY <3>1, <3>2 DEF Named
  <2>5. /\ builder \in [name : Names \cup {""}, type : {"", "ETHERNET"},
                        state : States \cup {"unset"}]
        /\ intf \in [name : Names \cup {""}, state : States]
    BY <2>4 DEF InterfacesTypeInv, NamedInv, LocalsNamed
  <2>6. QED
    BY <2>2, <2>3, <2>5 DEF InterfacesTypeInv, VomTyped, HistoryTyped, Stages, Flags, TypeOK
<1>2. InterfacesTypeInv /\ [Next]_vars => InterfacesTypeInv'
  BY InterfacesTypeStep
<1>3. QED
  BY <1>1, <1>2, InterfacesTypeInit, PTL DEF Spec

-----------------------------------------------------------------------------
(***************************************************************************)
(* What was asked for is in VPP and VOM.  The books are about a device as  *)
(* long as its state is known.                                             *)
(***************************************************************************)
Settled(d) == asked[d] # "unknown" => vpp[d] = asked[d] /\ vom[d] = asked[d]

\* What the commit found is what was asked for.
BeforeAsked ==
  \A d \in Devices :
    asked[d] # "unknown" => before[1][d] = asked[d] /\ before[2][d] = asked[d]

AtRest == pc = "idle" => \A d \in Devices : Settled(d)

\* A callback leaves the devices alone that the commit does not name.
OthersSettled ==
  pc \in {"loop", "finish", "verified"} => \A d \in Devices \ Named : Settled(d)

\* Of a commit of one edit the first n changes have been read at position p.
Seen(p, n) == p[1] > 1 \/ p[2] > n

\* The locals of a commit of one edit, by what has been read.  A builder
\* without a type fails whatever the uninitialised flag create is.
OneEditLocals ==
  pc \in {"loop", "finish"} /\ Len(edits) = 1 =>
    LET e == edits[1]
    IN /\ e.kind = "create" =>
            /\ Seen(pos, 1) => builder.name = e.name /\ "create" \in flags
            /\ Seen(pos, 3) => builder.state = e.val
       /\ e.kind = "enable" =>
            /\ builder.type = ""
            /\ Seen(pos, 1) => /\ intf.name = e.name /\ intf.state = e.val
                               /\ "modify" \in flags
       /\ e.kind \in {"delete", "descr"} => builder.type = "" /\ intf.name = ""

\* What a commit of one edit does to its device.
OneEditDone ==
  Len(edits) = 1 /\ edits[1].name \in Devices =>
    LET e == edits[1]
    IN /\ e.kind \in {"delete", "descr"} /\ pc \in {"loop", "finish", "verified"}
            => Settled(e.name)
       /\ e.kind \in {"create", "enable"} /\ pc = "verified" /\ pos[1] > 1
            => vpp[e.name] = e.val /\ vom[e.name] = e.val

AskedInv ==
  /\ InterfacesTypeInv /\ BeforeAsked /\ AtRest /\ OthersSettled
  /\ OneEditLocals /\ OneEditDone

\* The changes of an edit, by its kind.
LEMMA ChangesByKind ==
  ASSUME NEW e \in AllEdits
  PROVE  /\ e.kind = "create" =>
              /\ Len(ChangesOf(e)) = 3
              /\ \A j \in 1..3 : ChangesOf(e)[j].op = "CREATED"
              /\ ChangesOf(e)[1].node = "name" /\ ChangesOf(e)[1].val = e.name
              /\ ChangesOf(e)[2].node = "type"
              /\ ChangesOf(e)[3].node = "enabled" /\ ChangesOf(e)[3].val = e.val
         /\ e.kind = "create_ipv4" =>
              /\ Len(ChangesOf(e)) = 4
              /\ \A j \in 1..4 : ChangesOf(e)[j].op = "CREATED"
         /\ e.kind = "delete" =>
              /\ Len(ChangesOf(e)) = 2 /\ \A j \in 1..2 : ChangesOf(e)[j].op = "DELETED"
         /\ e.kind \in {"enable", "descr"} =>
              /\ Len(ChangesOf(e)) = 1 /\ ChangesOf(e)[1].op = "MODIFIED"
              /\ ChangesOf(e)[1].if = e.name /\ ChangesOf(e)[1].val = e.val
              /\ ChangesOf(e)[1].node = IF e.kind = "enable" THEN "enabled"
                                                              ELSE "description"
<1>1. CASE e.kind = "create"
  BY <1>1 DEF ChangesOf
<1>2. CASE e.kind = "delete"
  BY <1>2 DEF ChangesOf
<1>3. CASE e.kind = "enable"
  BY <1>3 DEF ChangesOf
<1>4. CASE e.kind = "descr"
  BY <1>4 DEF ChangesOf
<1>5. CASE e.kind = "create_ipv4"
  BY <1>5 DEF ChangesOf
<1>6. QED
  BY <1>1, <1>2, <1>3, <1>4, <1>5

\* The one edit of a commit, and the names of the commit.
LEMMA TheEdit ==
  ASSUME InterfacesTypeInv, Len(edits) = 1
  PROVE  DOMAIN edits = {1} /\ edits[1] \in AllEdits /\ Named = {edits[1].name}
<1>1. edits \in Seq(AllEdits) /\ DOMAIN edits = 1..Len(edits)
  BY DEF InterfacesTypeInv, NamedInv, EditsTyped
<1>2. DOMAIN edits = {1} /\ edits[1] \in AllEdits
  BY <1>1
<1>3. QED
  BY <1>2 DEF Named

\* Where a turn of the loop is in a commit of one edit.
LEMMA TurnOfOne ==
  ASSUME InterfacesTypeInv, NEW op, NextChange(op), Len(edits) = 1
  PROVE  LET n == Len(ChangesOf(edits[1]))
         IN /\ pos[1] = 1 /\ pos[2] \in 1..n /\ n \in 1..4 /\ edits[1] \in AllEdits
            /\ ThisChange = ChangesOf(edits[1])[pos[2]] /\ ThisChange.op = op
            /\ pos' = IF pos[2] < n THEN <<1, pos[2] + 1>> ELSE <<2, 1>>
<1>. DEFINE n == Len(ChangesOf(edits[1]))
<1>1. edits[1] \in AllEdits /\ n \in 1..4
  BY TheEdit, ChangesShape
<1>2. pos \in (Nat \ {0}) \X (Nat \ {0}) /\ pos[1] = 1
  BY DEF InterfacesTypeInv, NamedInv, PosInRange, NextChange, MoreChanges
<1>3. MoreChanges /\ pos[2] <= n
  BY <1>2 DEF InterfacesTypeInv, NamedInv, PosInRange, NextChange
<1>4. pos[2] \in 1..n
  <2>. HIDE DEF n
  <2>1. QED
    BY <1>1, <1>2, <1>3
<1>5. ThisChange = ChangesOf(edits[1])[pos[2]] /\ ThisChange.op = op
  BY <1>2 DEF ThisChange, NextChange
<1>6. pos' = IF pos[2] < n THEN <<1, pos[2] + 1>> ELSE <<2, 1>>
  BY <1>2 DEF NextChange
<1>7. QED
  BY <1>1, <1>2, <1>4, <1>5, <1>6

\* CREATED: the builder gets its name first and its state last.
LEMMA CreatedLocals ==
  ASSUME AskedInv, ChangeCreated
  PROVE  OneEditLocals'
<1>. SUFFICES ASSUME Len(edits) = 1 PROVE OneEditLocals'
  BY DEF ChangeCreated, OneEditLocals
<1>. DEFINE e == edits[1]
            j == pos[2]
            c == ThisChange
<1>1. /\ InterfacesTypeInv /\ NextChange("CREATED") /\ pc = "loop" /\ pc' = pc
      /\ edits' = edits /\ intf' = intf
  BY DEF AskedInv, ChangeCreated, NextChange
<1>2. e \in AllEdits /\ c.op = "CREATED" /\ pos[1] = 1
  BY <1>1, TurnOfOne
<1>3. e.kind \in {"create", "create_ipv4", "ipv4"}
  <2>1. e.kind \in AllKinds
    BY <1>2 DEF AllEdits
  <2>2. e.kind \notin {"delete", "enable", "descr"}
    BY <1>1, <1>2, TurnOfOne, ChangesByKind
  <2>3. QED
    BY <2>1, <2>2 DEF AllKinds
<1>4. CASE e.kind = "create"
  <2>1. /\ j \in 1..3 /\ c = ChangesOf(e)[j]
        /\ pos' = IF j < 3 THEN <<1, j + 1>> ELSE <<2, 1>>
    BY <1>1, <1>4, TurnOfOne, ChangesByKind
  <2>2. /\ j = 1 => c.node = "name" /\ c.val = e.name
        /\ j = 2 => c.node = "type"
        /\ j = 3 => c.node = "enabled" /\ c.val = e.val
    BY <1>2, <1>4, <2>1, ChangesByKind
  <2>3. j # 1 => builder.name = e.name /\ "create" \in flags
    BY <1>1, <1>2, <1>4, <2>1 DEF AskedInv, OneEditLocals, Seen
  <2>4. builder \in [name : Named \cup {""}, type : {"", "ETHERNET"},
                     state : States \cup {"unset"}]
    BY <1>1 DEF InterfacesTypeInv, NamedInv, LocalsNamed
  <2>5. builder'.name = e.name /\ "create" \in flags'
    <3>1. CASE j = 1
      BY <2>2, <2>4, <3>1 DEF ChangeCreated, NodeNameEq
    <3>2. CASE j # 1
      <4>1. c.node \in {"type", "enabled"}
        BY <2>1, <2>2, <3>2
      <4>2. /\ flags' = flags
            /\ \/ builder' = builder
               \/ builder' = [builder EXCEPT !.type = "ETHERNET"]
               \/ builder' = [builder EXCEPT !.state = c.val]
        BY <4>1 DEF ChangeCreated, NodeNameEq
      <4>. HIDE DEF c
      <4>3. builder'.name = builder.name
        BY <2>4, <4>2
      <4>4. QED
        BY <2>3, <3>2, <4>2, <4>3
    <3>3. QED
      BY <3>1, <3>2
  <2>6. j = 3 => builder'.state = e.val
    BY <2>2, <2>4 DEF ChangeCreated, NodeNameEq
  <2>7. Seen(pos', 3) => j = 3
    BY <2>1 DEF Seen
  <2>8. QED
    BY <1>1, <1>4, <2>5, <2>6, <2>7 DEF OneEditLocals
<1>5. CASE e.kind \in {"create_ipv4", "ipv4"}
  BY <1>1, <1>5 DEF OneEditLocals
<1>6. QED
  BY <1>3, <1>4, <1>5

\* DELETED: neither a type nor an interface is found.
LEMMA DeletedLocals ==
  ASSUME AskedInv, ChangeDeleted
  PROVE  OneEditLocals'
<1>. SUFFICES ASSUME Len(edits) = 1 PROVE OneEditLocals'
  BY DEF ChangeDeleted, OneEditLocals
<1>. DEFINE e == edits[1]
            c == ThisChange
<1>1. /\ InterfacesTypeInv /\ NextChange("DELETED") /\ pc = "loop" /\ pc' = pc
      /\ edits' = edits /\ intf' = intf
  BY DEF AskedInv, ChangeDeleted, NextChange
<1>2. e \in AllEdits /\ c.op = "DELETED" /\ pos[1] = 1
  BY <1>1, TurnOfOne
<1>3. e.kind \notin {"create", "enable", "descr"}
  BY <1>1, <1>2, TurnOfOne, ChangesByKind
<1>4. builder \in [name : Named \cup {""}, type : {"", "ETHERNET"},
                   state : States \cup {"unset"}]
  BY <1>1 DEF InterfacesTypeInv, NamedInv, LocalsNamed
<1>5. builder'.type = builder.type
  BY <1>4 DEF ChangeDeleted
<1>6. e.kind = "delete" => builder.type = "" /\ intf.name = ""
  BY <1>1 DEF AskedInv, OneEditLocals
<1>7. QED
  BY <1>1, <1>3, <1>5, <1>6 DEF OneEditLocals

\* MODIFIED: of the leaf enabled the interface is remembered.
LEMMA ModifiedLocals ==
  ASSUME AskedInv, ChangeModified
  PROVE  OneEditLocals'
<1>. SUFFICES ASSUME Len(edits) = 1, pc' = "loop" PROVE OneEditLocals'
  BY DEF ChangeModified, NextChange, OneEditLocals
<1>. DEFINE e == edits[1]
            c == ThisChange
<1>1. /\ InterfacesTypeInv /\ NextChange("MODIFIED") /\ pc = "loop"
      /\ edits' = edits /\ builder' = builder
  BY DEF AskedInv, ChangeModified, NextChange
<1>2. e \in AllEdits /\ c.op = "MODIFIED" /\ pos[1] = 1
  BY <1>1, TurnOfOne
<1>3. e.kind \notin {"create", "delete"}
  BY <1>1, <1>2, TurnOfOne, ChangesByKind
<1>4. CASE e.kind = "enable"
  <2>1. c.node = "enabled" /\ c.if = e.name /\ c.val = e.val
    BY <1>1, <1>2, <1>4, TurnOfOne, ChangesByKind
  <2>2. intf' = [name |-> e.name, state |-> e.val] /\ "modify" \in flags'
    BY <2>1 DEF ChangeModified, NodeNameEq, KeyValue
  <2>3. intf'.name = e.name /\ intf'.state = e.val
    BY <2>2
  <2>4. builder.type = ""
    BY <1>1, <1>4 DEF AskedInv, OneEditLocals
  <2>5. QED
    BY <1>1, <1>4, <2>2, <2>3, <2>4 DEF OneEditLocals
<1>5. CASE e.kind # "enable"
  <2>1. ASSUME e.kind = "descr" PROVE builder'.type = "" /\ intf'.name = ""
    <3>1. c.node = "description"
      BY <1>1, <1>2, <2>1, TurnOfOne, ChangesByKind
    <3>2. intf' = intf
      BY <3>1 DEF ChangeModified, NodeNameEq
    <3>3. QED
      BY <1>1, <2>1, <3>2 DEF AskedInv, OneEditLocals
  <2>2. QED
    BY <1>1, <1>3, <1>5, <2>1 DEF OneEditLocals
<1>6. QED
  BY <1>4, <1>5

\* As long as neither VOM nor VPP changes on the devices, what is settled
\* stays settled.
LEMMA SameDevices ==
  ASSUME AskedInv, UNCHANGED <<edits, pos, asked, before>>,
         \A d \in Devices : vom'[d] = vom[d] /\ vpp'[d] = vpp[d],
         pc \in {"loop", "finish"},
         pc' = "verified" /\ Len(edits) = 1 => edits[1].kind \notin {"create", "enable"},
         pc' # "idle"
  PROVE  BeforeAsked' /\ AtRest' /\ OthersSettled' /\ OneEditDone'
<1>1. BeforeAsked' /\ AtRest'
  BY DEF AskedInv, BeforeAsked, AtRest
<1>2. OthersSettled'
  BY DEF AskedInv, OthersSettled, Settled, Named
<1>3. OneEditDone'
  BY DEF AskedInv, OneEditDone, Settled
<1>4. QED
  BY <1>1, <1>2, <1>3

\* A turn of the loop changes VOM where the commit says so, and nothing else.
LEMMA TurnSettled ==
  ASSUME AskedInv, UNCHANGED <<asked, before>>,
         ChangeModified \/ ChangeCreated \/ ChangeDeleted \/ OcChangeDeleted
  PROVE  BeforeAsked' /\ AtRest' /\ OthersSettled' /\ OneEditDone'
<1>1. /\ pc = "loop" /\ pc' \in {"loop", "rejected", "crashed"}
      /\ edits' = edits /\ vpp' = vpp /\ MoreChanges
  BY DEF ChangeModified, ChangeCreated, ChangeDeleted, OcChangeDeleted, NextChange
<1>2. BeforeAsked' /\ AtRest'
  BY <1>1 DEF AskedInv, BeforeAsked, AtRest
<1>3. Named' = Named
  BY <1>1 DEF Named
<1>4. ASSUME NEW d \in Devices, vom'[d] # vom[d]
      PROVE  /\ d \in Named
             /\ Len(edits) = 1 => edits[1].kind \notin {"delete", "descr"}
  <2>1. ChangeModified
    BY <1>4 DEF ChangeCreated, ChangeDeleted, OcChangeDeleted
  <2>2. /\ NextChange("MODIFIED") /\ NodeNameEq(ThisChange, "enabled")
        /\ vom' = [vom EXCEPT ![ThisChange.if] = ThisChange.val]
    BY <1>4, <2>1 DEF ChangeModified, KeyValue
  <2>3. InterfacesTypeInv /\ vom \in Datastores /\ d \in Names
    BY IetfInterfaceAssumption DEF AskedInv, InterfacesTypeInv, VomTyped
  <2>4. d = ThisChange.if
    BY <1>4, <2>2, <2>3 DEF Datastores
  <2>5. ThisChange.if \in Named
    BY <1>1, <2>3, ThisChangeNamed DEF InterfacesTypeInv, NamedInv
  <2>6. ASSUME Len(edits) = 1 PROVE edits[1].kind \notin {"delete", "descr"}
    <3>1. ThisChange.node \in {"enabled", "ipv4/enabled"}
      BY <2>2 DEF NodeNameEq
    <3>2. QED
      BY <2>2, <2>3, <2>6, <3>1, TurnOfOne, ChangesByKind
  <2>7. QED
    BY <2>4, <2>5, <2>6
<1>5. OthersSettled'
  BY <1>1, <1>3, <1>4 DEF AskedInv, OthersSettled, Settled
<1>6. OneEditDone'
  BY <1>1, <1>4 DEF AskedInv, OneEditDone, Settled
<1>7. QED
  BY <1>2, <1>5, <1>6

\* The loop is over: what was not set is chosen, what was set stays.
LEMMA ReadLocalsAsked ==
  ASSUME AskedInv, UNCHANGED <<asked, before>>, ReadLocals
  PROVE  BeforeAsked' /\ AtRest' /\ OthersSettled' /\ OneEditDone' /\ OneEditLocals'
<1>1. /\ UNCHANGED <<edits, pos, vom, vpp, intf>> /\ pc = "loop" /\ pc' = "finish"
      /\ flags \subseteq flags'
  BY DEF ReadLocals
<1>2. BeforeAsked' /\ AtRest' /\ OthersSettled' /\ OneEditDone'
  BY <1>1, SameDevices
<1>3. OneEditLocals'
  <2>1. builder \in [name : Named \cup {""}, type : {"", "ETHERNET"},
                     state : States \cup {"unset"}]
    BY DEF AskedInv, InterfacesTypeInv, NamedInv, LocalsNamed
  <2>2. PICK s \in States : builder' = IF builder.state = "unset"
                                         THEN [builder EXCEPT !.state = s] ELSE builder
    BY DEF ReadLocals
  <2>3. /\ builder'.name = builder.name /\ builder'.type = builder.type
        /\ builder.state # "unset" => builder'.state = builder.state
    BY <2>1, <2>2
  <2>4. ASSUME Len(edits) = 1 PROVE edits[1].val # "unset"
    <3>1. edits[1] \in AllEdits
      BY <2>4, TheEdit DEF AskedInv
    <3>2. QED
      BY <3>1 DEF AllEdits, States
  <2>5. QED
    BY <1>1, <2>3, <2>4 DEF AskedInv, OneEditLocals
<1>4. QED
  BY <1>2, <1>3

\* After the loop every change of the one edit has been read.
LEMMA AllSeen ==
  ASSUME AskedInv, pc = "finish", Len(edits) = 1
  PROVE  Seen(pos, 1) /\ Seen(pos, 3)
BY DEF AskedInv, InterfacesTypeInv, NamedInv, PosInRange, PastLoop, MoreChanges, Seen

\* What a write of a commit of one edit writes.
LEMMA WriteOfOne ==
  ASSUME AskedInv, Writes, ToWrite.name # "", Len(edits) = 1
  PROVE  LET e == edits[1]
         IN /\ e.kind \notin {"delete", "descr"}
            /\ e.kind \in {"create", "enable"}
                 => ToWrite.name = e.name /\ ToWrite.state = e.val
<1>. DEFINE e == edits[1]
<1>1. pc = "finish" /\ ~BuildFails /\ Seen(pos, 1) /\ Seen(pos, 3)
  <2>1. pc = "finish" /\ ~BuildFails
    BY DEF Writes
  <2>2. QED
    BY <2>1, AllSeen
<1>2. "create" \in flags => builder.type # ""
  BY <1>1, Zenon DEF BuildFails
<1>3. CASE e.kind = "create"
  <2>1. "create" \in flags /\ builder.name = e.name /\ builder.state = e.val
    BY <1>1, <1>3 DEF AskedInv, OneEditLocals
  <2>2. QED
    BY <1>3, <2>1 DEF ToWrite
<1>4. CASE e.kind = "enable"
  <2>1. builder.type = "" /\ intf.name = e.name /\ intf.state = e.val
    BY <1>1, <1>4 DEF AskedInv, OneEditLocals
  <2>2. ToWrite = intf
    BY <1>2, <2>1, Zenon DEF ToWrite
  <2>3. QED
    BY <1>4, <2>1, <2>2
<1>5. CASE e.kind \in {"delete", "descr"}
  <2>1. builder.type = "" /\ intf.name = ""
    BY <1>1, <1>5 DEF AskedInv, OneEditLocals
  <2>2. ToWrite = intf
    BY <1>2, <2>1, Zenon DEF ToWrite
  <2>3. QED
    BY <2>1, <2>2, Zenon
<1>6. QED
  BY <1>3, <1>4, <1>5

\* The end of a call leaves the devices of the commit as it asks.
LEMMA FinishAsked ==
  ASSUME AskedInv, UNCHANGED <<asked, before>>, Finish
  PROVE  BeforeAsked' /\ AtRest' /\ OthersSettled' /\ OneEditDone' /\ OneEditLocals'
<1>1. CASE ReadLocals
  BY <1>1, ReadLocalsAsked
<1>2. ASSUME pc' \in {"verified", "rejected", "crashed"} PROVE OneEditLocals'
  BY <1>2 DEF OneEditLocals
<1>3. CASE FinishInval \/ FinishNullIntf
  <2>1. /\ UNCHANGED <<edits, pos, vom, vpp>> /\ pc = "finish"
        /\ pc' \in {"rejected", "crashed"}
    BY <1>3 DEF FinishInval, BuildFails, FinishNullIntf, Writes, LateError, Returns
  <2>2. QED
    BY <1>2, <2>1, SameDevices
<1>4. CASE FinishRemove \/ FinishNothing
  <2>1. /\ UNCHANGED <<edits, pos, vpp>> /\ pc = "finish" /\ pc' = "verified"
        /\ flags \subseteq {"remove"}
    BY <1>4 DEF FinishRemove, Removes, FinishNothing, Returns
  <2>2. \A d \in Devices : vom'[d] = vom[d]
    <3>1. Devices \subseteq Names
      BY IetfInterfaceAssumption
    <3>2. QED
      BY <1>4, <3>1 DEF FinishRemove, FinishNothing
  <2>3. ASSUME Len(edits) = 1 PROVE edits[1].kind \notin {"create", "enable"}
    <3>1. Seen(pos, 1)
      BY <2>1, <2>3, AllSeen
    <3>2. QED
      BY <2>1, <2>3, <3>1 DEF AskedInv, OneEditLocals
  <2>4. QED
    BY <1>2, <2>1, <2>2, <2>3, SameDevices
<1>5. CASE FinishWrite
  <2>. DEFINE n == ToWrite.name
              st == ToWrite.state
  <2>1. /\ Writes /\ n # "" /\ UNCHANGED <<edits, pos>> /\ pc = "finish"
        /\ vom' = [vom EXCEPT ![n] = st]
        /\ \/ /\ n \in Devices /\ vpp' = [vpp EXCEPT ![n] = st]
              /\ pc' = "verified"
           \/ pc' \in {"rejected", "crashed"} /\ vpp' = vpp
    BY <1>5 DEF FinishWrite, Writes, LateError, Returns
  <2>2. n \in Named
    BY <1>5 DEF FinishWrite, ToWrite, AskedInv, InterfacesTypeInv, NamedInv, LocalsNamed
  <2>3. Devices \subseteq Names /\ vom \in Datastores /\ vpp \in [Devices -> States]
    BY IetfInterfaceAssumption DEF AskedInv, InterfacesTypeInv, VomTyped
  <2>4. ASSUME Len(edits) = 1
        PROVE  /\ edits[1].kind \notin {"delete", "descr"}
               /\ edits[1].kind \in {"create", "enable"}
                    => n = edits[1].name /\ st = edits[1].val
    BY <2>1, <2>4, WriteOfOne
  <2>. HIDE DEF n, st
  <2>5. BeforeAsked' /\ AtRest' /\ OneEditLocals'
    BY <1>2, <2>1 DEF AskedInv, BeforeAsked, AtRest
  <2>6. OthersSettled'
    <3>1. \A d \in Devices \ Named : vom'[d] = vom[d] /\ vpp'[d] = vpp[d]
      BY <2>1, <2>2, <2>3 DEF Datastores
    <3>2. Named' = Named
      BY <2>1 DEF Named
    <3>3. QED
      BY <2>1, <3>1, <3>2 DEF AskedInv, OthersSettled, Settled
  <2>7. OneEditDone'
    <3>1. pc' = "verified" => vom'[n] = st /\ vpp'[n] = st
      BY <2>1, <2>3 DEF Datastores
    <3>2. QED
      BY <2>1, <2>4, <3>1 DEF OneEditDone
  <2>8. QED
    BY <2>5, <2>6, <2>7
<1>6. QED
  BY <1>1, <1>3, <1>4, <1>5 DEF Finish

\* A commit begins with every device settled.
LEMMA CommitAsked ==
  ASSUME AskedInv, IetfCommit \/ OcCommit
  PROVE  BeforeAsked' /\ AtRest' /\ OthersSettled' /\ OneEditDone' /\ OneEditLocals'
<1>1. /\ pc = "idle" /\ pc' # "idle" /\ before' = <<vom, vpp>> /\ pos' = <<1, 1>>
      /\ UNCHANGED <<vom, vpp, asked>> /\ builder' = NoBuilder /\ intf' = NoIntf
  BY DEF IetfCommit, Commit, OcCommit, Enter, FreshLocals
<1>2. \A d \in Devices : Settled(d) /\ Settled(d)'
  BY <1>1 DEF AskedInv, AtRest, Settled
<1>3. BeforeAsked' /\ AtRest'
  BY <1>1, <1>2 DEF BeforeAsked, AtRest, Settled
<1>4. OthersSettled'
  BY <1>2 DEF OthersSettled
<1>5. ~(pos'[1] > 1) /\ ~Seen(pos', 1) /\ ~Seen(pos', 3)
  BY <1>1 DEF Seen
<1>6. OneEditDone'
  BY <1>2, <1>5 DEF OneEditDone
<1>7. builder'.type = "" /\ intf'.name = ""
  BY <1>1 DEF NoBuilder, NoIntf
<1>8. OneEditLocals'
  BY <1>5, <1>7 DEF OneEditLocals
<1>9. QED
  BY <1>3, <1>4, <1>6, <1>8

\* The commit is accepted: each device is as asked, or not promised.
LEMMA ApplyAsked ==
  ASSUME AskedInv, Apply, NEW d \in Devices
  PROVE  Settled(d)'
<1>1. pc = "verified" /\ UNCHANGED <<vom, vpp>> /\ InterfacesTypeInv
  BY DEF Apply, EndCommit, AskedInv
<1>2. d \notin Named => Settled(d)
  BY <1>1 DEF AskedInv, OthersSettled
<1>3. CASE /\ Len(edits) = 1 /\ pos[1] > 1
           /\ edits[1].kind \notin {"ipv4", "create_ipv4"}
  <2>. DEFINE e == edits[1]
              S == {"create", "enable"}
  <2>1. asked' = Edited(asked, S)
    BY <1>3 DEF Apply
  <2>2. DOMAIN edits = {1} /\ e \in AllEdits /\ Named = {e.name}
    BY <1>1, <1>3, TheEdit
  <2>3. e.kind \in {"create", "enable", "delete", "descr"}
    BY <1>3, <2>2 DEF AllEdits, AllKinds
  <2>4. DOMAIN asked = Devices
    BY <1>1 DEF InterfacesTypeInv, HistoryTyped
  <2>5. \/ asked'[d] = asked[d] /\ (e.name = d => e.kind \notin S)
        \/ e.name = d /\ e.kind \in S /\ asked'[d] = e.val
    <3>1. \/ /\ asked'[d] = asked[d]
             /\ \A i \in DOMAIN edits : edits[i].name = d => edits[i].kind \notin S
          \/ \E i \in DOMAIN edits :
               /\ edits[i].name = d /\ edits[i].kind \in S
               /\ asked'[d] = IF edits[i].kind = "delete" THEN "none" ELSE edits[i].val
      BY <2>1, <2>4, EditedAt
    <3>2. QED
      BY <2>2, <3>1
  <2>6. CASE asked'[d] = asked[d] /\ (e.name = d => e.kind \notin S)
    <3>1. e.name = d => Settled(d)
      BY <1>1, <1>3, <2>3, <2>6 DEF AskedInv, OneEditDone
    <3>2. Settled(d)
      BY <1>2, <2>2, <3>1
    <3>3. QED
      BY <1>1, <2>6, <3>2 DEF Settled
  <2>7. CASE e.name = d /\ e.kind \in S /\ asked'[d] = e.val
    BY <1>1, <1>3, <2>7 DEF AskedInv, OneEditDone, Settled
  <2>8. QED
    BY <2>5, <2>6, <2>7
<1>4. CASE ~(/\ Len(edits) = 1 /\ pos[1] > 1
             /\ edits[1].kind \notin {"ipv4", "create_ipv4"})
  <2>1. asked' = Forget(Named)
    BY <1>4 DEF Apply
  <2>2. asked'[d] = IF d \in Named THEN "unknown" ELSE asked[d]
    BY <2>1 DEF Forget
  <2>3. QED
    BY <1>1, <1>2, <2>2 DEF Settled
<1>5. QED
  BY <1>3, <1>4

\* The end of a commit.
LEMMA EndAsked ==
  ASSUME AskedInv, Apply \/ Refuse \/ Restart
  PROVE  BeforeAsked' /\ AtRest' /\ OthersSettled' /\ OneEditDone' /\ OneEditLocals'
<1>1. edits' = <<>> /\ pc' = "idle" /\ before' = <<vom', vpp>> /\ vpp' = vpp
  BY DEF Apply, Refuse, Restart, Failed, EndCommit
<1>2. ASSUME NEW d \in Devices PROVE Settled(d)'
  <2>1. CASE Apply
    BY <2>1, ApplyAsked
  <2>2. CASE Failed
    <3>1. asked'[d] = IF vom'[d] # before[1][d] \/ vpp[d] # before[2][d]
                        THEN "unknown" ELSE asked[d]
      BY <2>2 DEF Failed, Forget
    <3>2. asked[d] # "unknown" => before[1][d] = asked[d] /\ before[2][d] = asked[d]
      BY DEF AskedInv, BeforeAsked
    <3>3. QED
      BY <1>1, <3>1, <3>2 DEF Settled
  <2>3. QED
    BY <2>1, <2>2 DEF Refuse, Restart
<1>3. BeforeAsked' /\ AtRest'
  BY <1>1, <1>2 DEF BeforeAsked, AtRest, Settled
<1>4. OthersSettled' /\ OneEditDone' /\ OneEditLocals'
  BY <1>1 DEF OthersSettled, OneEditDone, OneEditLocals
<1>5. QED
  BY <1>3, <1>4

\* A restart of VPP with the daemon there brings a device to the state VOM
\* has of it, which is the one it was in if it is settled.
LEMMA VppRestartAsked ==
  ASSUME AskedInv, VppRestart
  PROVE  BeforeAsked' /\ AtRest' /\ OthersSettled' /\ OneEditDone' /\ OneEditLocals'
<1>1. UNCHANGED <<edits, pos, builder, flags, intf, vom, pc, before>>
  BY DEF VppRestart, locals
<1>2. OneEditLocals'
  BY <1>1 DEF AskedInv, OneEditLocals
<1>3. CASE pc = "crashed"
  <2>1. \A d \in Devices : asked'[d] = "unknown"
    BY <1>3 DEF VppRestart, Forget
  <2>2. QED
    BY <1>1, <1>2, <1>3, <2>1
       DEF BeforeAsked, AtRest, OthersSettled, OneEditDone, Settled
<1>4. CASE pc # "crashed"
  <2>1. asked' = asked /\ \A d \in Devices : vpp'[d] = vom[d]
    BY <1>4 DEF VppRestart
  <2>2. \A d \in Devices : Settled(d) => Settled(d)'
    BY <1>1, <2>1 DEF Settled
  <2>3. BeforeAsked' /\ AtRest'
    BY <1>1, <2>1, <2>2 DEF AskedInv, BeforeAsked, AtRest
  <2>4. OthersSettled'
    BY <1>1, <2>2 DEF AskedInv, OthersSettled, Named
  <2>5. OneEditDone'
    BY <1>1, <2>1, <2>2 DEF AskedInv, OneEditDone
  <2>6. QED
    BY <1>2, <2>3, <2>4, <2>5
<1>5. QED
  BY <1>3, <1>4

\* Every step keeps the books.
LEMMA AskedStep ==
  ASSUME AskedInv, [Next]_vars
  PROVE  AskedInv'
<1>1. InterfacesTypeInv'
  BY InterfacesTypeStep DEF AskedInv
<1>. DEFINE Books == BeforeAsked /\ AtRest /\ OthersSettled /\ OneEditDone /\ OneEditLocals
<1>2. CASE UNCHANGED vars
  <2>1. UNCHANGED <<edits, pos, builder, flags, intf, vom, vpp, pc, before, asked>>
    BY <1>2 DEF vars, locals, protocolVars
  <2>2. Books'
    <3>1. BeforeAsked' /\ AtRest' /\ OthersSettled' /\ OneEditDone'
      BY <2>1 DEF AskedInv, BeforeAsked, AtRest, OthersSettled, OneEditDone, Settled, Named
    <3>2. OneEditLocals'
      BY <2>1 DEF AskedInv, OneEditLocals
    <3>3. QED
      BY <3>1, <3>2
  <2>3. QED
    BY <1>1, <2>2 DEF AskedInv
<1>3. CASE Abort
  <2>1. /\ UNCHANGED <<edits, pos, vom, vpp, before, asked>> /\ pc' = "aborted"
    BY <1>3 DEF Abort, protocolVars
  <2>2. Books'
    BY <2>1 DEF AskedInv, BeforeAsked, AtRest, OthersSettled, OneEditDone, OneEditLocals
  <2>3. QED
    BY <1>1, <2>2 DEF AskedInv
<1>4. CASE IetfStep \/ OcChangeCreated \/ OcChangeModified \/ OcChangeDeleted \/ OcFinish
  <2>1. UNCHANGED <<asked, before>>
    BY <1>4 DEF IetfStep, OcChangeCreated, OcChangeModified, OcChangeDeleted, OcFinish,
                protocolVars
  <2>2. CASE Finish
    BY <1>1, <2>1, <2>2, FinishAsked DEF AskedInv
  <2>3. CASE ChangeModified \/ ChangeCreated \/ ChangeDeleted
    <3>1. OneEditLocals'
      BY <2>3, ModifiedLocals, CreatedLocals, DeletedLocals
    <3>2. QED
      BY <1>1, <2>1, <2>3, <3>1, TurnSettled DEF AskedInv
  <2>4. CASE OcChangeDeleted
    <3>1. OneEditLocals'
      BY <2>4 DEF OcChangeDeleted, OneEditLocals
    <3>2. QED
      BY <1>1, <2>1, <2>4, <3>1, TurnSettled DEF AskedInv
  <2>5. QED
    BY <1>4, <2>2, <2>3, <2>4 DEF IetfStep, OcChangeCreated, OcChangeModified, OcFinish
<1>5. CASE IetfCommit \/ OcCommit \/ Apply \/ Refuse \/ Restart \/ VppRestart
  <2>1. Books'
    BY <1>5, CommitAsked, EndAsked, VppRestartAsked
  <2>2. QED
    BY <1>1, <2>1 DEF AskedInv
<1>6. QED
  BY <1>2, <1>3, <1>4, <1>5 DEF Next

\* The books are right at first.
LEMMA AskedInit == Init => AskedInv
<1>. SUFFICES ASSUME Init PROVE AskedInv
  OBVIOUS
<1>1. /\ edits = <<>> /\ pc = "idle" /\ vom = Populated(vpp) /\ asked = vpp
      /\ before = <<vom, vpp>>
  BY DEF Init
<1>2. \A d \in Devices : vom[d] = vpp[d]
  <2>1. Devices \subseteq Names
    BY IetfInterfaceAssumption
  <2>2. QED
    BY <1>1, <2>1 DEF Populated
<1>3. BeforeAsked /\ AtRest /\ OthersSettled /\ OneEditDone /\ OneEditLocals
  BY <1>1, <1>2 DEF BeforeAsked, AtRest, OthersSettled, OneEditDone, OneEditLocals, Settled
<1>4. QED
  BY <1>3, InterfacesTypeInit DEF AskedInv

\* AcceptedInVpp: between commits every device is in the state that the last
\* accepted commit of ietf-interfaces or openconfig-interfaces asked for, in
\* VPP and in the VOM database, across restarts of VPP and of the daemon and
\* whatever the uninitialised flags are.
THEOREM AcceptedInVppSound == Spec => []AcceptedInVpp
<1>1. AskedInv => AcceptedInVpp
  BY DEF AskedInv, AtRest, Settled, AcceptedInVpp
<1>2. AskedInv /\ [Next]_vars => AskedInv'
  BY AskedStep
<1>3. QED
  BY <1>1, <1>2, AskedInit, PTL DEF Spec
=============================================================================
