--------------------------- MODULE IetfNatProofs ---------------------------
(***************************************************************************)
(* nat_mapping_table_config_cb() for every set of indices and addresses,   *)
(* any number of edits per commit and any garbage in the uninitialised     *)
(* flags: static_mapping_table stays within VOM and VPP, the callback      *)
(* keeps CommitPromise, and over commits of one edit RUNNING, the table    *)
(* and VPP are the same at rest, but for removals VPP did not take.        *)
(***************************************************************************)
EXTENDS IetfNat, TLAPS

(***************************************************************************)
(* The inductive invariant: TableInVpp, and that the table is a function   *)
(* on the indices, without which an update of it says nothing.             *)
(***************************************************************************)
TableInv == TableInVpp /\ table = [x \in Indices |-> table[x]]

\* OM::remove() of one key together with the erasure of its table entry.
LEMMA RemoveKeyKeeps ==
  ASSUME TableInv, NEW x, RemoveKey(x)
  PROVE  TableInv'
<1>1. table' = [y \in Indices |-> table'[y]]
  BY DEF TableInv, RemoveKey
<1>2. ASSUME NEW y \in Indices, table'[y] # NoPair
      PROVE  <<y, table'[y]>> \in vom' /\ table'[y] \in vpp'
  <2>1. y # x /\ table'[y] = table[y]
    BY <1>2 DEF TableInv, RemoveKey
  <2>2. <<y, table[y]>> \in vom /\ table[y] \in vpp
    BY <1>2, <2>1 DEF TableInv, TableInVpp
  <2>3. <<y, table[y]>> \in vom'
    BY <2>1, <2>2 DEF RemoveKey, DropKey
  <2>4. table[y] \in vpp'
    BY <2>2, <2>3 DEF RemoveKey, DropKey
  <2>5. QED
    BY <2>1, <2>3, <2>4
<1>3. QED
  BY <1>1, <1>2 DEF TableInv, TableInVpp

\* A step that changes neither table nor VPP and drops no key.
LEMMA GrowKeeps ==
  ASSUME TableInv, table' = table, vom \subseteq vom', vpp' = vpp
  PROVE  TableInv'
  BY DEF TableInv, TableInVpp

\* No step makes static_mapping_table name a pair that its key lacks.
LEMMA TableStep ==
  ASSUME TableInv, [Next]_vars
  PROVE  TableInv'
<1>1. CASE UNCHANGED vars
  BY <1>1, GrowKeeps DEF vars, store
<1>2. CASE Commit
  BY <1>2, GrowKeeps DEF Commit, store
<1>3. CASE ChangeCreated \/ ChangeDeleted \/ ChangeModified
  BY <1>3, GrowKeeps DEF ChangeCreated, ChangeDeleted, ChangeModified, store
<1>4. CASE FinishInval \/ FinishNothing \/ Abort
  BY <1>4, GrowKeeps DEF FinishInval, FinishNothing, Abort, store
<1>5. CASE FinishRefused
  BY <1>5, GrowKeeps DEF FinishRefused
<1>6. CASE FinishWrite
  <2>. DEFINE p == Build(builder)
  <2>1. /\ vom' = vom \cup {<<xindex, p>>}
        /\ vpp' = vpp \cup {p}
        /\ table' = [table EXCEPT ![xindex] = p]
    BY <1>6 DEF FinishWrite
  <2>. HIDE DEF p
  <2>2. table' = [y \in Indices |-> table'[y]]
    BY <2>1 DEF TableInv
  <2>3. ASSUME NEW y \in Indices, table'[y] # NoPair
        PROVE  <<y, table'[y]>> \in vom' /\ table'[y] \in vpp'
    <3>1. CASE y = xindex
      BY <2>1, <3>1 DEF TableInv
    <3>2. CASE y # xindex
      <4>1. table'[y] = table[y]
        BY <2>1, <3>2 DEF TableInv
      <4>2. QED
        BY <2>1, <2>3, <4>1 DEF TableInv, TableInVpp
    <3>3. QED
      BY <3>1, <3>2
  <2>4. QED
    BY <2>2, <2>3 DEF TableInv, TableInVpp
<1>7. CASE FinishRemove
  BY <1>7, RemoveKeyKeeps DEF FinishRemove
<1>8. CASE FinishRemoveGarbage
  <2>1. PICK x \in Indices : RemoveKey(x)
    BY <1>8 DEF FinishRemoveGarbage
  <2>2. QED
    BY <2>1, RemoveKeyKeeps
<1>9. CASE Apply \/ Refuse
  BY <1>9, GrowKeeps DEF Apply, Refuse, store
<1>10. CASE Restart
  BY <1>10 DEF Restart, TableInv, TableInVpp
<1>11. QED
  BY <1>1, <1>2, <1>3, <1>4, <1>5, <1>6, <1>7, <1>8, <1>9, <1>10 DEF Next

\* TableInVpp holds in every state: no refusal, abort, crash, sharing of a
\* pair or uninitialised index makes static_mapping_table name a mapping that
\* VPP does not have.
THEOREM TableSound == Spec => []TableInVpp
<1>1. Init => TableInv
  BY DEF Init, TableInv, TableInVpp
<1>2. TableInv /\ [Next]_vars => TableInv'
  BY TableStep
<1>3. TableInv => TableInVpp
  BY DEF TableInv
<1>4. QED
  BY <1>1, <1>2, <1>3, PTL DEF Spec

-----------------------------------------------------------------------------
(***************************************************************************)
(* The refinement: every step of the callback is a step of CommitPromise   *)
(* or leaves its variables alone.                                          *)
(***************************************************************************)
LEMMA PromiseStep ==
  ASSUME [Next]_vars
  PROVE  [Promise!Next]_(Promise!vars)
<1>. USE DEF Promise!Next, Promise!vars, Stage, store
<1>1. CASE UNCHANGED vars
  BY <1>1 DEF vars
<1>2. CASE Commit
  BY <1>2 DEF Commit, Promise!Begin
<1>3. CASE ChangeCreated \/ ChangeDeleted
  BY <1>3 DEF ChangeCreated, ChangeDeleted
<1>4. CASE ChangeModified
  BY <1>4 DEF ChangeModified, NextChange, Promise!Refuse
<1>5. CASE FinishInval \/ FinishRefused
  BY <1>5 DEF FinishInval, FinishRefused, CanWrite, LoopDone, LateError,
              Promise!Refuse
<1>6. CASE FinishWrite \/ FinishRemove \/ FinishRemoveGarbage \/ FinishNothing
  BY <1>6 DEF FinishWrite, FinishRemove, FinishRemoveGarbage, FinishNothing,
              CanWrite, LoopDone, Promise!Accept
<1>7. CASE Abort
  BY <1>7 DEF Abort, Promise!Refuse
<1>8. CASE Apply \/ Refuse \/ Restart
  BY <1>8 DEF Apply, Refuse, Restart, EndCommit, Promise!End
<1>9. QED
  BY <1>1, <1>2, <1>3, <1>4, <1>5, <1>6, <1>7, <1>8 DEF Next

\* KeepsPromise: for any indices, addresses, number of edits and garbage
\* flags, the mappings of VPP change at most once per commit, in the step of
\* nat_mapping_table_config_cb() that accepts it.
THEOREM NatKeepsPromise == Spec => KeepsPromise
<1>1. Init => Promise!Init
  BY DEF Init, Promise!Init, Stage
<1>2. [Next]_vars => [Promise!Next]_(Promise!vars)
  BY PromiseStep
<1>3. QED
  BY <1>1, <1>2, PTL DEF Spec, KeepsPromise, Promise!Spec
-----------------------------------------------------------------------------
(***************************************************************************)
(* Types, and where the iterator is.                                       *)
(***************************************************************************)
AllKinds == {"add", "delete", "leaf", "modify"}
AllEdits == [kind : AllKinds, entry : Entries]

EditsTyped == edits \in Seq(AllEdits) /\ Len(edits) <= MaxEdits

PosInRange ==
  /\ pos \in (Nat \ {0}) \X (Nat \ {0})
  /\ pos[1] <= Len(edits) + 1
  /\ MoreChanges => pos[2] <= Len(ChangesOf(edits[pos[1]]))
  /\ ~MoreChanges => pos[2] = 1

LocalsTyped ==
  /\ builder \in [type : {"", "static", "dynamic"},
                  leaf : [AddressNodes -> Addrs \cup {Zero}]]
  /\ flags \subseteq {"create", "remove"} /\ xindex \in Indices \cup {0}

StoreTyped ==
  /\ table \in [Indices -> Pairs \cup {NoPair}]
  /\ vom \subseteq (Indices \cup {BootKey}) \X Pairs
  /\ vpp \subseteq Pairs /\ lost \subseteq vpp

NatTypeInv ==
  /\ running \subseteq Entries
  /\ EditsTyped /\ PosInRange /\ LocalsTyped /\ StoreTyped
  /\ pc \in {"idle", "loop", "verified", "rejected", "crashed"}
  /\ clean \in BOOLEAN

\* The changes sysrepo reports for an edit.
LEMMA NatChangesShape ==
  ASSUME NEW e \in AllEdits
  PROVE  /\ Len(ChangesOf(e)) = CASE e.kind = "add" -> 4 [] e.kind = "delete" -> 2
                                  [] OTHER -> 1
         /\ \A j \in 1..Len(ChangesOf(e)) :
              LET c == ChangesOf(e)[j]
              IN /\ c.node = "index" => c.val = e.entry.index /\ j = 1
                                        /\ e.kind \in {"add", "delete"}
                 /\ c.node = "type" => c.val \in {"static", "dynamic"}
                 /\ c.node \in AddressNodes => c.val \in Addrs \cup {Zero}
                 /\ c.op = "CREATED" => e.kind \in {"add", "leaf"}
                 /\ c.op = "DELETED" => e.kind = "delete"
                 /\ c.op = "MODIFIED" => e.kind = "modify"
         /\ e.kind \in {"add", "delete"} => ChangesOf(e)[1].node = "index"
         /\ e.kind = "leaf" => ChangesOf(e)[1].node = "lifetime"
         /\ e.kind = "modify" => ChangesOf(e)[1].op = "MODIFIED"
         /\ e.kind = "add" /\ e.entry.shape = "src" =>
              /\ ChangesOf(e)[2].node = "type"
              /\ ChangesOf(e)[3].node = "internal-src"
              /\ ChangesOf(e)[3].val = e.entry.pair[1]
              /\ ChangesOf(e)[4].node = "external-src"
              /\ ChangesOf(e)[4].val = e.entry.pair[2]
<1>. DEFINE f == e.entry
<1>1. /\ e.kind \in AllKinds /\ f.type \in {"static", "dynamic"}
      /\ f.shape \in {"src", "dst", "internal"}
      /\ f.pair[1] \in Addrs /\ f.pair[2] \in Addrs
  BY IetfNatAssumption DEF AllEdits, Entries
<1>2. /\ LeavesOf(f.shape)[1] \in AddressNodes
      /\ LeavesOf(f.shape)[2] \in AddressNodes
      /\ f.shape = "src" => LeavesOf(f.shape) = <<"internal-src", "external-src">>
  BY <1>1 DEF LeavesOf, AddressNodes
<1>. HIDE DEF f
<1>3. CASE e.kind = "add"
  BY <1>1, <1>2, <1>3 DEF ChangesOf, AddressNodes, f
<1>4. CASE e.kind = "delete"
  BY <1>1, <1>4 DEF ChangesOf, AddressNodes, f
<1>5. CASE e.kind = "leaf"
  BY <1>1, <1>5 DEF ChangesOf, AddressNodes
<1>6. CASE e.kind = "modify"
  BY <1>1, <1>2, <1>6 DEF ChangesOf, AddressNodes, f
<1>7. QED
  BY <1>1, <1>3, <1>4, <1>5, <1>6 DEF AllKinds

\* The change the iterator is at.
LEMMA NatThisChange ==
  ASSUME EditsTyped, PosInRange, MoreChanges
  PROVE  /\ edits[pos[1]] \in AllEdits /\ pos[1] \in 1..Len(edits)
         /\ pos[2] \in 1..Len(ChangesOf(edits[pos[1]]))
         /\ Len(ChangesOf(edits[pos[1]])) \in 1..4
         /\ ThisChange.node = "index" => ThisChange.val \in Indices
         /\ ThisChange.node = "type" => ThisChange.val \in {"static", "dynamic"}
         /\ ThisChange.node \in AddressNodes => ThisChange.val \in Addrs \cup {Zero}
<1>. DEFINE e == edits[pos[1]]
<1>1. e \in AllEdits /\ pos[1] \in 1..Len(edits)
  BY DEF EditsTyped, PosInRange, MoreChanges
<1>2. e.entry.index \in Indices
  BY <1>1 DEF AllEdits, Entries
<1>. HIDE DEF e
<1>3. Len(ChangesOf(e)) \in 1..4
  BY <1>1, NatChangesShape
<1>4. pos[2] \in 1..Len(ChangesOf(e))
  BY <1>1, <1>3 DEF PosInRange, e
<1>5. ThisChange = ChangesOf(e)[pos[2]]
  BY DEF ThisChange, e
<1>6. QED
  BY <1>1, <1>2, <1>3, <1>4, <1>5, NatChangesShape DEF e

\* The iterator moves on.
LEMMA NatNextInRange ==
  ASSUME EditsTyped, PosInRange, NEW op, NextChange(op), edits' = edits
  PROVE  EditsTyped' /\ PosInRange'
<1>. DEFINE n == Len(ChangesOf(edits[pos[1]]))
<1>1. n \in 1..4 /\ pos[1] \in 1..Len(edits) /\ pos[2] \in 1..n
  BY NatThisChange DEF NextChange
<1>2. EditsTyped'
  BY DEF EditsTyped
<1>3. CASE pos[2] < n
  <2>1. pos' = <<pos[1], pos[2] + 1>>
    BY <1>3 DEF NextChange
  <2>2. QED
    BY <1>1, <1>2, <1>3, <2>1 DEF PosInRange, MoreChanges
<1>4. CASE ~(pos[2] < n)
  <2>1. pos' = <<pos[1] + 1, 1>>
    BY <1>4 DEF NextChange
  <2>2. ASSUME pos[1] + 1 <= Len(edits)
        PROVE  1 <= Len(ChangesOf(edits[pos[1] + 1]))
    <3>1. edits[pos[1] + 1] \in AllEdits
      BY <2>2 DEF EditsTyped, PosInRange
    <3>2. QED
      BY <3>1, NatChangesShape
  <2>3. QED
    BY <1>1, <1>2, <2>1, <2>2 DEF PosInRange, MoreChanges, EditsTyped
<1>5. QED
  BY <1>3, <1>4

\* NoBuilder has the type of the builder.
LEMMA NatFreshTyped ==
  ASSUME builder' = NoBuilder, flags' \subseteq {"create", "remove"}, xindex' = 0
  PROVE  LocalsTyped'
BY DEF LocalsTyped, NoBuilder

\* A commit begins at the first change of edits of the type.
LEMMA NatCommitTyped ==
  ASSUME NatTypeInv, Commit
  PROVE  NatTypeInv'
<1>1. PICK k \in 1..MaxEdits : \E es \in [1..k -> Edits] : edits' = es
  BY DEF Commit
<1>2. Edits \subseteq AllEdits
  BY DEF Edits, AllEdits, AllKinds, NatTypeInv
<1>3. edits' \in [1..k -> AllEdits] /\ k \in Nat /\ k >= 1
  BY <1>1, <1>2, IetfNatAssumption
<1>4. Len(edits') = k /\ edits' \in Seq(AllEdits) /\ edits'[1] \in AllEdits
  BY <1>3
<1>5. EditsTyped'
  BY <1>1, <1>4, IetfNatAssumption DEF EditsTyped
<1>6. 1 <= Len(ChangesOf(edits'[1]))
  BY <1>4, NatChangesShape
<1>7. PosInRange'
  BY <1>3, <1>4, <1>6 DEF Commit, PosInRange, MoreChanges
<1>8. LocalsTyped'
  BY NatFreshTyped, IetfNatAssumption DEF Commit
<1>9. QED
  BY <1>5, <1>7, <1>8 DEF Commit, NatTypeInv, StoreTyped, store

\* The loop keeps the types.
LEMMA NatLoopTyped ==
  ASSUME NatTypeInv, ChangeCreated \/ ChangeDeleted \/ ChangeModified
  PROVE  NatTypeInv'
<1>1. PICK op : NextChange(op)
  BY DEF ChangeCreated, ChangeDeleted, ChangeModified
<1>2. /\ edits' = edits /\ UNCHANGED <<running, store, clean>>
      /\ pc' \in {"loop", "rejected"}
  BY DEF ChangeCreated, ChangeDeleted, ChangeModified, NextChange
<1>3. EditsTyped' /\ PosInRange'
  BY <1>1, <1>2, NatNextInRange DEF NatTypeInv
<1>4. /\ ThisChange.node = "index" => ThisChange.val \in Indices
      /\ ThisChange.node = "type" => ThisChange.val \in {"static", "dynamic"}
      /\ ThisChange.node \in AddressNodes => ThisChange.val \in Addrs \cup {Zero}
  BY <1>1, NatThisChange DEF NextChange, NatTypeInv
<1>5. xindex' \in Indices \cup {0} /\ flags' \subseteq {"create", "remove"}
  BY <1>4 DEF ChangeCreated, ChangeDeleted, ChangeModified, NatTypeInv, LocalsTyped
<1>6. \/ builder' = builder
      \/ /\ builder' = [builder EXCEPT !.type = ThisChange.val]
         /\ ThisChange.node = "type"
      \/ /\ builder' = [builder EXCEPT !.leaf[ThisChange.node] = ThisChange.val]
         /\ ThisChange.node \in AddressNodes
  BY DEF ChangeCreated, ChangeDeleted, ChangeModified
<1>7. builder' \in [type : {"", "static", "dynamic"},
                    leaf : [AddressNodes -> Addrs \cup {Zero}]]
  <2>. DEFINE n == ThisChange.node
              v == ThisChange.val
              A == Addrs \cup {Zero}
              T == {"", "static", "dynamic"}
  <2>1. builder \in [type : T, leaf : [AddressNodes -> A]]
    BY DEF NatTypeInv, LocalsTyped
  <2>2. \/ builder' = builder
        \/ builder' = [builder EXCEPT !.type = v] /\ v \in T
        \/ /\ builder' = [builder EXCEPT !.leaf[n] = v]
           /\ n \in AddressNodes /\ v \in A
    BY <1>4, <1>6
  <2>. HIDE DEF n, v, A, T
  <2>3. builder' \in [type : T, leaf : [AddressNodes -> A]]
    BY <2>1, <2>2
  <2>4. QED
    BY <2>3 DEF A, T
<1>8. QED
  BY <1>2, <1>3, <1>5, <1>7 DEF NatTypeInv, LocalsTyped, StoreTyped, store

\* OM::remove() keeps the types.
LEMMA RemoveKeyTyped ==
  ASSUME StoreTyped, NEW x, RemoveKey(x)
  PROVE  StoreTyped'
<1>1. PICK taken : vpp' = vpp \ taken /\ lost' \subseteq vpp \ taken
  BY DEF StoreTyped, RemoveKey, DropKey
<1>2. QED
  BY <1>1 DEF StoreTyped, RemoveKey, DropKey

\* The code after the loop keeps the types.
LEMMA NatFinishTyped ==
  ASSUME NatTypeInv,
         \/ FinishInval \/ FinishWrite \/ FinishRefused
         \/ FinishRemove \/ FinishRemoveGarbage \/ FinishNothing
  PROVE  NatTypeInv'
<1>1. UNCHANGED <<running, edits, callVars>> /\ clean' \in BOOLEAN
  BY DEF FinishInval, FinishWrite, FinishRefused, FinishRemove,
         FinishRemoveGarbage, FinishNothing, NatTypeInv
<1>2. pc' \in {"verified", "rejected", "crashed"}
  BY DEF FinishInval, FinishWrite, FinishRefused, FinishRemove,
         FinishRemoveGarbage, FinishNothing, LateError
<1>3. EditsTyped' /\ PosInRange' /\ LocalsTyped'
  BY <1>1 DEF callVars, NatTypeInv, EditsTyped, PosInRange, MoreChanges, LocalsTyped
<1>4. Build(builder) \in Pairs
  BY DEF Build, Pairs, NatTypeInv, LocalsTyped, AddressNodes
<1>5. StoreTyped'
  <2>1. CASE FinishInval \/ FinishNothing
    BY <2>1 DEF FinishInval, FinishNothing, NatTypeInv, StoreTyped, store
  <2>2. CASE FinishWrite
    <3>. DEFINE p == Build(builder)
    <3>1. /\ vom' = vom \cup {<<xindex, p>>} /\ vpp' = vpp \cup {p}
          /\ table' = [table EXCEPT ![xindex] = p] /\ lost' = lost \ {p}
      BY <2>2 DEF FinishWrite
    <3>2. p \in Pairs /\ xindex \in Indices \cup {BootKey} /\ StoreTyped
      BY <1>4 DEF NatTypeInv, LocalsTyped, BootKey
    <3>. HIDE DEF p
    <3>3. table' \in [Indices -> Pairs \cup {NoPair}]
      <4>1. table \in [Indices -> Pairs \cup {NoPair}]
        BY <3>2 DEF StoreTyped
      <4>2. QED
        BY <3>1, <3>2, <4>1
    <3>4. /\ vom' \subseteq (Indices \cup {BootKey}) \X Pairs
          /\ vpp' \subseteq Pairs /\ lost' \subseteq vpp'
      BY <3>1, <3>2 DEF StoreTyped
    <3>5. QED
      BY <3>3, <3>4 DEF StoreTyped
  <2>3. CASE FinishRefused
    <3>. DEFINE p == Build(builder)
    <3>1. /\ vom' = vom \cup {<<xindex, p>>} \/ vom' = vom
          /\ vpp' = vpp /\ table' = table /\ lost' = lost
      BY <2>3 DEF FinishRefused
    <3>2. p \in Pairs /\ xindex \in Indices \cup {BootKey} /\ StoreTyped
      BY <1>4 DEF NatTypeInv, LocalsTyped, BootKey
    <3>. HIDE DEF p
    <3>3. QED
      BY <3>1, <3>2 DEF StoreTyped
  <2>4. CASE FinishRemove \/ FinishRemoveGarbage
    BY <2>4, RemoveKeyTyped DEF FinishRemove, FinishRemoveGarbage, NatTypeInv
  <2>5. QED
    BY <2>1, <2>2, <2>3, <2>4
<1>6. QED
  BY <1>1, <1>2, <1>3, <1>5 DEF NatTypeInv

\* The edits of the type lead to a datastore of the type.
LEMMA CandidateTyped ==
  ASSUME running \subseteq Entries, EditsTyped
  PROVE  Candidate \subseteq Entries
<1>1. \A i \in DOMAIN edits : edits[i] \in AllEdits
  BY DEF EditsTyped
<1>2. \A i \in DOMAIN edits : edits[i].entry \in Entries
  BY <1>1 DEF AllEdits
<1>3. QED
  BY <1>2 DEF Candidate

\* The end of a commit keeps the types.
LEMMA NatEndTyped ==
  ASSUME NatTypeInv, Apply \/ Abort \/ Refuse \/ Restart
  PROVE  NatTypeInv'
<1>1. CASE Abort
  BY <1>1 DEF Abort, callVars, NatTypeInv, EditsTyped, PosInRange, MoreChanges,
              LocalsTyped, StoreTyped, store
<1>2. CASE Apply \/ Refuse \/ Restart
  <2>1. EndCommit
    BY <1>2 DEF Apply, Refuse, Restart
  <2>2. EditsTyped' /\ PosInRange' /\ LocalsTyped'
    BY <2>1, IetfNatAssumption, NatFreshTyped
       DEF EndCommit, EditsTyped, PosInRange, MoreChanges
  <2>3. StoreTyped' /\ clean' \in BOOLEAN
    BY <1>2 DEF Apply, Refuse, Restart, store, NatTypeInv, StoreTyped
  <2>4. running' \subseteq Entries
    BY <1>2, CandidateTyped DEF Apply, Refuse, Restart, NatTypeInv
  <2>5. QED
    BY <2>1, <2>2, <2>3, <2>4 DEF EndCommit, NatTypeInv
<1>3. QED
  BY <1>1, <1>2

\* Every step keeps the types.
LEMMA NatTypeStep == NatTypeInv /\ [Next]_vars => NatTypeInv'
<1>. SUFFICES ASSUME NatTypeInv, [Next]_vars PROVE NatTypeInv'
  OBVIOUS
<1>1. CASE UNCHANGED vars
  BY <1>1 DEF vars, callVars, NatTypeInv, EditsTyped, PosInRange, MoreChanges,
              LocalsTyped, StoreTyped, store
<1>2. QED
  BY <1>1, NatCommitTyped, NatLoopTyped, NatFinishTyped, NatEndTyped DEF Next

\* The types hold at first.
LEMMA NatTypeInit == Init => NatTypeInv
<1>. SUFFICES ASSUME Init PROVE NatTypeInv
  OBVIOUS
<1>1. LocalsTyped /\ StoreTyped
  BY DEF Init, LocalsTyped, NoBuilder, StoreTyped
<1>2. EditsTyped /\ PosInRange
  BY IetfNatAssumption DEF Init, EditsTyped, PosInRange, MoreChanges
<1>3. QED
  BY <1>1, <1>2 DEF Init, NatTypeInv

\* Type correctness: whatever the uninitialised flags and index hold, what
\* nat_mapping_table_config_cb() writes is a pair of addresses under an index.
THEOREM NatTypes == Spec => []TypeOK
<1>1. NatTypeInv => TypeOK
  <2>. SUFFICES ASSUME NatTypeInv PROVE TypeOK
    OBVIOUS
  <2>1. Len(edits) \in 0..MaxEdits
    BY IetfNatAssumption DEF NatTypeInv, EditsTyped
  <2>2. pos \in (1..MaxEdits + 1) \X (1..4)
    <3>1. pos[1] \in 1..MaxEdits + 1
      BY <2>1, IetfNatAssumption DEF NatTypeInv, PosInRange
    <3>2. pos[2] \in 1..4
      <4>1. CASE MoreChanges
        <5>1. /\ pos[2] \in 1..Len(ChangesOf(edits[pos[1]]))
              /\ Len(ChangesOf(edits[pos[1]])) \in 1..4
          BY <4>1, NatThisChange DEF NatTypeInv
        <5>2. ASSUME NEW n \in 1..4, pos[2] \in 1..n PROVE pos[2] \in 1..4
          BY <5>2
        <5>3. QED
          BY <5>1, <5>2
      <4>2. CASE ~MoreChanges
        BY <4>2 DEF NatTypeInv, PosInRange
      <4>3. QED
        BY <4>1, <4>2
    <3>3. QED
      BY <3>1, <3>2 DEF NatTypeInv, PosInRange
  <2>3. QED
    BY <2>1, <2>2 DEF NatTypeInv, LocalsTyped, StoreTyped, TypeOK
<1>2. QED
  BY <1>1, NatTypeInit, NatTypeStep, PTL DEF Spec
-----------------------------------------------------------------------------
(***************************************************************************)
(* The books: what table, VOM and VPP hold for datastore ds when they are  *)
(* exact but for the mappings l whose removal did not reach VPP.           *)
(***************************************************************************)
Mapped(t) == {x \in Indices : t[x] # NoPair}

Exact(ds, t, v, p, l) ==
  /\ \A e, f \in ds : e.index = f.index => e = f
  /\ Mapped(t) = IndicesOf(ds)
  /\ v = {<<x, t[x]>> : x \in Mapped(t)}
  /\ {t[x] : x \in Mapped(t)} \subseteq p
  /\ p \subseteq {t[x] : x \in Mapped(t)} \cup l
  /\ \A e \in ds : e.shape = "src" => t[e.index] = e.pair

\* The edits of a commit are about the datastore it found.
EditsApply ==
  \A i \in DOMAIN edits :
    IF edits[i].kind = "add" THEN edits[i].entry.index \notin IndicesOf(running)
                             ELSE edits[i].entry \in running

\* Of a commit of one edit the first n changes have been read at position p.
Seen(p, n) == p[1] > 1 \/ p[2] > n

\* What the locals hold while the changes of one edit are read.
LocalsTrack ==
  pc = "loop" /\ Len(edits) = 1 =>
    LET k == edits[1].kind
        e == edits[1].entry
    IN /\ k = "add" =>
            /\ Seen(pos, 1) => xindex = e.index /\ "create" \in flags
            /\ Seen(pos, 3) /\ e.shape = "src" =>
                 builder.leaf["internal-src"] = e.pair[1]
            /\ Seen(pos, 4) /\ e.shape = "src" =>
                 builder.leaf["external-src"] = e.pair[2]
       /\ k # "add" => builder.type # "static"
       /\ k = "delete" /\ Seen(pos, 1) => xindex = e.index /\ "remove" \in flags
       /\ k = "leaf" => xindex = 0
       /\ k = "modify" => ~Seen(pos, 1)

\* The stores are exact when a commit begins, untouched until it is decided,
\* and exact for the datastore it leads to when it is accepted.
BooksKept ==
  clean =>
    /\ Exact(running, before[1], before[2], before[3], before[4])
    /\ pc \in {"idle", "loop"} => before = store
    /\ pc = "verified" /\ Len(edits) = 1 => Exact(Candidate, table, vom, vpp, lost)

BooksInv == NatTypeInv /\ EditsApply /\ LocalsTrack /\ BooksKept

\* A pair of addresses is not the mark for an index without one.
LEMMA PairsMark == \A q \in Pairs : q # NoPair
BY DEF Pairs, NoPair

\* A new index with its pair keeps the books exact.
LEMMA ExactAdd ==
  ASSUME NEW ds \in SUBSET Entries, NEW t \in [Indices -> Pairs \cup {NoPair}],
         NEW v, NEW p, NEW l, Exact(ds, t, v, p, l),
         NEW e \in Entries, e.index \notin IndicesOf(ds),
         NEW q \in Pairs, e.shape = "src" => q = e.pair
  PROVE  Exact(ds \cup {e}, [t EXCEPT ![e.index] = q],
               v \cup {<<e.index, q>>}, p \cup {q}, l \ {q})
<1>. DEFINE x == e.index
            t2 == [t EXCEPT ![x] = q]
<1>1. x \in Indices /\ q # NoPair
  BY PairsMark DEF Entries
<1>2. \A y \in Indices : t2[y] = IF y = x THEN q ELSE t[y]
  OBVIOUS
<1>. HIDE DEF x, t2
<1>3. x \notin Mapped(t) /\ Mapped(t) \subseteq Indices
  BY DEF Exact, Mapped, x
<1>4. Mapped(t2) = Mapped(t) \cup {x}
  BY <1>1, <1>2 DEF Mapped
<1>5. IndicesOf(ds \cup {e}) = IndicesOf(ds) \cup {x}
  BY DEF IndicesOf, x
<1>6. \A f, g \in ds \cup {e} : f.index = g.index => f = g
  BY DEF Exact, IndicesOf
<1>7. \A y \in Mapped(t) : t2[y] = t[y]
  BY <1>2, <1>3
<1>8. v \cup {<<x, q>>} = {<<y, t2[y]>> : y \in Mapped(t2)}
  BY <1>1, <1>2, <1>4, <1>7 DEF Exact
<1>9. /\ {t2[y] : y \in Mapped(t2)} \subseteq p \cup {q}
      /\ p \cup {q} \subseteq {t2[y] : y \in Mapped(t2)} \cup (l \ {q})
  BY <1>1, <1>2, <1>4, <1>7 DEF Exact
<1>10. \A f \in ds \cup {e} : f.shape = "src" => t2[f.index] = f.pair
  <2>1. \A f \in ds : f.index \in Indices /\ f.index # x
    BY DEF IndicesOf, Entries, x
  <2>2. QED
    BY <1>1, <1>2, <2>1 DEF Exact, x
<1>11. Exact(ds \cup {e}, t2, v \cup {<<x, q>>}, p \cup {q}, l \ {q})
  BY <1>4, <1>5, <1>6, <1>8, <1>9, <1>10 DEF Exact
<1>12. QED
  BY <1>11 DEF x, t2

\* Taking an index away keeps the books exact, also when another index has
\* the same pair, and whether or not VPP takes the removal.
LEMMA ExactRemove ==
  ASSUME NEW ds \in SUBSET Entries, NEW t \in [Indices -> Pairs \cup {NoPair}],
         NEW v, NEW p, NEW l, Exact(ds, t, v, p, l), NEW e \in ds,
         NEW t2, \A y \in Indices : t2[y] = IF y = e.index THEN NoPair ELSE t[y],
         NEW v2, \A k : k \in v2 <=> k \in v /\ k[1] # e.index,
         NEW gone, \A r : r \in gone <=> /\ r \in p /\ <<e.index, r>> \in v
                                         /\ \A k \in v2 : k[2] # r,
         NEW taken \in SUBSET gone
  PROVE  Exact(ds \ {e}, t2, v2, p \ taken, (l \cup gone) \ taken)
<1>. DEFINE x == e.index
<1>1. x \in Indices
  BY DEF Entries
<1>2. \A y \in Indices : t2[y] = IF y = x THEN NoPair ELSE t[y]
  OBVIOUS
<1>. HIDE DEF x
<1>3. Mapped(t2) = Mapped(t) \ {x}
  BY <1>1, <1>2 DEF Mapped
<1>4. IndicesOf(ds \ {e}) = IndicesOf(ds) \ {x}
  BY DEF Exact, IndicesOf, x
<1>5. \A f, g \in ds \ {e} : f.index = g.index => f = g
  BY DEF Exact
<1>6. \A y \in Mapped(t2) : t2[y] = t[y] /\ y \in Mapped(t) /\ y # x
  BY <1>2, <1>3 DEF Mapped
<1>7. v2 = {<<y, t2[y]>> : y \in Mapped(t2)}
  <2>1. v = {<<y, t[y]>> : y \in Mapped(t)}
    BY DEF Exact
  <2>2. ASSUME NEW k \in v2 PROVE k \in {<<y, t2[y]>> : y \in Mapped(t2)}
    <3>1. PICK y \in Mapped(t) : k = <<y, t[y]>>
      BY <2>1
    <3>2. y # x
      BY <3>1 DEF x
    <3>3. QED
      BY <1>3, <1>6, <3>1, <3>2
  <2>3. ASSUME NEW y \in Mapped(t2) PROVE <<y, t2[y]>> \in v2
    BY <1>6, <2>1 DEF x
  <2>4. QED
    BY <2>2, <2>3
<1>8. {t2[y] : y \in Mapped(t2)} \subseteq p \ taken
  <2>. SUFFICES ASSUME NEW y \in Mapped(t2) PROVE t2[y] \in p \ taken
    OBVIOUS
  <2>1. t2[y] \in p
    BY <1>6 DEF Exact
  <2>2. <<y, t2[y]>> \in v2
    BY <1>7
  <2>3. t2[y] \notin gone
    BY <2>2
  <2>4. QED
    BY <2>1, <2>3
<1>9. p \ taken \subseteq {t2[y] : y \in Mapped(t2)} \cup ((l \cup gone) \ taken)
  <2>. SUFFICES ASSUME NEW r \in p \ taken, r \notin l \cup gone
                PROVE  r \in {t2[y] : y \in Mapped(t2)}
    OBVIOUS
  <2>1. PICK y \in Mapped(t) : r = t[y]
    BY DEF Exact
  <2>2. CASE y # x
    BY <1>3, <1>6, <2>1, <2>2
  <2>3. CASE y = x
    <3>1. <<x, r>> \in v
      BY <2>1, <2>3 DEF Exact
    <3>2. PICK k \in v2 : k[2] = r
      BY <3>1 DEF x
    <3>3. PICK z \in Mapped(t2) : k = <<z, t2[z]>>
      BY <1>7, <3>2
    <3>4. QED
      BY <3>2, <3>3
  <2>4. QED
    BY <2>2, <2>3
<1>10. \A f \in ds \ {e} : f.shape = "src" => t2[f.index] = f.pair
  <2>1. \A f \in ds \ {e} : f.index \in Indices /\ f.index # x
    BY DEF Entries, Exact, x
  <2>2. QED
    BY <1>2, <2>1 DEF Exact
<1>11. Mapped(t) = IndicesOf(ds)
  BY DEF Exact
<1>12. QED
  BY <1>3, <1>4, <1>5, <1>7, <1>8, <1>9, <1>10, <1>11 DEF Exact

\* A commit begins with exact books and fresh locals.
LEMMA BooksCommit ==
  ASSUME BooksInv, Commit
  PROVE  EditsApply' /\ LocalsTrack' /\ BooksKept'
<1>1. EditsApply'
  <2>1. PICK k \in 1..MaxEdits : \E es \in [1..k -> Edits] : edits' = es
    BY DEF Commit
  <2>2. \A i \in DOMAIN edits' : edits'[i] \in Edits
    BY <2>1
  <2>3. running' = running
    BY DEF Commit
  <2>4. \A e \in Edits : IF e.kind = "add" THEN e.entry.index \notin IndicesOf(running)
                                           ELSE e.entry \in running
    BY DEF Edits
  <2>5. QED
    BY <2>2, <2>3, <2>4 DEF EditsApply
<1>2. LocalsTrack'
  <2>1. xindex' = 0 /\ pos' = <<1, 1>>
    BY Zenon DEF Commit
  <2>. builder'.type # "static"
    BY DEF Commit, NoBuilder
  <2>2. \A n \in 1..4 : ~Seen(pos', n)
    BY <2>1 DEF Seen
  <2>3. QED
    BY <2>1, <2>2 DEF LocalsTrack
<1>3. BooksKept'
  <2>1. /\ pc = "idle" /\ pc' # "verified" /\ before' = store
        /\ UNCHANGED <<running, store, clean>>
    BY DEF Commit
  <2>2. clean => before = store /\ Exact(running, before[1], before[2], before[3], before[4])
    BY <2>1 DEF BooksInv, BooksKept
  <2>3. store' = store
    BY <2>1 DEF store
  <2>4. QED
    BY <2>1, <2>2, <2>3 DEF BooksKept
<1>4. QED
  BY <1>1, <1>2, <1>3

\* What is at hand when a change of a commit of one edit is read.
LEMMA OnlyEdit ==
  ASSUME NatTypeInv, Len(edits) = 1, MoreChanges
  PROVE  /\ pos[1] = 1 /\ edits[1] \in AllEdits
         /\ pos[2] \in 1..Len(ChangesOf(edits[1]))
         /\ ThisChange = ChangesOf(edits[1])[pos[2]]
BY NatThisChange DEF NatTypeInv, EditsTyped, PosInRange, MoreChanges, ThisChange

\* The locals follow the changes.
LEMMA TrackCreated ==
  ASSUME BooksInv, ChangeCreated, Len(edits) = 1
  PROVE  LocalsTrack'
<1>. DEFINE d == edits[1]
            e == d.entry
            j == pos[2]
            c == ThisChange
<1>1. /\ pc = "loop" /\ MoreChanges /\ c.op = "CREATED" /\ edits' = edits
      /\ NatTypeInv
  BY DEF ChangeCreated, NextChange, BooksInv
<1>2. pos[1] = 1 /\ d \in AllEdits /\ j \in 1..Len(ChangesOf(d)) /\ c = ChangesOf(d)[j]
  BY <1>1, OnlyEdit
<1>3. d.kind \in {"add", "leaf"}
  BY <1>1, <1>2, NatChangesShape
<1>4. CASE d.kind = "leaf"
  <2>1. Len(ChangesOf(d)) = 1 /\ ChangesOf(d)[1].node = "lifetime"
    BY <1>2, <1>4, NatChangesShape
  <2>2. c.node = "lifetime"
    BY <1>2, <2>1
  <2>3. UNCHANGED <<builder, xindex>>
    BY <2>2 DEF ChangeCreated, AddressNodes
  <2>4. builder.type # "static" /\ xindex = 0
    BY <1>1, <1>4 DEF BooksInv, LocalsTrack
  <2>5. QED
    BY <1>1, <1>4, <2>3, <2>4 DEF LocalsTrack
<1>5. CASE d.kind = "add"
  <2>1. Len(ChangesOf(d)) = 4 /\ j \in 1..4
    BY <1>2, <1>5, NatChangesShape
  <2>2. \A n \in 1..4 : Seen(pos', n) <=> j >= n
    BY <1>2, <2>1 DEF ChangeCreated, NextChange, Seen
  <2>3. \A n \in 1..4 : Seen(pos, n) <=> j > n
    BY <1>2, <2>1 DEF Seen
  <2>4. xindex' = e.index /\ "create" \in flags'
    <3>1. CASE j = 1
      <4>1. c.node = "index" /\ c.val = e.index
        BY <1>2, <1>5, <3>1, NatChangesShape
      <4>2. QED
        BY <4>1 DEF ChangeCreated, AddressNodes
    <3>2. CASE j # 1
      <4>1. c.node # "index"
        BY <1>2, <3>2, NatChangesShape
      <4>2. UNCHANGED <<xindex, flags>>
        BY <4>1 DEF ChangeCreated
      <4>3. Seen(pos, 1)
        BY <2>1, <2>3, <3>2
      <4>4. QED
        BY <1>1, <1>5, <4>2, <4>3 DEF BooksInv, LocalsTrack
    <3>3. QED
      BY <3>1, <3>2
  <2>5. ASSUME e.shape = "src", j >= 3
        PROVE  /\ builder'.leaf["internal-src"] = e.pair[1]
               /\ j >= 4 => builder'.leaf["external-src"] = e.pair[2]
    <3>1. /\ ChangesOf(d)[3].node = "internal-src"
          /\ ChangesOf(d)[3].val = e.pair[1]
          /\ ChangesOf(d)[4].node = "external-src"
          /\ ChangesOf(d)[4].val = e.pair[2]
      BY <1>2, <1>5, <2>5, NatChangesShape
    <3>2. c.node \in AddressNodes
      BY <1>2, <2>1, <2>5, <3>1 DEF AddressNodes
    <3>3. builder' = [builder EXCEPT !.leaf[c.node] = c.val]
      BY <3>2 DEF ChangeCreated, AddressNodes
    <3>4. builder \in [type : {"", "static", "dynamic"},
                       leaf : [AddressNodes -> Addrs \cup {Zero}]]
      BY <1>1 DEF NatTypeInv, LocalsTyped
    <3>5. \A n \in AddressNodes : builder'.leaf[n] =
            IF n = c.node THEN c.val ELSE builder.leaf[n]
      BY <3>2, <3>3, <3>4
    <3>6. {"internal-src", "external-src"} \subseteq AddressNodes
      BY DEF AddressNodes
    <3>7. CASE j = 3
      BY <1>2, <3>1, <3>5, <3>6, <3>7
    <3>8. CASE j = 4
      <4>1. builder.leaf["internal-src"] = e.pair[1]
        BY <1>1, <1>5, <2>3, <2>5, <3>8 DEF BooksInv, LocalsTrack
      <4>2. QED
        BY <1>2, <3>1, <3>5, <3>6, <3>8, <4>1
    <3>9. QED
      BY <2>1, <2>5, <3>7, <3>8
  <2>6. (Seen(pos', 3) <=> j >= 3) /\ (Seen(pos', 4) <=> j >= 4) /\ (j >= 4 => j >= 3)
    BY <2>1, <2>2
  <2>7. edits'[1] = edits[1]
    BY <1>1
  <2>. HIDE DEF j, e, d
  <2>8. QED
    BY <1>5, <2>4, <2>5, <2>6, <2>7, Zenon DEF LocalsTrack, e, d
<1>6. QED
  BY <1>3, <1>4, <1>5

\* DELETED: the index of the one edit is remembered, the builder gets no type.
LEMMA TrackDeleted ==
  ASSUME BooksInv, ChangeDeleted, Len(edits) = 1
  PROVE  LocalsTrack'
<1>. DEFINE d == edits[1]
            j == pos[2]
            c == ThisChange
<1>1. /\ pc = "loop" /\ MoreChanges /\ c.op = "DELETED" /\ edits' = edits
      /\ NatTypeInv /\ builder' = builder
  BY DEF ChangeDeleted, NextChange, BooksInv
<1>2. pos[1] = 1 /\ d \in AllEdits /\ j \in 1..Len(ChangesOf(d)) /\ c = ChangesOf(d)[j]
  BY <1>1, OnlyEdit
<1>3. d.kind = "delete"
  BY <1>1, <1>2, NatChangesShape
<1>4. builder.type # "static"
  BY <1>1, <1>3 DEF BooksInv, LocalsTrack
<1>5. xindex' = d.entry.index /\ "remove" \in flags'
  <2>1. CASE j = 1
    BY <1>2, <1>3, <2>1, NatChangesShape DEF ChangeDeleted
  <2>2. CASE j # 1
    <3>1. c.node # "index"
      BY <1>2, <2>2, NatChangesShape
    <3>2. UNCHANGED <<xindex, flags>>
      BY <3>1 DEF ChangeDeleted
    <3>3. Len(ChangesOf(d)) = 2
      BY <1>2, <1>3, NatChangesShape
    <3>4. Seen(pos, 1)
      BY <1>2, <2>2, <3>3 DEF Seen
    <3>5. QED
      BY <1>1, <1>3, <3>2, <3>4 DEF BooksInv, LocalsTrack
  <2>3. QED
    BY <2>1, <2>2
<1>6. QED
  BY <1>1, <1>3, <1>4, <1>5 DEF LocalsTrack

\* The loop leaves the books alone.
LEMMA BooksLoop ==
  ASSUME BooksInv, ChangeCreated \/ ChangeDeleted \/ ChangeModified
  PROVE  EditsApply' /\ LocalsTrack' /\ BooksKept'
<1>1. /\ UNCHANGED <<running, edits, store, before, clean>>
      /\ pc = "loop" /\ pc' \in {"loop", "rejected"}
  BY DEF ChangeCreated, ChangeDeleted, ChangeModified, NextChange
<1>2. EditsApply'
  BY <1>1 DEF BooksInv, EditsApply
<1>3. BooksKept'
  BY <1>1 DEF BooksInv, BooksKept, store
<1>4. LocalsTrack'
  <2>1. CASE Len(edits) # 1 \/ ChangeModified
    BY <1>1, <2>1 DEF LocalsTrack, ChangeModified
  <2>2. QED
    BY <2>1, TrackCreated, TrackDeleted
<1>5. QED
  BY <1>2, <1>3, <1>4

\* The datastore that a commit of one edit leads to.
LEMMA CandidateOfOne ==
  ASSUME edits \in Seq(AllEdits), Len(edits) = 1
  PROVE  Candidate = CASE edits[1].kind = "add" -> running \cup {edits[1].entry}
                       [] edits[1].kind = "delete" -> running \ {edits[1].entry}
                       [] OTHER -> running
<1>1. DOMAIN edits = {1}
  OBVIOUS
<1>2. QED
  BY <1>1 DEF Candidate

\* The step that accepts a commit leaves exact books.
LEMMA BooksFinish ==
  ASSUME BooksInv,
         \/ FinishInval \/ FinishWrite \/ FinishRefused
         \/ FinishRemove \/ FinishRemoveGarbage \/ FinishNothing
  PROVE  EditsApply' /\ LocalsTrack' /\ BooksKept'
<1>1. /\ UNCHANGED <<running, edits, callVars, before>>
      /\ pc = "loop" /\ ~MoreChanges
      /\ pc' \in {"verified", "rejected", "crashed"}
      /\ clean' => clean
  BY DEF FinishInval, FinishWrite, FinishRefused, FinishRemove, CanWrite,
         FinishRemoveGarbage, FinishNothing, LoopDone, LateError
<1>2. EditsApply' /\ LocalsTrack'
  BY <1>1 DEF BooksInv, EditsApply, LocalsTrack
<1>3. CASE ~clean' \/ pc' # "verified" \/ Len(edits) # 1
  <2>1. clean' => Exact(running', before'[1], before'[2], before'[3], before'[4])
    BY <1>1, Zenon DEF BooksInv, BooksKept
  <2>2. pc' \notin {"idle", "loop"} /\ Len(edits') = Len(edits)
    BY <1>1
  <2>3. QED
    BY <1>2, <1>3, <2>1, <2>2, Zenon DEF BooksKept
<1>4. CASE clean' /\ pc' = "verified" /\ Len(edits) = 1
  <2>. DEFINE k == edits[1].kind
              e == edits[1].entry
  <2>1. /\ Exact(running, table, vom, vpp, lost)
        /\ Exact(running, before[1], before[2], before[3], before[4])
    BY <1>1, <1>4 DEF BooksInv, BooksKept, store
  <2>2. /\ edits \in Seq(AllEdits) /\ edits[1] \in AllEdits
        /\ k \in AllKinds /\ e \in Entries
    <3>1. edits \in Seq(AllEdits)
      BY DEF BooksInv, NatTypeInv, EditsTyped
    <3>2. edits[1] \in AllEdits
      BY <1>4, <3>1
    <3>3. QED
      BY <3>1, <3>2 DEF AllEdits
  <2>3. \A n \in 1..4 : Seen(pos, n)
    BY <1>1, <1>4 DEF BooksInv, NatTypeInv, PosInRange, MoreChanges, Seen
  <2>4. /\ k = "add" => xindex = e.index /\ "create" \in flags
        /\ k = "add" /\ e.shape = "src" =>
             /\ builder.leaf["internal-src"] = e.pair[1]
             /\ builder.leaf["external-src"] = e.pair[2]
        /\ k # "add" => builder.type # "static"
        /\ k = "delete" => xindex = e.index /\ "remove" \in flags
        /\ k = "leaf" => xindex = 0
        /\ k # "modify"
    BY <1>1, <1>4, <2>3 DEF BooksInv, LocalsTrack
  <2>5. IF k = "add" THEN e.index \notin IndicesOf(running) ELSE e \in running
    BY <1>4 DEF BooksInv, EditsApply
  <2>6. /\ Candidate' = Candidate /\ running \in SUBSET Entries
        /\ table \in [Indices -> Pairs \cup {NoPair}]
    BY <1>1 DEF Candidate, BooksInv, NatTypeInv, StoreTyped
  <2>. HIDE DEF k, e
  <2>7. Exact(Candidate, table', vom', vpp', lost')
    <3>1. CASE FinishWrite
      <4>1. k = "add"
        BY <2>4, <3>1 DEF FinishWrite, CanWrite
      <4>. DEFINE q == Build(builder)
      <4>2. q \in Pairs
        BY DEF Build, Pairs, BooksInv, NatTypeInv, LocalsTyped, AddressNodes
      <4>3. e.shape = "src" => q = e.pair
        <5>1. e.pair = <<e.pair[1], e.pair[2]>>
          BY <2>2, IetfNatAssumption DEF Entries
        <5>2. QED
          BY <2>4, <4>1, <5>1 DEF Build
      <4>4. /\ vom' = vom \cup {<<e.index, q>>} /\ vpp' = vpp \cup {q}
            /\ table' = [table EXCEPT ![e.index] = q] /\ lost' = lost \ {q}
        BY <2>4, <3>1, <4>1 DEF FinishWrite
      <4>. HIDE DEF q
      <4>5. Candidate = running \cup {e}
        BY <1>4, <2>2, <4>1, CandidateOfOne DEF k, e
      <4>6. QED
        BY <2>1, <2>2, <2>5, <2>6, <4>1, <4>2, <4>3, <4>4, <4>5, ExactAdd
    <3>2. CASE FinishRemove
      <4>1. k = "delete"
        BY <2>2, <2>4, <3>2 DEF FinishRemove, AllKinds
      <4>2. RemoveKey(e.index)
        BY <2>4, <3>2, <4>1 DEF FinishRemove
      <4>3. Candidate = running \ {e}
        BY <1>4, <2>2, <4>1, CandidateOfOne DEF k, e
      <4>4. QED
        <5>. DEFINE gone == {p \in vpp : /\ <<e.index, p>> \in vom
                                        /\ \A j \in vom' : j[2] # p}
        <5>1. /\ vom' = {j \in vom : j[1] # e.index}
              /\ table' = [table EXCEPT ![e.index] = NoPair]
          BY <4>2 DEF RemoveKey, DropKey
        <5>2. PICK taken \in SUBSET gone :
                vpp' = vpp \ taken /\ lost' = (lost \cup gone) \ taken
          BY <4>2 DEF RemoveKey, DropKey
        <5>3. e \in running
          BY <2>5, <4>1
        <5>4. \A y \in Indices :
                table'[y] = IF y = e.index THEN NoPair ELSE table[y]
          BY <2>6, <5>1
        <5>5. \A j : j \in vom' <=> j \in vom /\ j[1] # e.index
          BY <5>1
        <5>6. \A p : p \in gone <=> /\ p \in vpp /\ <<e.index, p>> \in vom
                                    /\ \A j \in vom' : j[2] # p
          OBVIOUS
        <5>. HIDE DEF gone
        <5>7. Exact(running \ {e}, table', vom', vpp \ taken,
                    (lost \cup gone) \ taken)
          <6>1. Exact(running, table, vom, vpp, lost)
            BY <2>1
          <6>2. /\ running \in SUBSET Entries
                /\ table \in [Indices -> Pairs \cup {NoPair}]
            BY <2>6
          <6>3. QED
            BY <5>3, <5>4, <5>5, <5>6, <6>1, <6>2, ExactRemove, Zenon
        <5>8. QED
          BY <4>3, <5>2, <5>7
    <3>3. CASE FinishNothing
      <4>1. k = "leaf"
        BY <2>2, <2>4, <3>3 DEF FinishNothing, AllKinds
      <4>2. Candidate = running
        BY <1>4, <2>2, <4>1, CandidateOfOne DEF k
      <4>3. QED
        BY <2>1, <3>3, <4>2 DEF FinishNothing, store
    <3>4. CASE FinishInval \/ FinishRefused
      BY <1>4, <3>4 DEF FinishInval, FinishRefused, LateError
    <3>5. CASE FinishRemoveGarbage
      BY <1>4, <3>5 DEF FinishRemoveGarbage
    <3>6. QED
      BY <3>1, <3>2, <3>3, <3>4, <3>5
  <2>8. QED
    BY <1>1, <1>2, <1>4, <2>1, <2>6, <2>7 DEF BooksKept
<1>5. QED
  BY <1>2, <1>3, <1>4

\* The end of a commit: a commit that was accepted or left no trace.
LEMMA BooksEnd ==
  ASSUME BooksInv, Apply \/ Abort \/ Refuse \/ Restart
  PROVE  EditsApply' /\ LocalsTrack' /\ BooksKept'
<1>1. CASE Abort
  BY <1>1 DEF Abort, BooksInv, EditsApply, LocalsTrack, BooksKept, store
<1>2. CASE Apply \/ Refuse \/ Restart
  <2>1. pc' = "idle" /\ edits' = <<>> /\ before' = store'
    BY <1>2 DEF Apply, Refuse, Restart, EndCommit
  <2>2. EditsApply' /\ LocalsTrack'
    BY <2>1 DEF EditsApply, LocalsTrack
  <2>3. clean' => Exact(running', table', vom', vpp', lost')
    <3>1. CASE Apply
      BY <3>1 DEF Apply, store, BooksInv, BooksKept
    <3>2. CASE Refuse
      <4>1. clean' => clean /\ store = before
        BY <3>2 DEF Refuse
      <4>2. clean => Exact(running, before[1], before[2], before[3], before[4])
        BY DEF BooksInv, BooksKept
      <4>3. UNCHANGED <<running, table, vom, vpp, lost>>
        BY <3>2 DEF Refuse, store
      <4>4. /\ store[1] = table /\ store[2] = vom /\ store[3] = vpp
            /\ store[4] = lost
        BY DEF store
      <4>5. QED
        BY <4>1, <4>2, <4>3, <4>4
    <3>3. CASE Restart
      BY <3>3 DEF Restart
    <3>4. QED
      BY <1>2, <3>1, <3>2, <3>3
  <2>4. BooksKept'
    BY <2>1, <2>3 DEF BooksKept, store
  <2>5. QED
    BY <2>2, <2>4
<1>3. QED
  BY <1>1, <1>2

\* The books stay exact through every behaviour.
LEMMA BooksInvariance == Spec => []BooksInv
<1>1. Init => BooksInv
  <2>. SUFFICES ASSUME Init PROVE BooksInv
    OBVIOUS
  <2>1. EditsApply /\ LocalsTrack
    BY DEF Init, EditsApply, LocalsTrack
  <2>2. Exact(running, table, vom, vpp, lost)
    BY DEF Init, Exact, Mapped, IndicesOf
  <2>3. BooksKept
    BY <2>2 DEF Init, BooksKept, store
  <2>4. QED
    BY <2>1, <2>3, NatTypeInit DEF BooksInv
<1>2. BooksInv /\ [Next]_vars => BooksInv'
  <2>. SUFFICES ASSUME BooksInv, [Next]_vars PROVE EditsApply' /\ LocalsTrack' /\ BooksKept'
    BY NatTypeStep DEF BooksInv
  <2>1. CASE UNCHANGED vars
    <3>1. /\ UNCHANGED <<running, edits, callVars, store, pc, before, clean>>
          /\ Candidate' = Candidate
      BY <2>1 DEF vars, Candidate
    <3>2. EditsApply' /\ LocalsTrack'
      BY <3>1 DEF callVars, BooksInv, EditsApply, LocalsTrack
    <3>3. BooksKept'
      BY <3>1 DEF BooksInv, BooksKept, store
    <3>4. QED
      BY <3>2, <3>3
  <2>2. QED
    BY <2>1, BooksCommit, BooksLoop, BooksFinish, BooksEnd DEF Next
<1>3. QED
  BY <1>1, <1>2, PTL DEF Spec

\* RunningMapped: while every commit had one edit and every failed one left
\* no trace, each source mapping of RUNNING is in VPP and in
\* static_mapping_table under its index.
THEOREM RunningMappedSound == Spec => []RunningMapped
<1>1. BooksInv => RunningMapped
  <2>. SUFFICES ASSUME BooksInv, pc = "idle", clean, NEW e \in running,
                       e.shape = "src"
                PROVE  e.pair \in vpp /\ table[e.index] = e.pair
    BY DEF RunningMapped
  <2>1. Exact(running, table, vom, vpp, lost)
    BY DEF BooksInv, BooksKept, store
  <2>2. e.index \in Mapped(table)
    BY <2>1 DEF Exact, IndicesOf
  <2>3. QED
    BY <2>1, <2>2 DEF Exact
<1>2. QED
  BY <1>1, BooksInvariance, PTL

\* TableExact: in the same behaviours static_mapping_table has exactly the
\* indices of RUNNING, and VPP the mappings of the table and no others but
\* those whose removal did not reach it.
THEOREM TableExactSound == Spec => []TableExact
<1>1. BooksInv => TableExact
  <2>. SUFFICES ASSUME BooksInv, pc = "idle", clean
                PROVE  TableExact
    BY DEF TableExact
  <2>1. Exact(running, table, vom, vpp, lost)
    BY DEF BooksInv, BooksKept, store
  <2>2. QED
    BY <2>1 DEF Exact, Mapped, TableExact
<1>2. QED
  BY <1>1, BooksInvariance, PTL
=============================================================================
