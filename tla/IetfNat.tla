------------------------------ MODULE IetfNat ------------------------------
(***************************************************************************)
(* nat_mapping_table_config_cb() and nat_static_builder of                 *)
(* src/plugins/ietf/ietf_nat.cpp: static NAT mappings.                     *)
(*                                                                         *)
(* The callback collects all changes of a commit in one builder and one    *)
(* index, writes or removes one mapping, and keeps static_mapping_table in *)
(* step with the VOM database.  A mapping is a pair of addresses; in VOM   *)
(* it is held by the keys of the indices that were given it, and VPP has   *)
(* it as long as a key holds it, or longer if its removal did not reach    *)
(* VPP: `lost` records those.                                              *)
(***************************************************************************)
EXTENDS Naturals, Sequences

CONSTANTS
  Indices,       \* indices of mapping entries
  Addrs,         \* addresses
  Given,         \* the pairs of addresses clients use
  Shapes,        \* which address leaves clients give, see LeavesOf
  MaxEdits,      \* bound on the edits of one commit
  GarbageFlags   \* flags among create and remove, neither of which the code
                 \* initialises, that may start out true

Zero == "0.0.0.0"   \* the address of a default utils::prefix

ASSUME IetfNatAssumption ==
  /\ Indices \subseteq Nat \ {0} /\ MaxEdits \in Nat /\ Zero \notin Addrs
  /\ Given \subseteq Addrs \X Addrs
  /\ Shapes \subseteq {"src", "dst", "internal"}
  /\ GarbageFlags \subseteq {"create", "remove"}

VARIABLES
  running,   \* RUNNING datastore: set of mapping entries
  edits,     \* the commit in progress
  pos,       \* <<i, j>>: the iterator is at the j-th change of the i-th edit
  builder,   \* local variable: the leaves nat_static_builder has been given
  flags,     \* local variables create and remove: the ones that are true
  xindex,    \* local variable, 0 while it is uninitialised
  table,     \* static_mapping_table: pair of an index, or NoPair
  vom,       \* VOM database: set of <<key, pair>>, the key an index or BootKey
  vpp,       \* mappings of VPP
  lost,      \* history: mappings VPP has as a removal did not reach it
  pc,        \* where the commit stands
  before,    \* history: the store when the commit began
  clean      \* history: no commit has spoilt the books, see EndCommit

callVars == <<pos, builder, flags, xindex>>
store == <<table, vom, vpp, lost>>
vars == <<running, edits, callVars, store, pc, before, clean>>

Pairs == (Addrs \cup {Zero}) \X (Addrs \cup {Zero})
NoPair == <<>>
BootKey == 0        \* the key of OM::populate("boot")
AddressNodes == {"internal-src", "external-src", "internal-dst",
                 "external-dst"}

NoBuilder == [type |-> "", leaf |-> [n \in AddressNodes |-> Zero]]

Init ==
  /\ running = {} /\ edits = <<>> /\ pos = <<1, 1>>
  /\ builder = NoBuilder /\ flags = {} /\ xindex = 0
  /\ table = [x \in Indices |-> NoPair]
  /\ vom = {} /\ vpp = {} /\ lost = {}
  /\ pc = "idle"
  /\ before = store
  /\ clean = TRUE

-----------------------------------------------------------------------------
(***************************************************************************)
(* Entries, the edits clients make of them, and the changes sysrepo        *)
(* reports: "leaf" adds a leaf the callback has no use for to an entry,    *)
(* "modify" changes one that is there.                                     *)
(***************************************************************************)
Entries == [index : Indices, type : {"static", "dynamic"}, shape : Shapes,
            pair : Given]

LeavesOf(shape) ==
  CASE shape = "src" -> <<"internal-src", "external-src">>
    [] shape = "dst" -> <<"internal-dst", "external-dst">>
    [] shape = "internal" -> <<"internal-src", "internal-dst">>

IndicesOf(ds) == {e.index : e \in ds}

Edits ==
  [kind : {"add"}, entry : {e \in Entries : e.index \notin IndicesOf(running)}]
    \cup [kind : {"delete", "leaf", "modify"}, entry : running]

ChangesOf(e) ==
  LET Change(op, node, val) == [op |-> op, node |-> node, val |-> val]
      leaves == LeavesOf(e.entry.shape)
  IN CASE e.kind = "add" -> << Change("CREATED", "index", e.entry.index),
                               Change("CREATED", "type", e.entry.type),
                               Change("CREATED", leaves[1], e.entry.pair[1]),
                               Change("CREATED", leaves[2], e.entry.pair[2]) >>
       [] e.kind = "delete" -> << Change("DELETED", "index", e.entry.index),
                                  Change("DELETED", "type", e.entry.type) >>
       [] e.kind = "leaf" -> << Change("CREATED", "lifetime", 0) >>
       [] e.kind = "modify" -> << Change("MODIFIED", leaves[1], Zero) >>

\* RUNNING once the commit is applied; a modification is never accepted.
Candidate ==
  {e \in running : \A i \in DOMAIN edits :
                    edits[i].kind = "delete" => edits[i].entry # e}
    \cup {edits[i].entry : i \in {j \in DOMAIN edits : edits[j].kind = "add"}}

-----------------------------------------------------------------------------
(***************************************************************************)
(* A commit: SR_EV_VERIFY with fresh locals.  Without an iterator the      *)
(* error path frees the uninitialised one.                                 *)
(***************************************************************************)
Commit ==
  /\ pc = "idle"
  /\ \E k \in 1..MaxEdits :
       \E es \in [1..k -> Edits] :
         /\ \A i, j \in 1..k : es[i].entry.index = es[j].entry.index => i = j
         /\ edits' = es
  /\ pos' = <<1, 1>>
  /\ flags' \in SUBSET GarbageFlags
  /\ builder' = NoBuilder /\ xindex' = 0
  /\ before' = store
  /\ pc' \in {"loop", "rejected", "crashed"}
  /\ UNCHANGED <<running, store, clean>>

MoreChanges == pos[1] <= Len(edits)

ThisChange == ChangesOf(edits[pos[1]])[pos[2]]

NextChange(op) ==
  /\ pc = "loop" /\ MoreChanges /\ ThisChange.op = op
  /\ pos' = IF pos[2] < Len(ChangesOf(edits[pos[1]]))
              THEN <<pos[1], pos[2] + 1>> ELSE <<pos[1] + 1, 1>>

ChangeCreated ==
  /\ NextChange("CREATED")
  /\ LET c == ThisChange
     IN \/ /\ c.node = "index"
           /\ xindex' = c.val
           /\ flags' = flags \cup {"create"}
           /\ UNCHANGED builder
        \/ /\ c.node = "type"
           /\ builder' = [builder EXCEPT !.type = c.val]
           /\ UNCHANGED <<xindex, flags>>
        \/ /\ c.node \in AddressNodes
           /\ builder' = [builder EXCEPT !.leaf[c.node] = c.val]
           /\ UNCHANGED <<xindex, flags>>
        \/ /\ c.node \notin AddressNodes \cup {"index", "type"}
           /\ UNCHANGED <<builder, xindex, flags>>
  /\ UNCHANGED <<running, edits, store, pc, before, clean>>

\* mutant: the mapping goes while the changes are still being read
ChangeDeletedEager ==
  /\ NextChange("DELETED")
  /\ IF ThisChange.node = "index"
       THEN /\ xindex' = ThisChange.val
            /\ flags' = flags \cup {"remove"}
            /\ vom' = {k \in vom : k[1] # xindex'}
            /\ vpp' = {p \in vpp : \E k \in vom' : k[2] = p}
            /\ table' = [table EXCEPT ![xindex'] = NoPair]
            /\ UNCHANGED lost
       ELSE UNCHANGED <<xindex, flags, store>>
  /\ UNCHANGED <<running, edits, builder, pc, before, clean>>

ChangeDeleted ==
  /\ NextChange("DELETED")
  /\ IF ThisChange.node = "index"
       THEN /\ xindex' = ThisChange.val
            /\ flags' = flags \cup {"remove"}
       ELSE UNCHANGED <<xindex, flags>>
  /\ UNCHANGED <<running, edits, builder, store, pc, before, clean>>

\* default: SR_ERR_UNSUPPORTED
ChangeModified ==
  /\ NextChange("MODIFIED")
  /\ pc' = "rejected"
  /\ UNCHANGED <<running, edits, builder, flags, xindex, store,
                 before, clean>>

-----------------------------------------------------------------------------
(***************************************************************************)
(* After the loop, where the iterator has been freed: an error from here   *)
(* on frees it again, and the daemon may or may not survive that.          *)
(***************************************************************************)
LoopDone == pc = "loop" /\ ~MoreChanges

LateError == pc' \in {"rejected", "crashed"}

(***************************************************************************)
(* nat_static_builder::build(): prefix::empty() is false even for a        *)
(* default prefix, whose to_string() is "0.0.0.0/<n>", so the source pair  *)
(* is always taken.                                                        *)
(***************************************************************************)
Build(b) == <<b.leaf["internal-src"], b.leaf["external-src"]>>

FinishInval ==
  /\ LoopDone /\ "create" \in flags /\ builder.type # "static"
  /\ LateError
  /\ UNCHANGED <<running, edits, callVars, store, before, clean>>

CanWrite == LoopDone /\ "create" \in flags /\ builder.type = "static"

\* mutant: the key is off by one
FinishWriteOffByOne ==
  /\ CanWrite
  /\ LET p == Build(builder)
     IN /\ vom' = vom \cup {<<xindex + 1, p>>}
        /\ vpp' = vpp \cup {p}
        /\ lost' = lost \ {p}
        /\ table' = [table EXCEPT ![xindex] = p]
  /\ pc' = "verified"
  /\ UNCHANGED <<running, edits, callVars, before, clean>>

\* OM::write() succeeds, and the pair is put into static_mapping_table.
FinishWrite ==
  /\ CanWrite
  /\ LET p == Build(builder)
     IN /\ vom' = vom \cup {<<xindex, p>>}
        /\ vpp' = vpp \cup {p}
        /\ lost' = lost \ {p}
        /\ table' = [table EXCEPT ![xindex] = p]
  /\ pc' = "verified"
  /\ UNCHANGED <<running, edits, callVars, before, clean>>

\* mutant: the table is updated before the result is looked at
FinishRefusedTable ==
  /\ CanWrite
  /\ table' = [table EXCEPT ![xindex] = Build(builder)]
  /\ LateError
  /\ UNCHANGED <<running, edits, callVars, vom, vpp, lost, before, clean>>

\* mutant: the result is not looked at
FinishRefusedOk ==
  /\ CanWrite
  /\ pc' = "verified"
  /\ UNCHANGED <<running, edits, callVars, store, before, clean>>

\* VPP refuses; VOM may keep the object under the key.
FinishRefused ==
  /\ CanWrite
  /\ \/ vom' = vom \cup {<<xindex, Build(builder)>>}
     \/ UNCHANGED vom
  /\ LateError
  /\ UNCHANGED <<running, edits, callVars, table, vpp, lost, before, clean>>

\* The object of key x goes unless another key holds it; whether the command
\* that takes it out of VPP gets there is not looked at.
DropKey(x) ==
  /\ vom' = {k \in vom : k[1] # x}
  /\ LET gone == {p \in vpp : <<x, p>> \in vom /\ \A k \in vom' : k[2] # p}
     IN \E taken \in SUBSET gone :
          /\ vpp' = vpp \ taken
          /\ lost' = (lost \cup gone) \ taken

\* mutant: the entry of the table is not erased
RemoveKeyOnly(x) == DropKey(x) /\ UNCHANGED table

\* OM::remove(KEY(x)) and static_mapping_table.erase(x).
RemoveKey(x) ==
  /\ DropKey(x)
  /\ table' = [table EXCEPT ![x] = NoPair]

FinishRemove ==
  /\ LoopDone /\ "create" \notin flags /\ "remove" \in flags
  /\ xindex # 0
  /\ RemoveKey(xindex)
  /\ pc' = "verified"
  /\ UNCHANGED <<running, edits, callVars, before, clean>>

\* remove was true from the start and xindex never set: any index goes.
FinishRemoveGarbage ==
  /\ LoopDone /\ "create" \notin flags /\ "remove" \in flags
  /\ xindex = 0
  /\ \E x \in Indices : RemoveKey(x)
  /\ pc' = "verified"
  /\ clean' = FALSE
  /\ UNCHANGED <<running, edits, callVars, before>>

FinishNothing ==
  /\ LoopDone /\ flags = {}
  /\ pc' = "verified"
  /\ UNCHANGED <<running, edits, callVars, store, before, clean>>

-----------------------------------------------------------------------------
(***************************************************************************)
(* sysrepo ends the commit; the callback returns at once on every event    *)
(* other than SR_EV_VERIFY.  `clean` ends with a commit of several edits,  *)
(* one that failed and left a trace, or a restart.                         *)
(***************************************************************************)
EndCommit ==
  /\ pc' = "idle"
  /\ edits' = <<>> /\ pos' = <<1, 1>>
  /\ builder' = NoBuilder /\ flags' = {} /\ xindex' = 0
  /\ before' = store'

Apply ==
  /\ pc = "verified"
  /\ running' = Candidate
  /\ clean' = (clean /\ Len(edits) = 1)
  /\ UNCHANGED store
  /\ EndCommit

Abort ==
  /\ pc = "verified"
  /\ pc' = "rejected"
  /\ UNCHANGED <<running, edits, callVars, store, before, clean>>

Refuse ==
  /\ pc = "rejected"
  /\ clean' = (clean /\ store = before)
  /\ UNCHANGED <<running, store>>
  /\ EndCommit

\* A new daemon process: an empty table, and a VOM database that
\* OM::populate("boot") fills from VPP.
Restart ==
  /\ pc = "crashed"
  /\ table' = [x \in Indices |-> NoPair]
  /\ vom' = {BootKey} \X vpp
  /\ lost' = {}
  /\ clean' = FALSE
  /\ UNCHANGED <<running, vpp>>
  /\ EndCommit

Next ==
  \/ Commit \/ ChangeCreated \/ ChangeDeleted \/ ChangeModified
  \/ FinishInval \/ FinishWrite \/ FinishRefused
  \/ FinishRemove \/ FinishRemoveGarbage \/ FinishNothing
  \/ Apply \/ Abort \/ Refuse \/ Restart

Spec == Init /\ [][Next]_vars

-----------------------------------------------------------------------------
(***************************************************************************)
(* Properties                                                              *)
(***************************************************************************)

\* Types of the variables.
TypeOK ==
  /\ running \subseteq Entries
  /\ Len(edits) \in 0..MaxEdits /\ pos \in (1..MaxEdits + 1) \X (1..4)
  /\ builder \in [type : {"", "static", "dynamic"},
                  leaf : [AddressNodes -> Addrs \cup {Zero}]]
  /\ flags \subseteq {"create", "remove"} /\ xindex \in Indices \cup {0}
  /\ table \in [Indices -> Pairs \cup {NoPair}]
  /\ vom \subseteq (Indices \cup {BootKey}) \X Pairs
  /\ vpp \subseteq Pairs /\ lost \subseteq vpp
  /\ pc \in {"idle", "loop", "verified", "rejected", "crashed"}
  /\ clean \in BOOLEAN

(***************************************************************************)
(* static_mapping_table never names a mapping that VPP does not have or    *)
(* that VOM does not hold under that index: through refusals, aborts,      *)
(* restarts, commits of several edits, mappings shared by two indices, and *)
(* whatever the uninitialised flags and index are.                         *)
(***************************************************************************)
TableInVpp ==
  \A x \in Indices : table[x] # NoPair =>
    <<x, table[x]>> \in vom /\ table[x] \in vpp

(***************************************************************************)
(* At rest every source mapping in RUNNING is in VPP, also when another    *)
(* index with the same pair has been removed.  A destination mapping is    *)
(* not, see Build.                                                         *)
(***************************************************************************)
RunningMapped ==
  pc = "idle" /\ clean =>
    \A e \in running : e.shape = "src" =>
      e.pair \in vpp /\ table[e.index] = e.pair

(***************************************************************************)
(* At rest the table has exactly the indices in RUNNING, and VPP exactly   *)
(* the mappings in the table, but for those whose removal did not reach    *)
(* it: nat_mapping_table_config_cb() erases the entry whatever becomes of  *)
(* OM::remove().                                                           *)
(***************************************************************************)
TableExact ==
  pc = "idle" /\ clean =>
    LET mapped == {table[x] : x \in IndicesOf(running)}
    IN /\ IndicesOf(running) = {x \in Indices : table[x] # NoPair}
       /\ mapped \subseteq vpp /\ vpp \subseteq mapped \cup lost

\* Where the commit stands for CommitPromise.
Stage ==
  CASE pc = "idle" -> "idle" [] pc = "loop" -> "verify"
    [] pc = "verified" -> "accepted" [] OTHER -> "refused"

Promise == INSTANCE CommitPromise WITH
  Devices <- {"nat"}, stage <- Stage, named <- {"nat"},
  dev <- [d \in {"nat"} |-> vpp], boots <- 0

(***************************************************************************)
(* The callback keeps the promise of CommitPromise, the NAT mappings of    *)
(* VPP being its one device: they change at most once per commit, in the   *)
(* step that accepts it, and neither an error in the middle of the changes *)
(* nor the crash of a double free after them leaves a part of a commit in  *)
(* VPP.                                                                    *)
(***************************************************************************)
KeepsPromise == Promise!Spec
=============================================================================
