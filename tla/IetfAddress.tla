---------------------------- MODULE IetfAddress ----------------------------
(***************************************************************************)
(* ietf_interface_ipv46_address_change_cb() of                             *)
(* src/plugins/ietf/ietf_interface.cpp: addresses of interfaces.           *)
(*                                                                         *)
(* sysrepo delivers a commit leaf by leaf.  The callback keeps what it has *)
(* seen in local variables and acts after EVERY change with the values it  *)
(* has so far, so the binding of an address is first written with the      *)
(* length left over from before, 0 at first, and then with its own.        *)
(*                                                                         *)
(* A binding <<i, a, l>> is an l3_binding of VOM under the key             *)
(* "l3_<interface>_<prefix>".  VOM holds what VPP holds, but for bindings  *)
(* whose removal did not reach VPP; `lost` records those.                  *)
(***************************************************************************)
EXTENDS Sequences, SysUtil

CONSTANTS
  Keys,      \* pairs of an interface and an address a client may configure
  Known,     \* interfaces that VOM has
  Lengths,   \* lengths a client may give: <<"prefix-length" or "netmask", n>>
  Kinds,     \* kinds of edits the clients make, see Edits
  MaxEdits   \* bound on the edits of one commit

Addrs == {k[2] : k \in Keys}
NoAddr == ""   \* an empty new_addr or old_addr

ASSUME IetfAddressAssumption ==
  /\ NoAddr \notin Addrs
  /\ Lengths \subseteq {"prefix-length", "netmask"} \X (0..32)
  /\ MaxEdits \in Nat

VARIABLES
  running,   \* RUNNING datastore: set of entries, see Entries
  edits,     \* the commit in progress
  pos,       \* <<i, j>>: the iterator is at the j-th change of the i-th edit
  new,       \* local variables new_addr, new_prefix, and create as "acts"
  old,       \* local variables old_addr, old_prefix, and del as "acts"
  op_rc,     \* local variable: the result of the last operation
  vpp,       \* bindings of VPP
  pc,        \* where the commit stands
  before,    \* history: vpp when the commit began
  failed,    \* history: an operation of the commit has failed
  kept,      \* history: no commit has taken away what it should not, see
             \* Apply and Refuse
  clean,     \* history: nor left anything behind, see there
  lost       \* history: bindings in VPP whose last removal did not reach it

locals == <<pos, new, old, op_rc>>
history == <<failed, kept, clean, lost>>
vars == <<running, edits, locals, vpp, pc, before, history>>

Fresh == [addr |-> NoAddr, len |-> 0, acts |-> FALSE]

Init ==
  /\ running = {} /\ edits = <<>> /\ pos = <<1, 1>>
  /\ new = Fresh /\ old = Fresh /\ op_rc = "OK"
  /\ vpp = {} /\ before = {}
  /\ pc = "idle"
  /\ failed = FALSE /\ kept = TRUE /\ clean = TRUE /\ lost = {}

-----------------------------------------------------------------------------
\* An address of an interface, with the length or the mask of its prefix.
Entries == {[if |-> k[1], addr |-> k[2], node |-> p[1], len |-> p[2]] :
              k \in Keys, p \in Lengths}

SameKey(e, f) == e.if = f.if /\ e.addr = f.addr

\* Edits: an entry is added, deleted, or given another length.
Edits ==
  {<<k, e, e>> : k \in Kinds \cap {"add"},
                 e \in {f \in Entries : \A g \in running : ~SameKey(f, g)}}
  \cup {<<k, e, e>> : k \in Kinds \cap {"delete"}, e \in running}
  \cup {x \in (Kinds \cap {"modify"}) \X running \X Entries :
          /\ SameKey(x[2], x[3]) /\ x[2].node = x[3].node
          /\ x[2].len # x[3].len}

\* The changes of edit <<kind, was, now>>: the list entry, its key ip, then
\* the length; only the length for a modification.
ChangesOf(e) ==
  LET Change(op, node, was, val) ==
        [op |-> op, node |-> node, if |-> e[3].if, was |-> was, val |-> val]
      Entry(op) == << Change(op, "address", NoAddr, NoAddr),
                      Change(op, "ip", e[2].addr, e[3].addr),
                      Change(op, e[3].node, e[2].len, e[3].len) >>
  IN CASE e[1] = "add"    -> Entry("CREATED")
       [] e[1] = "delete" -> Entry("DELETED")
       [] e[1] = "modify" -> << Entry("MODIFIED")[3] >>

\* RUNNING once the commit is applied.
Candidate ==
  {f \in running : \A i \in DOMAIN edits : ~SameKey(f, edits[i][3])}
    \cup {edits[i][3] : i \in {j \in DOMAIN edits : edits[j][1] # "delete"}}

-----------------------------------------------------------------------------
\* A commit: SR_EV_VERIFY with fresh locals, or an error without an iterator.
Commit ==
  /\ pc = "idle"
  /\ \E k \in 1..MaxEdits :
       \E es \in [1..k -> Edits] :
         /\ \A i, j \in 1..k : SameKey(es[i][3], es[j][3]) => i = j
         /\ edits' = es
  /\ pos' = <<1, 1>>
  /\ new' = Fresh /\ old' = Fresh /\ op_rc' = "OK"
  /\ before' = vpp
  /\ pc' \in {"loop", "rejected"}
  /\ UNCHANGED <<running, vpp, history>>

\* parse_interface_ipv46_address(): a list entry resets the address only.
Parse(node, val, v) ==
  CASE node = "address" -> [v EXCEPT !.addr = NoAddr]
    [] node = "ip" -> [v EXCEPT !.addr = val]
    [] node = "prefix-length" -> [v EXCEPT !.len = val]
    [] node = "netmask" -> [v EXCEPT !.len = NetmaskToPlen(val)]

\* mutant: the interface is not looked up
AddRemoveUnchecked(set, i, v, add) ==
  {<<IF add THEN set \cup {<<i, v.addr, v.len>>}
            ELSE set \ {<<i, v.addr, v.len>>}, "OK">>}

(***************************************************************************)
(* ipv46_config_add_remove(): the bindings and the result it may leave.    *)
(* VPP may refuse to add.  A removal may fail or not reach VPP: the result *)
(* of OM::remove() is ignored.                                             *)
(***************************************************************************)
AddRemove(set, i, v, add) ==
  LET b == <<i, v.addr, v.len>>
  IN IF i \notin Known THEN {<<set, "INVAL_ARG">>}
     ELSE IF add THEN {<<set \cup {b}, "OK">>, <<set, "OPERATION_FAILED">>}
     ELSE {<<set \ {b}, "OK">>, <<set, "OK">>}

Acts(v) == v.acts /\ v.addr # NoAddr

\* mutant: on a deletion the length is not parsed
OldAfterNoLength(c) ==
  IF c.op \in {"MODIFIED", "DELETED"} /\ c.node \in {"address", "ip"}
    THEN [Parse(c.node, c.was, old) EXCEPT !.acts = TRUE] ELSE old

OldAfter(c) ==
  IF c.op \in {"MODIFIED", "DELETED"}
    THEN [Parse(c.node, c.was, old) EXCEPT !.acts = TRUE] ELSE old

NewAfter(c) ==
  IF c.op \in {"MODIFIED", "CREATED"}
    THEN [Parse(c.node, c.val, new) EXCEPT !.acts = TRUE] ELSE new

MoreChanges == pos[1] <= Len(edits)

ThisChange == ChangesOf(edits[pos[1]])[pos[2]]

NextChange ==
  /\ pc = "loop" /\ MoreChanges
  /\ pos' = IF pos[2] < Len(ChangesOf(edits[pos[1]]))
              THEN <<pos[1], pos[2] + 1>> ELSE <<pos[1] + 1, 1>>

(***************************************************************************)
(* One turn of foreach_change: parse the change, then remove the old       *)
(* prefix and add the new one, as far as they are known.  The result of    *)
(* the removal is overwritten by that of the addition.                     *)
(***************************************************************************)
OneChange ==
  /\ NextChange
  /\ LET c == ThisChange
     IN /\ old' = OldAfter(c)
        /\ new' = NewAfter(c)
        /\ \E r1 \in IF Acts(old') THEN AddRemove(vpp, c.if, old', FALSE)
                     ELSE {<<vpp, op_rc>>} :
           \E r2 \in IF Acts(new') THEN AddRemove(r1[1], c.if, new', TRUE)
                     ELSE {r1} :
             /\ vpp' = r2[1] /\ op_rc' = r2[2]
             /\ failed' = (failed \/ op_rc' # "OK")
             /\ lost' = r1[1] \cap
                  IF Acts(old') THEN lost \cup {<<c.if, old'.addr, old'.len>>}
                                ELSE lost
  /\ UNCHANGED <<running, edits, pc, before, kept, clean>>

\* mutant: the result is not returned
ReturnOk ==
  /\ pc = "loop" /\ ~MoreChanges
  /\ pc' = "verified"
  /\ UNCHANGED <<running, edits, locals, vpp, before, history>>

\* return op_rc
Return ==
  /\ pc = "loop" /\ ~MoreChanges
  /\ pc' = IF op_rc = "OK" THEN "verified" ELSE "rejected"
  /\ UNCHANGED <<running, edits, locals, vpp, before, history>>

-----------------------------------------------------------------------------
(***************************************************************************)
(* sysrepo ends the commit.  SR_EV_APPLY returns at once; on SR_EV_ABORT   *)
(* the condition of foreach_change is false and nothing is undone.         *)
(***************************************************************************)
EndCommit(ds) ==
  /\ running' = ds
  /\ pc' = "idle"
  /\ edits' = <<>> /\ pos' = <<1, 1>>
  /\ new' = Fresh /\ old' = Fresh /\ op_rc' = "OK"
  /\ before' = vpp /\ failed' = FALSE
  /\ UNCHANGED <<vpp, lost>>

(***************************************************************************)
(* A commit of several edits may leave bindings behind, made with the      *)
(* length of another entry.  It takes none away that should stay if it     *)
(* only adds, only deletes, or is about one interface, and none of its     *)
(* operations failed, for only the last result is returned.                *)
(***************************************************************************)
Apply ==
  /\ pc = "verified"
  /\ clean' = (clean /\ Len(edits) = 1)
  /\ kept' = (kept /\ (Len(edits) > 1 =>
                 /\ ~failed
                 /\ \/ \A i, j \in DOMAIN edits : edits[i][1] = edits[j][1]
                    \/ \A i, j \in DOMAIN edits : edits[i][3].if = edits[j][3].if))
  /\ EndCommit(Candidate)

Abort ==
  /\ pc = "verified"
  /\ pc' = "aborted"
  /\ UNCHANGED <<running, edits, locals, vpp, before, history>>

Refuse ==
  /\ pc \in {"rejected", "aborted"}
  /\ clean' = (clean /\ vpp = before /\ Len(edits) = 1)
  /\ kept' = (kept /\ before \subseteq vpp)
  /\ EndCommit(running)

Next == Commit \/ OneChange \/ Return \/ Apply \/ Abort \/ Refuse

Spec == Init /\ [][Next]_vars

-----------------------------------------------------------------------------
(***************************************************************************)
(* Properties                                                              *)
(***************************************************************************)

\* Types of the variables.  VPP only ever has bindings of known interfaces, of
\* an address and with a length of at most 32.
TypeOK ==
  /\ running \subseteq Entries
  /\ Len(edits) \in 0..MaxEdits /\ pos \in (1..MaxEdits + 1) \X (1..3)
  /\ \A v \in {new, old} : /\ v.addr \in Addrs \cup {NoAddr}
                           /\ v.len \in 0..32 /\ v.acts \in BOOLEAN
  /\ op_rc \in {"OK", "INVAL_ARG", "OPERATION_FAILED"}
  /\ \A b \in vpp \cup before : b \in Known \X Addrs \X (0..32)
  /\ pc \in {"idle", "loop", "verified", "rejected", "aborted"}
  /\ lost \subseteq vpp
  /\ failed \in BOOLEAN /\ kept \in BOOLEAN /\ clean \in BOOLEAN

\* The binding an entry asks for.
Binding(e) == <<e.if, e.addr, e.len>>

\* Its length reaches VPP as given: netmask_to_plen() rounds a netmask up to
\* whole bytes, against its comment; NetmaskConverted shows that.
Exact(e) == e.node = "netmask" => e.len % 8 = 0

(***************************************************************************)
(* At rest every address in RUNNING is bound in VPP, with the length the   *)
(* client gave, although the callback acts on half-read entries, carries   *)
(* its locals from one entry to the next and returns the result of its     *)
(* last operation only.  That holds for commits of one edit and, when no   *)
(* operation fails, for commits of several edits of one kind or on one     *)
(* interface.  The other commits of several edits, and a refused or        *)
(* aborted commit that took a binding away, end it: see `kept`.            *)
(***************************************************************************)
RunningBound ==
  pc = "idle" /\ kept => \A e \in running : Exact(e) => Binding(e) \in vpp

(***************************************************************************)
(* As long as every commit has one edit and none failed with a trace, VPP  *)
(* has no binding of an address that is not in RUNNING, and none with a    *)
(* length its client did not give, but for removals that did not reach it: *)
(* a deletion repeats the intermediate steps of the addition and so also   *)
(* asks VPP to remove the binding of length 0 the addition made on the way.*)
(***************************************************************************)
NothingLeftOver ==
  pc = "idle" /\ clean =>
    \A b \in vpp \ lost : \E e \in running :
      /\ e.if = b[1] /\ e.addr = b[2]
      /\ Exact(e) => b[3] \in {0, e.len}

(***************************************************************************)
(* What the documents say and the code does not do.                        *)
(***************************************************************************)

\* ietf_interface.cpp:18 "adding, modifying, removing a prefix": an accepted
\* modification is in VPP.  It is not: the ip leaf is not among the changes.
ModifyApplied ==
  pc = "verified" /\ Len(edits) = 1 /\ edits[1][1] = "modify"
    => Binding(edits[1][3]) \in vpp

\* sys_util.h:77 "Convert netmask to prefix length": an accepted addition is
\* in VPP with the length of its netmask.  It is not when that is not a
\* multiple of 8: netmask_to_plen() counts up to the last byte's highest bit.
NetmaskConverted ==
  pc = "verified" /\ Len(edits) = 1 /\ edits[1][1] = "add"
    => Binding(edits[1][3]) \in vpp
=============================================================================
