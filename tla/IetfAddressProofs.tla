------------------------- MODULE IetfAddressProofs -------------------------
(***************************************************************************)
(* ietf_interface_ipv46_address_change_cb() for every set of interfaces,   *)
(* addresses and prefix lengths: its types, that the addresses in RUNNING  *)
(* are bound in VPP after commits of any number of edits, and that nothing *)
(* else is bound after commits of one but what a lost removal left.  Both  *)
(* hold as long as clients only add and delete addresses; a modification   *)
(* is accepted without effect.                                             *)
(***************************************************************************)
EXTENDS IetfAddress, TLAPS

(***************************************************************************)
(* netmask_to_plen() of a mask with len leading ones: whole bytes.         *)
(***************************************************************************)
LEMMA PlenWholeBytes ==
  ASSUME NEW len \in 0..32
  PROVE  NetmaskToPlen(len) = 8 * ((len + 7) \div 8)
<1>. DEFINE r == 8 * ((len + 7) \div 8)
            P(i) == /\ \A b \in MaskBits(len) : b < i
                    /\ i > 0 => i - 1 \in MaskBits(len)
<1>1. r \in 0..32 /\ r >= len /\ (len > 0 => r - 8 \in 0 .. len - 1 /\ r >= 8)
      /\ (len = 0 => r = 0)
  OBVIOUS
<1>2. r % 8 = 0 /\ (len > 0 => (r - 8) % 8 = 0 /\ 8 * ((r - 8) \div 8) = r - 8)
  OBVIOUS
<1>3. MaskBits(len) \subseteq 0..31
  BY DEF MaskBits
<1>4. ASSUME NEW k \in 0 .. len - 1
      PROVE  8 * (k \div 8) + (7 - (k % 8)) < r
  OBVIOUS
<1>5. \A b \in MaskBits(len) : b < r
  BY <1>4 DEF MaskBits
<1>6. r > 0 => r - 1 \in MaskBits(len)
  <2>. SUFFICES ASSUME r > 0 PROVE r - 1 \in MaskBits(len)
    OBVIOUS
  <2>1. len > 0 /\ r - 8 \in 0 .. len - 1
    BY <1>1
  <2>2. 8 * ((r - 8) \div 8) + (7 - ((r - 8) % 8)) = r - 1
    BY <1>1, <1>2, <2>1
  <2>. HIDE DEF r
  <2>3. QED
    BY <2>1, <2>2 DEF MaskBits
<1>7. P(r)
  BY <1>5, <1>6
<1>8. ASSUME NEW i \in 0..32, P(i) PROVE i = r
  BY <1>1, <1>3, <1>7, <1>8
<1>9. NetmaskToPlen(len) = CHOOSE i \in 0..32 : P(i)
  BY DEF NetmaskToPlen
<1>. HIDE DEF r, P
<1>10. QED
  BY <1>1, <1>7, <1>8, <1>9 DEF r

\* The prefix length the callback makes of an entry, and what it writes.
PrefixLen(e) ==
  IF e.node = "netmask" THEN 8 * ((e.len + 7) \div 8) ELSE e.len
Written(e) == <<e.if, e.addr, PrefixLen(e)>>

\* It is the length the client gave, where no netmask is rounded.
LEMMA WrittenExact ==
  ASSUME NEW e \in Entries, Exact(e)
  PROVE  PrefixLen(e) = e.len /\ Written(e) = Binding(e)
<1>1. e.len \in 0..32
  BY IetfAddressAssumption DEF Entries
<1>2. ASSUME NEW n \in 0..32, n % 8 = 0 PROVE 8 * ((n + 7) \div 8) = n
  BY <1>2
<1>3. PrefixLen(e) = e.len
  BY <1>1, <1>2 DEF PrefixLen, Exact
<1>4. QED
  BY <1>3 DEF Written, Binding

-----------------------------------------------------------------------------
(***************************************************************************)
(* Types, and where the iterator is.                                       *)
(***************************************************************************)
AllKinds == {"add", "delete", "modify"}
AllEdits == {x \in AllKinds \X Entries \X Entries :
               SameKey(x[2], x[3]) /\ x[2].node = x[3].node}

EditsTyped == edits \in Seq(AllEdits) /\ Len(edits) <= MaxEdits

PosInRange ==
  /\ pos \in (Nat \ {0}) \X (Nat \ {0})
  /\ pos[1] <= Len(edits) + 1
  /\ MoreChanges => pos[2] <= Len(ChangesOf(edits[pos[1]]))
  /\ ~MoreChanges => pos[2] = 1

Locals == [addr : Addrs \cup {NoAddr}, len : 0..32, acts : BOOLEAN]

Bindings == Known \X Addrs \X (0..32)

AddressTypeInv ==
  /\ running \subseteq Entries
  /\ EditsTyped /\ PosInRange
  /\ new \in Locals /\ old \in Locals
  /\ op_rc \in {"OK", "INVAL_ARG", "OPERATION_FAILED"}
  /\ vpp \subseteq Bindings /\ before \subseteq Bindings /\ lost \subseteq vpp
  /\ pc \in {"idle", "loop", "verified", "rejected", "aborted"}
  /\ failed \in BOOLEAN /\ kept \in BOOLEAN /\ clean \in BOOLEAN

\* The parts of an edit.
LEMMA EditParts ==
  ASSUME NEW e \in AllEdits
  PROVE  /\ e[1] \in AllKinds
         /\ \A i \in {2, 3} : /\ e[i].addr \in Addrs /\ e[i].len \in 0..32
                              /\ e[i].node \in {"prefix-length", "netmask"}
         /\ e[2].addr = e[3].addr /\ e[2].node = e[3].node
<1>1. e[1] \in AllKinds /\ e[2] \in Entries /\ e[3] \in Entries
      /\ SameKey(e[2], e[3]) /\ e[2].node = e[3].node
  BY DEF AllEdits
<1>2. \A f \in Entries : /\ f.addr \in Addrs /\ f.len \in 0..32
                         /\ f.node \in {"prefix-length", "netmask"}
  BY IetfAddressAssumption DEF Entries, Addrs
<1>3. QED
  BY <1>1, <1>2 DEF SameKey

\* The changes sysrepo reports for an edit.
LEMMA ChangesShape ==
  ASSUME NEW e \in AllEdits
  PROVE  /\ Len(ChangesOf(e)) = IF e[1] = "modify" THEN 1 ELSE 3
         /\ \A j \in 1..Len(ChangesOf(e)) :
              LET c == ChangesOf(e)[j]
              IN /\ c.if = e[3].if
                 /\ c.op = CASE e[1] = "add" -> "CREATED" [] e[1] = "delete" -> "DELETED"
                             [] OTHER -> "MODIFIED"
                 /\ IF e[1] = "modify" \/ j = 3
                      THEN c.node = e[3].node /\ c.was = e[2].len /\ c.val = e[3].len
                    ELSE IF j = 2
                      THEN c.node = "ip" /\ c.was = e[2].addr /\ c.val = e[3].addr
                    ELSE c.node = "address"
<1>1. e[1] \in AllKinds
  BY EditParts
<1>2. CASE e[1] = "add"
  BY <1>2 DEF ChangesOf
<1>3. CASE e[1] = "delete"
  BY <1>3 DEF ChangesOf
<1>4. CASE e[1] = "modify"
  BY <1>4 DEF ChangesOf
<1>5. QED
  BY <1>1, <1>2, <1>3, <1>4 DEF AllKinds

\* The change the iterator is at.
LEMMA ThisChangeAt ==
  ASSUME EditsTyped, PosInRange, MoreChanges
  PROVE  /\ edits[pos[1]] \in AllEdits /\ pos[1] \in 1..Len(edits)
         /\ Len(ChangesOf(edits[pos[1]])) \in 1..3
         /\ pos[2] \in 1..Len(ChangesOf(edits[pos[1]])) /\ pos[2] \in 1..3
         /\ ThisChange = ChangesOf(edits[pos[1]])[pos[2]]
<1>. DEFINE n == Len(ChangesOf(edits[pos[1]]))
<1>1. edits[pos[1]] \in AllEdits /\ pos[1] \in 1..Len(edits)
  BY DEF EditsTyped, PosInRange, MoreChanges
<1>2. n \in 1..3
  BY <1>1, ChangesShape
<1>3. pos[2] \in Nat \ {0} /\ pos[2] <= n
  BY DEF PosInRange
<1>. HIDE DEF n
<1>4. pos[2] \in 1..n /\ pos[2] \in 1..3
  BY <1>2, <1>3
<1>5. QED
  BY <1>1, <1>2, <1>4 DEF ThisChange, n

\* The iterator moves on.
LEMMA NextInRange ==
  ASSUME EditsTyped, PosInRange, NextChange, edits' = edits
  PROVE  EditsTyped' /\ PosInRange'
<1>. DEFINE n == Len(ChangesOf(edits[pos[1]]))
<1>1. n \in 1..3 /\ pos[1] \in 1..Len(edits) /\ pos[2] \in 1..n
  BY ThisChangeAt DEF NextChange
<1>2. EditsTyped'
  BY DEF EditsTyped
<1>3. CASE pos[2] < n
  <2>1. pos' = <<pos[1], pos[2] + 1>>
    BY <1>3 DEF NextChange
  <2>2. QED
    BY <1>1, <1>2, <1>3, <2>1 DEF PosInRange, MoreChanges
<1>4. CASE ~(pos[2] < n)
  <2>1. pos' = <<pos[1] + 1, 1>>
    BY <1>4 DEF NextChange
  <2>2. ASSUME pos[1] + 1 <= Len(edits)
        PROVE  1 <= Len(ChangesOf(edits[pos[1] + 1]))
    <3>1. edits[pos[1] + 1] \in AllEdits
      BY <2>2 DEF EditsTyped, PosInRange
    <3>2. QED
      BY <3>1, ChangesShape
  <2>3. QED
    BY <1>1, <1>2, <2>1, <2>2 DEF PosInRange, MoreChanges, EditsTyped
<1>5. QED
  BY <1>3, <1>4

(***************************************************************************)
(* The two operations of a turn: the removal leaves bindings w and result  *)
(* rc, the addition what the turn leaves.                                  *)
(***************************************************************************)
Removal(w, rc) ==
  LET b == <<ThisChange.if, old'.addr, old'.len>>
  IN IF Acts(old')
       THEN /\ IF b[1] \in Known THEN w \in {vpp, vpp \ {b}} /\ rc = "OK"
                                ELSE w = vpp /\ rc = "INVAL_ARG"
            /\ lost' = w \cap (lost \cup {b})
       ELSE w = vpp /\ rc = op_rc /\ lost' = w \cap lost

Addition(w, rc) ==
  LET c == ThisChange
  IN IF Acts(new')
       THEN \/ /\ c.if \in Known /\ op_rc' = "OK"
               /\ vpp' = w \cup {<<c.if, new'.addr, new'.len>>}
            \/ op_rc' \in {"INVAL_ARG", "OPERATION_FAILED"} /\ vpp' = w
       ELSE vpp' = w /\ op_rc' = rc

\* What a turn of the loop does.
LEMMA OneTurn ==
  ASSUME OneChange
  PROVE  /\ \E w, rc : Removal(w, rc) /\ Addition(w, rc)
         /\ NextChange /\ old' = OldAfter(ThisChange) /\ new' = NewAfter(ThisChange)
         /\ failed' = (failed \/ op_rc' # "OK")
         /\ UNCHANGED <<running, edits, pc, before, kept, clean>>
<1>. DEFINE c == ThisChange
<1>1. PICK r1 \in IF Acts(old') THEN AddRemove(vpp, c.if, old', FALSE)
                  ELSE {<<vpp, op_rc>>} :
        \E r2 \in IF Acts(new') THEN AddRemove(r1[1], c.if, new', TRUE) ELSE {r1} :
          /\ vpp' = r2[1] /\ op_rc' = r2[2]
          /\ lost' = r1[1] \cap
               IF Acts(old') THEN lost \cup {<<c.if, old'.addr, old'.len>>} ELSE lost
  BY DEF OneChange
<1>2. PICK r2 \in IF Acts(new') THEN AddRemove(r1[1], c.if, new', TRUE) ELSE {r1} :
        /\ vpp' = r2[1] /\ op_rc' = r2[2]
        /\ lost' = r1[1] \cap
             IF Acts(old') THEN lost \cup {<<c.if, old'.addr, old'.len>>} ELSE lost
  BY <1>1
<1>3. Removal(r1[1], r1[2])
  <2>1. CASE Acts(old')
    BY <1>1, <1>2, <2>1 DEF AddRemove, Removal
  <2>2. CASE ~Acts(old')
    BY <1>1, <1>2, <2>2 DEF Removal
  <2>3. QED
    BY <2>1, <2>2
<1>4. Addition(r1[1], r1[2])
  <2>1. CASE Acts(new')
    BY <1>2, <2>1 DEF AddRemove, Addition
  <2>2. CASE ~Acts(new')
    BY <1>2, <2>2 DEF Addition
  <2>3. QED
    BY <2>1, <2>2
<1>5. /\ NextChange /\ old' = OldAfter(c) /\ new' = NewAfter(c)
      /\ failed' = (failed \/ op_rc' # "OK")
      /\ UNCHANGED <<running, edits, pc, before, kept, clean>>
  BY DEF OneChange
<1>6. QED
  BY <1>3, <1>4, <1>5

\* What the locals become at the j-th change of an edit that lists entry f:
\* the list entry, the key, the length.
Reads(v, j, f) ==
  CASE j = 1 -> [v EXCEPT !.addr = NoAddr, !.acts = TRUE]
    [] j = 2 -> [v EXCEPT !.addr = f.addr, !.acts = TRUE]
    [] j = 3 -> [v EXCEPT !.len = PrefixLen(f), !.acts = TRUE]

Acting(v) == [v EXCEPT !.acts = TRUE]

\* The parse of a length, given as prefix-length or as netmask.
LEMMA ParseLength ==
  ASSUME NEW v \in Locals, NEW f, f.node \in {"prefix-length", "netmask"},
         f.len \in 0..32
  PROVE  Acting(Parse(f.node, f.len, v)) = Reads(v, 3, f)
<1>1. NetmaskToPlen(f.len) = 8 * ((f.len + 7) \div 8)
  BY PlenWholeBytes
<1>2. CASE f.node = "netmask"
  <2>1. Parse(f.node, f.len, v) = [v EXCEPT !.len = PrefixLen(f)]
    BY <1>1, <1>2 DEF Parse, PrefixLen
  <2>2. QED
    BY <2>1 DEF Reads, Locals, Acting
<1>3. CASE f.node = "prefix-length"
  <2>1. Parse(f.node, f.len, v) = [v EXCEPT !.len = PrefixLen(f)]
    BY <1>3 DEF Parse, PrefixLen
  <2>2. QED
    BY <2>1 DEF Reads, Locals, Acting
<1>4. QED
  BY <1>2, <1>3

\* The locals after the change the iterator is at.
LEMMA LocalsAfter ==
  ASSUME EditsTyped, PosInRange, MoreChanges, new \in Locals, old \in Locals
  PROVE  LET e == edits[pos[1]]
             j == pos[2]
         IN /\ e[1] = "add" => /\ OldAfter(ThisChange) = old
                               /\ NewAfter(ThisChange) = Reads(new, j, e[3])
            /\ e[1] = "delete" => /\ OldAfter(ThisChange) = Reads(old, j, e[2])
                                  /\ NewAfter(ThisChange) = new
            /\ e[1] = "modify" => /\ OldAfter(ThisChange) = Reads(old, 3, e[2])
                                  /\ NewAfter(ThisChange) = Reads(new, 3, e[3])
<1>. DEFINE e == edits[pos[1]]
            j == pos[2]
            c == ThisChange
<1>1. e \in AllEdits /\ j \in 1..Len(ChangesOf(e)) /\ j \in 1..3 /\ c = ChangesOf(e)[j]
  BY ThisChangeAt
<1>. HIDE DEF e, j, c
<1>2. /\ c.op = CASE e[1] = "add" -> "CREATED" [] e[1] = "delete" -> "DELETED"
                  [] OTHER -> "MODIFIED"
      /\ IF e[1] = "modify" \/ j = 3
           THEN c.node = e[3].node /\ c.was = e[2].len /\ c.val = e[3].len
         ELSE IF j = 2
           THEN c.node = "ip" /\ c.was = e[2].addr /\ c.val = e[3].addr
         ELSE c.node = "address"
  BY <1>1, ChangesShape
<1>3. \A v \in Locals :
        /\ Acting(Parse(e[2].node, e[2].len, v)) = Reads(v, 3, e[2])
        /\ Acting(Parse(e[3].node, e[3].len, v)) = Reads(v, 3, e[3])
  <2>1. /\ e[2].node \in {"prefix-length", "netmask"} /\ e[2].len \in 0..32
        /\ e[3].node \in {"prefix-length", "netmask"} /\ e[3].len \in 0..32
    BY <1>1, EditParts
  <2>2. QED
    BY <2>1, ParseLength
<1>4. ASSUME NEW v \in Locals, NEW f, NEW x
      PROVE  /\ Acting(Parse("address", x, v)) = Reads(v, 1, f)
             /\ Acting(Parse("ip", f.addr, v)) = Reads(v, 2, f)
  BY DEF Parse, Reads, Locals, Acting
<1>5. e[2].node = e[3].node /\ e[2].addr = e[3].addr
  BY <1>1, EditParts
<1>6. CASE e[1] = "modify"
  BY <1>2, <1>3, <1>5, <1>6 DEF OldAfter, NewAfter, Acting, e, j, c
<1>7. CASE e[1] = "add"
  <2>1. OldAfter(c) = old /\ NewAfter(c) = Acting(Parse(c.node, c.val, new))
    BY <1>2, <1>7 DEF OldAfter, NewAfter, Acting
  <2>2. Acting(Parse(c.node, c.val, new)) = Reads(new, j, e[3])
    BY <1>1, <1>2, <1>3, <1>4, <1>7
  <2>3. QED
    BY <1>7, <2>1, <2>2 DEF e, j, c
<1>8. CASE e[1] = "delete"
  <2>1. NewAfter(c) = new /\ OldAfter(c) = Acting(Parse(c.node, c.was, old))
    BY <1>2, <1>8 DEF OldAfter, NewAfter, Acting
  <2>2. Acting(Parse(c.node, c.was, old)) = Reads(old, j, e[2])
    BY <1>1, <1>2, <1>3, <1>4, <1>5, <1>8
  <2>3. QED
    BY <1>8, <2>1, <2>2 DEF e, j, c
<1>9. QED
  BY <1>1, <1>6, <1>7, <1>8, EditParts DEF AllKinds, e, j, c

\* The locals keep their type.
LEMMA ReadsTyped ==
  ASSUME NEW v \in Locals, NEW f, f.addr \in Addrs, f.len \in 0..32
  PROVE  \A j \in 1..3 : Reads(v, j, f) \in Locals
<1>. DEFINE Address(a) == [v EXCEPT !.addr = a, !.acts = TRUE]
            Length(l) == [v EXCEPT !.len = l, !.acts = TRUE]
<1>1. PrefixLen(f) \in 0..32
  BY DEF PrefixLen
<1>2. \A a \in Addrs \cup {NoAddr} : Address(a) \in Locals
  BY DEF Locals
<1>3. \A l \in 0..32 : Length(l) \in Locals
  BY DEF Locals
<1>4. /\ Reads(v, 1, f) = Address(NoAddr) /\ Reads(v, 2, f) = Address(f.addr)
      /\ Reads(v, 3, f) = Length(PrefixLen(f))
  BY DEF Reads
<1>. HIDE DEF Address, Length
<1>5. Reads(v, 1, f) \in Locals /\ Reads(v, 2, f) \in Locals /\ Reads(v, 3, f) \in Locals
  BY <1>1, <1>2, <1>3, <1>4
<1>6. QED
  BY <1>5

\* What the locals are then.
LEMMA ReadsFields ==
  ASSUME NEW v \in Locals, NEW f
  PROVE  /\ Reads(v, 1, f).addr = NoAddr /\ Reads(v, 2, f).addr = f.addr
         /\ Reads(v, 3, f).addr = v.addr /\ Reads(v, 3, f).len = PrefixLen(f)
         /\ Reads(v, 1, f).len = v.len /\ Reads(v, 2, f).len = v.len
         /\ \A j \in 1..3 : Reads(v, j, f).acts
<1>. DEFINE Address(a) == [v EXCEPT !.addr = a, !.acts = TRUE]
            Length(l) == [v EXCEPT !.len = l, !.acts = TRUE]
<1>1. \A a : Address(a).addr = a /\ Address(a).len = v.len /\ Address(a).acts
  BY DEF Locals
<1>2. \A l : Length(l).addr = v.addr /\ Length(l).len = l /\ Length(l).acts
  BY DEF Locals
<1>3. /\ Reads(v, 1, f) = Address(NoAddr) /\ Reads(v, 2, f) = Address(f.addr)
      /\ Reads(v, 3, f) = Length(PrefixLen(f))
  BY DEF Reads
<1>. HIDE DEF Address, Length
<1>4. Reads(v, 1, f).acts /\ Reads(v, 2, f).acts /\ Reads(v, 3, f).acts
  BY <1>1, <1>2, <1>3
<1>5. QED
  BY <1>1, <1>2, <1>3, <1>4

\* A turn of the loop keeps the types.
LEMMA TurnTyped ==
  ASSUME AddressTypeInv, OneChange
  PROVE  AddressTypeInv'
<1>. DEFINE e == edits[pos[1]]
            c == ThisChange
<1>1. /\ NextChange /\ old' = OldAfter(c) /\ new' = NewAfter(c)
      /\ UNCHANGED <<running, edits, pc, before, kept, clean>>
      /\ failed' \in BOOLEAN
  BY OneTurn
<1>2. EditsTyped' /\ PosInRange'
  BY <1>1, NextInRange DEF AddressTypeInv
<1>3. e \in AllEdits /\ pos[2] \in 1..3
  BY <1>1, ThisChangeAt DEF NextChange, AddressTypeInv
<1>4. old' \in Locals /\ new' \in Locals
  <2>1. \A v \in Locals, j \in 1..3 : Reads(v, j, e[2]) \in Locals
                                      /\ Reads(v, j, e[3]) \in Locals
    BY <1>3, EditParts, ReadsTyped
  <2>2. e[1] \in {"add", "delete", "modify"}
    BY <1>3, EditParts DEF AllKinds
  <2>3. QED
    BY <1>1, <1>3, <2>1, <2>2, LocalsAfter DEF AddressTypeInv, NextChange
<1>5. PICK w, rc : Removal(w, rc) /\ Addition(w, rc)
  BY OneTurn
<1>6. /\ w \subseteq Bindings /\ rc \in {"OK", "INVAL_ARG", "OPERATION_FAILED"}
      /\ lost' \subseteq w
  BY <1>5 DEF Removal, AddressTypeInv
<1>7. /\ vpp' \subseteq Bindings /\ lost' \subseteq vpp'
      /\ op_rc' \in {"OK", "INVAL_ARG", "OPERATION_FAILED"}
  <2>1. Acts(new') => new'.addr \in Addrs /\ new'.len \in 0..32
    BY <1>4 DEF Acts, Locals
  <2>2. QED
    BY <1>5, <1>6, <2>1 DEF Addition, Bindings
<1>8. QED
  BY <1>1, <1>2, <1>4, <1>7 DEF AddressTypeInv

\* Fresh locals have the type.
LEMMA FreshTyped == Fresh \in Locals
BY DEF Fresh, Locals

\* A client's edits have the type.
LEMMA EditsOfType ==
  ASSUME running \subseteq Entries
  PROVE  Edits \subseteq AllEdits
<1>1. ASSUME NEW x \in Edits PROVE x \in AllEdits
  <2>1. \A k, e : <<k, e, e>>[1] = k /\ <<k, e, e>>[2] = e /\ <<k, e, e>>[3] = e
    OBVIOUS
  <2>2. CASE \E k \in Kinds \cap {"add", "delete"}, e \in Entries : x = <<k, e, e>>
    BY <2>2 DEF AllEdits, AllKinds, SameKey
  <2>3. CASE /\ x \in (Kinds \cap {"modify"}) \X running \X Entries
             /\ SameKey(x[2], x[3]) /\ x[2].node = x[3].node
    BY <2>3 DEF AllEdits, AllKinds
  <2>4. QED
    BY <2>2, <2>3 DEF Edits
<1>2. QED
  BY <1>1

\* A commit begins at the first change of edits of the type.
LEMMA CommitTyped ==
  ASSUME AddressTypeInv, Commit
  PROVE  AddressTypeInv' /\ Len(edits') >= 1
<1>1. PICK k \in 1..MaxEdits : \E es \in [1..k -> Edits] : edits' = es
  BY DEF Commit
<1>2. edits' \in [1..k -> AllEdits] /\ k \in Nat /\ k >= 1
  BY <1>1, EditsOfType, IetfAddressAssumption DEF AddressTypeInv
<1>3. Len(edits') = k /\ edits' \in Seq(AllEdits) /\ edits'[1] \in AllEdits
  BY <1>2
<1>4. EditsTyped'
  BY <1>1, <1>3, IetfAddressAssumption DEF EditsTyped
<1>5. 1 <= Len(ChangesOf(edits'[1]))
  BY <1>3, ChangesShape
<1>6. PosInRange'
  BY <1>2, <1>3, <1>5 DEF Commit, PosInRange, MoreChanges
<1>7. QED
  BY <1>2, <1>3, <1>4, <1>6, FreshTyped DEF Commit, history, AddressTypeInv

\* The datastore a commit leads to has the type.
LEMMA CandidateTyped ==
  ASSUME running \subseteq Entries, EditsTyped
  PROVE  Candidate \subseteq Entries
<1>1. \A i \in DOMAIN edits : edits[i] \in AllEdits
  BY DEF EditsTyped
<1>2. \A i \in DOMAIN edits : edits[i][3] \in Entries
  BY <1>1 DEF AllEdits
<1>3. QED
  BY <1>2 DEF Candidate

\* The end of the callback and of the commit keep the types.
LEMMA EndTyped ==
  ASSUME AddressTypeInv, Return \/ Apply \/ Abort \/ Refuse
  PROVE  AddressTypeInv'
<1>1. CASE Return \/ Abort
  BY <1>1 DEF Return, Abort, locals, history, AddressTypeInv, EditsTyped,
              PosInRange, MoreChanges
<1>2. CASE Apply \/ Refuse
  <2>1. PICK ds \in SUBSET Entries : EndCommit(ds)
    BY <1>2, CandidateTyped DEF Apply, Refuse, AddressTypeInv
  <2>2. EditsTyped' /\ PosInRange'
    BY <2>1, IetfAddressAssumption
       DEF EndCommit, EditsTyped, PosInRange, MoreChanges
  <2>3. kept' \in BOOLEAN /\ clean' \in BOOLEAN /\ failed' \in BOOLEAN
    BY <1>2, <2>1 DEF Apply, Refuse, EndCommit, AddressTypeInv
  <2>4. QED
    BY <2>1, <2>2, <2>3, FreshTyped DEF EndCommit, AddressTypeInv
<1>3. QED
  BY <1>1, <1>2

\* Every step keeps the types.
LEMMA AddressTypeStep == AddressTypeInv /\ [Next]_vars => AddressTypeInv'
<1>. SUFFICES ASSUME AddressTypeInv, [Next]_vars PROVE AddressTypeInv'
  OBVIOUS
<1>1. CASE UNCHANGED vars
  BY <1>1 DEF vars, locals, history, AddressTypeInv, EditsTyped, PosInRange,
              MoreChanges
<1>2. QED
  BY <1>1, CommitTyped, TurnTyped, EndTyped DEF Next

\* The types hold at first.
LEMMA AddressTypeInit == Init => AddressTypeInv
<1>. SUFFICES ASSUME Init PROVE AddressTypeInv
  OBVIOUS
<1>1. EditsTyped /\ PosInRange
  BY IetfAddressAssumption DEF Init, EditsTyped, PosInRange, MoreChanges
<1>2. QED
  BY <1>1, FreshTyped DEF Init, AddressTypeInv

\* Type correctness: the locals that are left over from one list entry to the
\* next never put a binding of an unknown interface, an empty address or a
\* length beyond 32 into VPP.
THEOREM AddressTypes == Spec => []TypeOK
<1>1. AddressTypeInv => TypeOK
  <2>. SUFFICES ASSUME AddressTypeInv PROVE TypeOK
    OBVIOUS
  <2>1. Len(edits) \in 0..MaxEdits
    BY IetfAddressAssumption DEF AddressTypeInv, EditsTyped
  <2>2. pos[1] \in 1..MaxEdits + 1 /\ pos[2] \in 1..3
    <3>1. pos[2] \in 1..3
      <4>1. CASE MoreChanges
        BY <4>1, ThisChangeAt DEF AddressTypeInv
      <4>2. CASE ~MoreChanges
        BY <4>2 DEF AddressTypeInv, PosInRange
      <4>3. QED
        BY <4>1, <4>2
    <3>2. QED
      BY <2>1, <3>1, IetfAddressAssumption DEF AddressTypeInv, PosInRange
  <2>3. pos \in (1..MaxEdits + 1) \X (1..3)
    BY <2>2 DEF AddressTypeInv, PosInRange
  <2>4. \A v \in {new, old} : /\ v.addr \in Addrs \cup {NoAddr}
                              /\ v.len \in 0..32 /\ v.acts \in BOOLEAN
    BY DEF AddressTypeInv, Locals
  <2>5. \A b \in vpp \cup before : b \in Known \X Addrs \X (0..32)
    BY DEF AddressTypeInv, Bindings
  <2>6. QED
    BY <2>1, <2>3, <2>4, <2>5 DEF AddressTypeInv, TypeOK
<1>2. QED
  BY <1>1, AddressTypeInit, AddressTypeStep, PTL DEF Spec

-----------------------------------------------------------------------------
(***************************************************************************)
(* What commits of additions and deletions keep.                           *)
(***************************************************************************)
EditsPlain ==
  \A i \in DOMAIN edits : edits[i][1] \in {"add", "delete"} /\ edits[i][2] = edits[i][3]

KeysOnce ==
  \A i, j \in DOMAIN edits : SameKey(edits[i][3], edits[j][3]) => i = j

\* One kind of edits, or one interface.
Separate ==
  \/ \A i, j \in DOMAIN edits : edits[i][1] = edits[j][1]
  \/ \A i, j \in DOMAIN edits : edits[i][3].if = edits[j][3].if

\* The address the callback removes bindings of is one that a deletion of the
\* commit has named, its own while a deletion is being read.
OldDeleted ==
  pc = "loop" =>
    /\ old.addr \in Addrs =>
         \E d \in DOMAIN edits : edits[d][1] = "delete" /\ edits[d][3].addr = old.addr
    /\ MoreChanges /\ pos[2] = 3 /\ edits[pos[1]][1] = "delete" =>
         old.addr = edits[pos[1]][3].addr

\* The address it adds bindings of is that of the addition being read.
NewAdded ==
  pc = "loop" /\ MoreChanges /\ pos[2] = 3 /\ edits[pos[1]][1] = "add" =>
    new.addr = edits[pos[1]][3].addr

Untouched == {e \in running : \A i \in DOMAIN edits : ~SameKey(e, edits[i][3])}

\* The bindings of the entries a commit is not about stay, and those of the
\* additions it has read are there.
BoundKept ==
  pc \in {"loop", "verified"} /\ kept /\ Separate =>
    /\ \A e \in Untouched : Written(e) \in vpp
    /\ ~failed \/ (Len(edits) = 1 /\ op_rc = "OK") =>
         \A i \in DOMAIN edits :
           i < pos[1] /\ edits[i][1] = "add" => Written(edits[i][3]) \in vpp

Begun == pc # "idle" => Len(edits) >= 1

BoundAtStart ==
  /\ kept => \A e \in running : Written(e) \in before
  /\ pc = "idle" => before = vpp

Decided == pc = "verified" => op_rc = "OK" /\ ~MoreChanges

BoundInv ==
  /\ AddressTypeInv /\ EditsPlain /\ KeysOnce /\ OldDeleted /\ NewAdded
  /\ BoundKept /\ BoundAtStart /\ Begun /\ Decided

\* The plain edits of a client.
LEMMA EditsArePlain ==
  ASSUME "modify" \notin Kinds, NEW x \in Edits
  PROVE  x[1] \in {"add", "delete"} /\ x[2] = x[3]
<1>1. Kinds \cap {"modify"} = {}
  OBVIOUS
<1>2. QED
  BY <1>1 DEF Edits

\* A commit begins with what is bound at rest.
LEMMA BoundCommit ==
  ASSUME "modify" \notin Kinds, BoundInv, Commit
  PROVE  BoundInv'
<1>1. AddressTypeInv' /\ Begun'
  BY CommitTyped DEF BoundInv, Begun
<1>2. PICK k \in 1..MaxEdits :
        /\ edits' \in [1..k -> Edits]
        /\ \A i, j \in 1..k : SameKey(edits'[i][3], edits'[j][3]) => i = j
  BY DEF Commit
<1>3. EditsPlain' /\ KeysOnce'
  BY <1>2, EditsArePlain DEF EditsPlain, KeysOnce
<1>4. /\ pos' = <<1, 1>> /\ old' = Fresh /\ before' = vpp
      /\ pc = "idle" /\ pc' \in {"loop", "rejected"}
      /\ UNCHANGED <<running, vpp, kept>>
  BY DEF Commit, history
<1>5. OldDeleted' /\ NewAdded' /\ Decided'
  BY <1>4, IetfAddressAssumption DEF OldDeleted, NewAdded, Decided, Fresh
<1>6. kept => \A e \in running : Written(e) \in vpp
  BY <1>4 DEF BoundInv, BoundAtStart
<1>7. BoundAtStart'
  BY <1>4, <1>6 DEF BoundAtStart
<1>8. BoundKept'
  <2>1. \A i \in DOMAIN edits' : ~(i < pos'[1])
    BY <1>2, <1>4
  <2>2. Untouched' \subseteq running
    BY <1>4 DEF Untouched
  <2>3. QED
    BY <1>4, <1>6, <2>1, <2>2 DEF BoundKept
<1>9. QED
  BY <1>1, <1>3, <1>5, <1>7, <1>8 DEF BoundInv

\* Where a turn is: at one of the three changes of an addition or a deletion.
LEMMA PlainTurn ==
  ASSUME BoundInv, OneChange
  PROVE  LET e == edits[pos[1]]
         IN /\ e \in AllEdits /\ e[1] \in {"add", "delete"} /\ e[2] = e[3]
            /\ pos[1] \in DOMAIN edits /\ pos[2] \in 1..3
            /\ e[3].addr \in Addrs /\ ThisChange.if = e[3].if
            /\ pos' = IF pos[2] < 3 THEN <<pos[1], pos[2] + 1>> ELSE <<pos[1] + 1, 1>>
            /\ e[1] = "add" => old' = old /\ new' = Reads(new, pos[2], e[3])
            /\ e[1] = "delete" => new' = new /\ old' = Reads(old, pos[2], e[3])
<1>. DEFINE e == edits[pos[1]]
<1>1. NextChange /\ old' = OldAfter(ThisChange) /\ new' = NewAfter(ThisChange)
  BY OneTurn
<1>2. MoreChanges /\ AddressTypeInv
  BY <1>1 DEF NextChange, BoundInv
<1>3. /\ e \in AllEdits /\ pos[1] \in 1..Len(edits) /\ pos[2] \in 1..3
      /\ pos[2] \in 1..Len(ChangesOf(e)) /\ ThisChange = ChangesOf(e)[pos[2]]
  BY <1>2, ThisChangeAt DEF AddressTypeInv
<1>4. pos[1] \in DOMAIN edits
  BY <1>2, <1>3 DEF AddressTypeInv, EditsTyped
<1>5. e[1] \in {"add", "delete"} /\ e[2] = e[3]
  BY <1>4 DEF BoundInv, EditsPlain
<1>6. Len(ChangesOf(e)) = 3 /\ ThisChange.if = e[3].if
  BY <1>3, <1>5, ChangesShape
<1>7. e[3].addr \in Addrs
  BY <1>3, EditParts
<1>8. pos' = IF pos[2] < 3 THEN <<pos[1], pos[2] + 1>> ELSE <<pos[1] + 1, 1>>
  BY <1>1, <1>6 DEF NextChange
<1>9. /\ e[1] = "add" => old' = old /\ new' = Reads(new, pos[2], e[3])
      /\ e[1] = "delete" => new' = new /\ old' = Reads(old, pos[2], e[3])
  BY <1>1, <1>2, <1>5, LocalsAfter DEF AddressTypeInv
<1>10. QED
  BY <1>3, <1>4, <1>5, <1>6, <1>7, <1>8, <1>9

\* The addresses in the locals come from the right edits.
LEMMA LocalsTurn ==
  ASSUME BoundInv, OneChange
  PROVE  OldDeleted' /\ NewAdded'
<1>. DEFINE m == pos[1]
            j == pos[2]
            e == edits[m]
<1>1. /\ e[1] \in {"add", "delete"} /\ m \in DOMAIN edits /\ j \in 1..3
      /\ e[3].addr \in Addrs
      /\ pos' = IF j < 3 THEN <<m, j + 1>> ELSE <<m + 1, 1>>
      /\ e[1] = "add" => old' = old /\ new' = Reads(new, j, e[3])
      /\ e[1] = "delete" => new' = new /\ old' = Reads(old, j, e[3])
  BY PlainTurn
<1>2. pc = "loop" /\ MoreChanges /\ edits' = edits
  BY OneTurn DEF NextChange
<1>3. old \in Locals /\ new \in Locals
  BY DEF BoundInv, AddressTypeInv
<1>4. pos'[2] = 3 => j = 2 /\ pos'[1] = m
  BY <1>1
<1>. HIDE DEF e, m, j
<1>5. NewAdded'
  <2>. SUFFICES ASSUME pos'[2] = 3, edits[pos'[1]][1] = "add"
                PROVE  new'.addr = edits[pos'[1]][3].addr
    BY <1>2 DEF NewAdded
  <2>1. e[1] = "add" /\ j = 2 /\ pos'[1] = m
    BY <1>4 DEF e
  <2>2. new'.addr = e[3].addr
    BY <1>1, <1>3, <2>1, ReadsFields
  <2>3. QED
    BY <2>1, <2>2 DEF e
<1>6. ASSUME pos'[2] = 3, edits[pos'[1]][1] = "delete"
      PROVE  old'.addr = edits[pos'[1]][3].addr
  <2>1. e[1] = "delete" /\ j = 2 /\ pos'[1] = m
    BY <1>4, <1>6 DEF e
  <2>2. old'.addr = e[3].addr
    BY <1>1, <1>3, <2>1, ReadsFields
  <2>3. QED
    BY <2>1, <2>2 DEF e
<1>7. ASSUME old'.addr \in Addrs
      PROVE  \E d \in DOMAIN edits :
               edits[d][1] = "delete" /\ edits[d][3].addr = old'.addr
  <2>1. CASE old'.addr = old.addr
    BY <1>2, <1>7, <2>1 DEF BoundInv, OldDeleted
  <2>2. CASE old'.addr # old.addr
    <3>1. e[1] = "delete"
      BY <1>1, <2>2
    <3>2. j # 1 /\ j # 3
      BY <1>1, <1>3, <1>7, <2>2, <3>1, ReadsFields, IetfAddressAssumption
    <3>3. old'.addr = e[3].addr
      BY <1>1, <1>3, <3>1, <3>2, ReadsFields
    <3>4. QED
      BY <1>1, <3>1, <3>3 DEF e
  <2>3. QED
    BY <2>1, <2>2
<1>8. OldDeleted'
  BY <1>2, <1>6, <1>7 DEF OldDeleted
<1>9. QED
  BY <1>5, <1>8

\* What a turn removes has the key of a deletion of the commit, when the
\* commit has one kind of edits or one interface.
LEMMA RemovesDeleted ==
  ASSUME BoundInv, OneChange, Separate, Acts(old')
  PROVE  \E d \in DOMAIN edits : /\ edits[d][1] = "delete"
                                 /\ edits[d][3].if = ThisChange.if
                                 /\ edits[d][3].addr = old'.addr
<1>. DEFINE m == pos[1]
            j == pos[2]
            e == edits[m]
<1>1. /\ e[1] \in {"add", "delete"} /\ m \in DOMAIN edits /\ j \in 1..3
      /\ ThisChange.if = e[3].if
      /\ e[1] = "add" => old' = old
      /\ e[1] = "delete" => old' = Reads(old, j, e[3])
  BY PlainTurn
<1>2. pc = "loop" /\ MoreChanges
  BY OneTurn DEF NextChange
<1>3. old \in Locals /\ old'.addr # NoAddr
  BY DEF BoundInv, AddressTypeInv, Acts
<1>4. CASE e[1] = "delete"
  <2>1. j # 1
    BY <1>1, <1>3, <1>4, ReadsFields
  <2>2. j = 2 => old'.addr = e[3].addr
    BY <1>1, <1>3, <1>4, ReadsFields
  <2>3. j = 3 => old'.addr = e[3].addr
    <3>1. j = 3 => old'.addr = old.addr
      BY <1>1, <1>3, <1>4, ReadsFields
    <3>2. j = 3 => old.addr = e[3].addr
      BY <1>2, <1>4 DEF BoundInv, OldDeleted
    <3>3. QED
      BY <3>1, <3>2
  <2>4. old'.addr = e[3].addr
    BY <1>1, <2>1, <2>2, <2>3
  <2>5. QED
    BY <1>1, <1>4, <2>4
<1>5. CASE e[1] = "add"
  <2>1. old.addr \in Addrs /\ old'.addr = old.addr
    BY <1>1, <1>3, <1>5 DEF Locals
  <2>2. PICK d \in DOMAIN edits :
          edits[d][1] = "delete" /\ edits[d][3].addr = old.addr
    BY <1>2, <2>1 DEF BoundInv, OldDeleted
  <2>3. edits[d][3].if = e[3].if
    BY <1>1, <1>5, <2>2 DEF Separate
  <2>4. QED
    BY <1>1, <2>1, <2>2, <2>3
<1>6. QED
  BY <1>1, <1>4, <1>5

\* A turn takes one binding away at most.
LEMMA TurnKeeps ==
  ASSUME OneChange, NEW b \in vpp
  PROVE  b \in vpp' \/ (Acts(old') /\ b = <<ThisChange.if, old'.addr, old'.len>>)
<1>1. PICK w, rc : Removal(w, rc) /\ Addition(w, rc)
  BY OneTurn
<1>2. b \in w \/ (Acts(old') /\ b = <<ThisChange.if, old'.addr, old'.len>>)
  BY <1>1 DEF Removal
<1>3. w \subseteq vpp'
  BY <1>1 DEF Addition
<1>4. QED
  BY <1>2, <1>3

\* The last turn of an addition that succeeds leaves its binding in VPP.
LEMMA TurnBinds ==
  ASSUME BoundInv, OneChange, pos[2] = 3, edits[pos[1]][1] = "add", op_rc' = "OK"
  PROVE  Written(edits[pos[1]][3]) \in vpp'
<1>. DEFINE e == edits[pos[1]]
<1>1. e[3].addr \in Addrs /\ ThisChange.if = e[3].if /\ new' = Reads(new, 3, e[3])
  BY PlainTurn
<1>2. new \in Locals /\ new.addr = e[3].addr
  BY OneTurn DEF NextChange, BoundInv, AddressTypeInv, NewAdded
<1>3. new'.acts /\ new'.addr = e[3].addr /\ new'.len = PrefixLen(e[3])
  BY <1>1, <1>2, ReadsFields
<1>4. Acts(new')
  BY <1>1, <1>3, IetfAddressAssumption DEF Acts
<1>5. PICK w, rc : Addition(w, rc)
  BY OneTurn
<1>6. <<ThisChange.if, new'.addr, new'.len>> \in vpp'
  BY <1>4, <1>5 DEF Addition
<1>7. QED
  BY <1>1, <1>3, <1>6 DEF Written

\* A turn keeps what is bound.
LEMMA BoundTurn ==
  ASSUME BoundInv, OneChange
  PROVE  BoundInv'
<1>. DEFINE m == pos[1]
            e == edits[m]
<1>1. /\ pc = "loop" /\ MoreChanges
      /\ failed' = (failed \/ op_rc' # "OK")
      /\ UNCHANGED <<running, edits, pc, before, kept, clean>>
  BY OneTurn DEF NextChange
<1>2. /\ AddressTypeInv' /\ EditsPlain' /\ KeysOnce' /\ OldDeleted' /\ NewAdded'
      /\ Begun' /\ Decided' /\ BoundAtStart'
  <2>1. EditsPlain' /\ KeysOnce' /\ Begun' /\ Decided' /\ BoundAtStart'
    BY <1>1 DEF BoundInv, EditsPlain, KeysOnce, Begun, Decided, BoundAtStart
  <2>2. QED
    BY <2>1, TurnTyped, LocalsTurn DEF BoundInv
<1>3. BoundKept'
  <2>. SUFFICES ASSUME kept, Separate
                PROVE  /\ \A f \in Untouched : Written(f) \in vpp'
                       /\ ~failed' \/ (Len(edits) = 1 /\ op_rc' = "OK") =>
                            \A i \in DOMAIN edits :
                              i < pos'[1] /\ edits[i][1] = "add" =>
                                Written(edits[i][3]) \in vpp'
    BY <1>1 DEF BoundKept, Separate, Untouched
  <2>1. /\ \A f \in Untouched : Written(f) \in vpp
        /\ ~failed \/ (Len(edits) = 1 /\ op_rc = "OK") =>
             \A i \in DOMAIN edits :
               i < pos[1] /\ edits[i][1] = "add" => Written(edits[i][3]) \in vpp
    BY <1>1 DEF BoundInv, BoundKept
  <2>2. ASSUME NEW f, Written(f) \in vpp, Written(f) \notin vpp'
        PROVE  \E d \in DOMAIN edits : edits[d][1] = "delete" /\ SameKey(f, edits[d][3])
    <3>1. Acts(old') /\ Written(f) = <<ThisChange.if, old'.addr, old'.len>>
      BY <2>2, TurnKeeps
    <3>2. f.if = ThisChange.if /\ f.addr = old'.addr
      BY <3>1 DEF Written
    <3>3. QED
      BY <3>1, <3>2, RemovesDeleted DEF SameKey
  <2>3. \A f \in Untouched : Written(f) \in vpp'
    BY <2>1, <2>2 DEF Untouched
  <2>4. ASSUME ~failed' \/ (Len(edits) = 1 /\ op_rc' = "OK"),
               NEW i \in DOMAIN edits, i < pos'[1], edits[i][1] = "add"
        PROVE  Written(edits[i][3]) \in vpp'
    <3>1. op_rc' = "OK"
      BY <1>1, <2>4
    <3>2. /\ m \in DOMAIN edits /\ pos[2] \in 1..3
          /\ pos' = IF pos[2] < 3 THEN <<m, pos[2] + 1>> ELSE <<m + 1, 1>>
      BY PlainTurn
    <3>3. edits \in Seq(AllEdits) /\ DOMAIN edits = 1..Len(edits) /\ Len(edits) \in Nat
      BY DEF BoundInv, AddressTypeInv, EditsTyped
    <3>4. i < m \/ (i = m /\ pos[2] = 3)
      BY <2>4, <3>2, <3>3
    <3>5. CASE i < m
      <4>1. Len(edits) # 1
        BY <3>2, <3>3, <3>5
      <4>2. ~failed
        BY <1>1, <2>4, <4>1
      <4>3. Written(edits[i][3]) \in vpp
        BY <2>1, <2>4, <3>5, <4>2
      <4>4. \A d \in DOMAIN edits : SameKey(edits[i][3], edits[d][3]) => d = i
        BY DEF BoundInv, KeysOnce
      <4>5. QED
        BY <2>2, <2>4, <4>3, <4>4
    <3>6. CASE i = m /\ pos[2] = 3
      BY <2>4, <3>1, <3>6, TurnBinds
    <3>7. QED
      BY <3>4, <3>5, <3>6
  <2>5. QED
    BY <2>3, <2>4
<1>4. QED
  BY <1>2, <1>3 DEF BoundInv

\* The end of a commit: what it leaves bound is what RUNNING asks for.
LEMMA BoundEnd ==
  ASSUME BoundInv, Return \/ Abort \/ Apply \/ Refuse
  PROVE  BoundInv'
<1>1. AddressTypeInv'
  BY EndTyped DEF BoundInv
<1>2. CASE Return \/ Abort
  <2>1. /\ UNCHANGED <<running, edits, pos, old, new, op_rc, vpp, before, failed, kept>>
        /\ pc' \in {"verified", "rejected", "aborted"}
        /\ pc \in {"loop", "verified"}
        /\ pc' = "verified" => op_rc = "OK" /\ ~MoreChanges
    BY <1>2 DEF Return, Abort, locals, history
  <2>2. EditsPlain' /\ KeysOnce' /\ OldDeleted' /\ NewAdded' /\ BoundAtStart' /\ Begun'
    BY <2>1 DEF BoundInv, EditsPlain, KeysOnce, OldDeleted, NewAdded,
                BoundAtStart, Begun
  <2>3. Decided'
    BY <2>1 DEF Decided, MoreChanges
  <2>4. BoundKept'
    BY <2>1 DEF BoundInv, BoundKept, Separate, Untouched
  <2>5. QED
    BY <1>1, <2>2, <2>3, <2>4 DEF BoundInv
<1>3. CASE Apply \/ Refuse
  <2>1. pc' = "idle" /\ edits' = <<>> /\ before' = vpp /\ vpp' = vpp
    BY <1>3 DEF Apply, Refuse, EndCommit
  <2>2. /\ EditsPlain' /\ KeysOnce' /\ OldDeleted' /\ NewAdded' /\ Begun'
        /\ Decided' /\ BoundKept'
    BY <2>1 DEF EditsPlain, KeysOnce, OldDeleted, NewAdded, Begun, Decided, BoundKept
  <2>3. kept' => \A f \in running' : Written(f) \in vpp
    <3>1. CASE Refuse
      <4>1. running' = running /\ (kept' => kept /\ before \subseteq vpp)
        BY <3>1 DEF Refuse, EndCommit
      <4>2. QED
        BY <4>1 DEF BoundInv, BoundAtStart
    <3>2. CASE Apply
      <4>. SUFFICES ASSUME kept' PROVE \A f \in Candidate : Written(f) \in vpp
        BY <3>2 DEF Apply, EndCommit
      <4>1. /\ pc = "verified" /\ kept
            /\ Len(edits) > 1 => ~failed /\ Separate
        BY <3>2 DEF Apply, Separate
      <4>2. op_rc = "OK" /\ ~MoreChanges /\ Len(edits) >= 1
        BY <4>1 DEF BoundInv, Decided, Begun
      <4>3. edits \in Seq(AllEdits) /\ DOMAIN edits = 1..Len(edits) /\ Len(edits) \in Nat
        BY DEF BoundInv, AddressTypeInv, EditsTyped
      <4>4. Separate /\ (~failed \/ (Len(edits) = 1 /\ op_rc = "OK"))
        <5>1. CASE Len(edits) > 1
          BY <4>1, <5>1
        <5>2. CASE Len(edits) = 1
          BY <4>2, <4>3, <5>2 DEF Separate
        <5>3. QED
          BY <4>2, <4>3, <5>1, <5>2
      <4>5. \A i \in DOMAIN edits : i < pos[1]
        BY <4>2, <4>3 DEF MoreChanges, BoundInv, AddressTypeInv, PosInRange
      <4>6. /\ \A f \in Untouched : Written(f) \in vpp
            /\ \A i \in DOMAIN edits : edits[i][1] = "add" => Written(edits[i][3]) \in vpp
        BY <4>1, <4>4, <4>5 DEF BoundInv, BoundKept
      <4>7. \A i \in DOMAIN edits : edits[i][1] # "delete" => edits[i][1] = "add"
        BY DEF BoundInv, EditsPlain
      <4>8. QED
        BY <4>6, <4>7 DEF Candidate, Untouched
    <3>3. QED
      BY <1>3, <3>1, <3>2
  <2>4. BoundAtStart'
    BY <2>1, <2>3 DEF BoundAtStart
  <2>5. QED
    BY <1>1, <2>2, <2>4 DEF BoundInv
<1>4. QED
  BY <1>2, <1>3

\* The invariant holds at first.
LEMMA BoundInit == Init => BoundInv
<1>. SUFFICES ASSUME Init PROVE BoundInv
  OBVIOUS
<1>1. AddressTypeInv
  BY AddressTypeInit
<1>2. /\ EditsPlain /\ KeysOnce /\ OldDeleted /\ NewAdded /\ BoundKept
      /\ BoundAtStart /\ Begun /\ Decided
  BY DEF Init, EditsPlain, KeysOnce, OldDeleted, NewAdded, BoundKept,
         BoundAtStart, Begun, Decided
<1>3. QED
  BY <1>1, <1>2 DEF BoundInv

\* Every step keeps it.
LEMMA BoundStep ==
  ASSUME "modify" \notin Kinds, BoundInv, [Next]_vars
  PROVE  BoundInv'
<1>1. CASE UNCHANGED vars
  <2>1. UNCHANGED <<running, edits, pos, new, old, op_rc, vpp, pc, before, failed, kept, clean>>
    BY <1>1 DEF vars, locals, history
  <2>2. AddressTypeInv'
    BY <1>1, AddressTypeStep DEF BoundInv
  <2>3. /\ EditsPlain' /\ KeysOnce' /\ OldDeleted' /\ NewAdded' /\ BoundKept'
        /\ BoundAtStart' /\ Begun' /\ Decided'
    BY <2>1 DEF BoundInv, EditsPlain, KeysOnce, OldDeleted, NewAdded, BoundKept,
                BoundAtStart, Begun, Decided, Separate, Untouched, MoreChanges
  <2>4. QED
    BY <2>2, <2>3 DEF BoundInv
<1>2. QED
  BY <1>1, BoundCommit, BoundTurn, BoundEnd DEF Next

\* RunningBound, as long as clients only add and delete entries: at rest
\* every address in RUNNING is bound in VPP with the length the client gave,
\* for commits of any number of edits of one kind or on one interface.
THEOREM RunningBoundSound ==
  ASSUME "modify" \notin Kinds PROVE Spec => []RunningBound
<1>1. BoundInv /\ [Next]_vars => BoundInv'
  BY BoundStep
<1>2. BoundInv => RunningBound
  <2>. SUFFICES ASSUME BoundInv, pc = "idle", kept, NEW e \in running, Exact(e)
                PROVE  Binding(e) \in vpp
    BY DEF RunningBound
  <2>1. e \in Entries /\ Written(e) \in vpp
    BY DEF BoundInv, BoundAtStart, AddressTypeInv
  <2>2. QED
    BY <2>1, WrittenExact
<1>3. QED
  BY <1>1, <1>2, BoundInit, PTL DEF Spec

-----------------------------------------------------------------------------
(***************************************************************************)
(* What is left over: commits of one edit.                                 *)
(***************************************************************************)
UniqueKeys == \A e, f \in running : SameKey(e, f) => e = f

\* The edits of a commit are about the datastore it found.
EditsApply ==
  \A i \in DOMAIN edits :
    /\ edits[i][1] = "delete" => edits[i][3] \in running
    /\ edits[i][1] = "add" => \A f \in running : ~SameKey(f, edits[i][3])

\* The binding is one that an entry of ds accounts for.
Covered(b, ds) ==
  \E e \in ds : e.if = b[1] /\ e.addr = b[2] /\ b[3] \in {0, PrefixLen(e)}

\* Of a commit of one edit the first n changes have been read at position p.
Seen(p, n) == p[1] > 1 \/ p[2] > n

\* A commit of one edit makes and takes bindings of its own key only, those
\* of length 0 first.
TraceOfOne ==
  pc \in {"loop", "verified"} /\ Len(edits) = 1 =>
    LET e == edits[1][3]
        At(l) == <<e.if, e.addr, l>>
    IN /\ edits[1][1] = "add" =>
            /\ before \subseteq vpp
            /\ vpp \subseteq before \cup {At(0), Written(e)}
            /\ ~Seen(pos, 3) => new.len = 0
            /\ ~old.acts
       /\ edits[1][1] = "delete" =>
            /\ vpp \subseteq before /\ ~new.acts
            /\ ~Seen(pos, 3) => old.len = 0
            /\ Seen(pos, 2) => At(0) \notin vpp \ lost
            /\ Seen(pos, 3) => Written(e) \notin vpp \ lost

\* What is still bound of the bindings the commit found, RUNNING accounts for.
CleanAtStart ==
  clean /\ (pc = "idle" \/ Len(edits) = 1) =>
    \A b \in (before \cap vpp) \ lost : Covered(b, running)

CleanInv == BoundInv /\ UniqueKeys /\ EditsApply /\ TraceOfOne /\ CleanAtStart

\* A commit begins with the bindings at rest.
LEMMA CleanCommit ==
  ASSUME CleanInv, Commit
  PROVE  UniqueKeys' /\ EditsApply' /\ TraceOfOne' /\ CleanAtStart'
<1>1. PICK k \in 1..MaxEdits : edits' \in [1..k -> Edits]
  BY DEF Commit
<1>2. /\ pos' = <<1, 1>> /\ old' = Fresh /\ new' = Fresh /\ before' = vpp
      /\ pc = "idle" /\ UNCHANGED <<running, vpp, clean, lost>>
  BY DEF Commit, history
<1>3. ASSUME NEW x \in Edits
      PROVE  /\ x[1] = "delete" => x[3] \in running
             /\ x[1] = "add" => \A f \in running : ~SameKey(f, x[3])
  BY DEF Edits, SameKey
<1>4. EditsApply' /\ UniqueKeys'
  BY <1>1, <1>2, <1>3 DEF EditsApply, UniqueKeys, CleanInv
<1>5. CleanAtStart'
  BY <1>2 DEF CleanInv, BoundInv, BoundAtStart, CleanAtStart, Covered
<1>6. TraceOfOne'
  <2>1. /\ ~Seen(pos', 2) /\ ~Seen(pos', 3) /\ new'.len = 0 /\ old'.len = 0
        /\ ~new'.acts /\ ~old'.acts /\ vpp' = before'
    BY <1>2 DEF Seen, Fresh
  <2>2. QED
    BY <2>1 DEF TraceOfOne
<1>7. QED
  BY <1>4, <1>5, <1>6

\* A turn of a single addition adds bindings of its own key only.
LEMMA TraceAdd ==
  ASSUME CleanInv, OneChange, Len(edits) = 1, edits[1][1] = "add"
  PROVE  LET e == edits[1][3]
         IN /\ before \subseteq vpp /\ vpp \subseteq vpp' /\ lost' = lost
            /\ vpp' \subseteq before \cup {<<e.if, e.addr, 0>>, Written(e)}
            /\ ~Seen(pos', 3) => new'.len = 0
            /\ ~old'.acts
<1>. DEFINE e == edits[1][3]
            j == pos[2]
            At(l) == <<e.if, e.addr, l>>
<1>1. pc = "loop" /\ MoreChanges /\ BoundInv /\ new \in Locals
  BY OneTurn DEF NextChange, CleanInv, BoundInv, AddressTypeInv
<1>2. pos[1] = 1
  BY <1>1, PlainTurn DEF MoreChanges, BoundInv, AddressTypeInv, PosInRange
<1>3. /\ j \in 1..3 /\ ThisChange.if = e.if /\ old' = old /\ new' = Reads(new, j, e)
      /\ pos' = IF j < 3 THEN <<1, j + 1>> ELSE <<2, 1>>
  BY <1>1, <1>2, PlainTurn
<1>4. /\ before \subseteq vpp
      /\ vpp \subseteq before \cup {At(0), Written(e)} /\ ~old.acts
      /\ ~Seen(pos, 3) => new.len = 0
  BY <1>1 DEF CleanInv, TraceOfOne
<1>5. j = 3 => new.addr = e.addr
  BY <1>1, <1>2 DEF BoundInv, NewAdded
<1>6. ~Seen(pos, 3)
  BY <1>2, <1>3 DEF Seen
<1>7. ~Seen(pos', 3) => j \in {1, 2}
  BY <1>3 DEF Seen
<1>8. ~Seen(pos', 3) => new'.len = 0
  BY <1>1, <1>3, <1>4, <1>6, <1>7, ReadsFields
<1>9. PICK w, rc : Removal(w, rc) /\ Addition(w, rc)
  BY OneTurn
<1>10. w = vpp /\ lost' = lost /\ vpp \subseteq vpp'
  <2>1. w = vpp /\ lost' = w \cap lost
    BY <1>3, <1>4, <1>9 DEF Removal, Acts
  <2>2. lost \subseteq vpp
    BY <1>1 DEF BoundInv, AddressTypeInv
  <2>3. QED
    BY <1>9, <2>1, <2>2 DEF Addition
<1>11. ASSUME Acts(new')
       PROVE  <<ThisChange.if, new'.addr, new'.len>> \in {At(0), Written(e)}
  <2>1. j # 1
    BY <1>1, <1>3, <1>11, ReadsFields DEF Acts
  <2>2. CASE j = 2
    <3>1. new'.addr = e.addr /\ new'.len = 0
      BY <1>1, <1>3, <1>4, <1>6, <2>2, ReadsFields
    <3>2. QED
      BY <1>3, <3>1
  <2>3. CASE j = 3
    <3>1. new'.addr = e.addr /\ new'.len = PrefixLen(e)
      BY <1>1, <1>3, <1>5, <2>3, ReadsFields
    <3>2. QED
      BY <1>3, <3>1 DEF Written
  <2>4. QED
    BY <1>3, <2>1, <2>2, <2>3
<1>12. vpp' \subseteq before \cup {At(0), Written(e)}
  BY <1>4, <1>9, <1>10, <1>11 DEF Addition
<1>13. QED
  BY <1>3, <1>4, <1>8, <1>10, <1>12

\* A turn of a single deletion takes bindings of its own key away.
LEMMA TraceDelete ==
  ASSUME CleanInv, OneChange, Len(edits) = 1, edits[1][1] = "delete"
  PROVE  LET e == edits[1][3]
         IN /\ vpp' \subseteq before /\ ~new'.acts
            /\ vpp' \ lost' \subseteq vpp \ lost
            /\ ~Seen(pos', 3) => old'.len = 0
            /\ Seen(pos', 2) => <<e.if, e.addr, 0>> \notin vpp' \ lost'
            /\ Seen(pos', 3) => Written(e) \notin vpp' \ lost'
<1>. DEFINE e == edits[1][3]
            j == pos[2]
            At(l) == <<e.if, e.addr, l>>
<1>1. pc = "loop" /\ MoreChanges /\ BoundInv /\ old \in Locals
  BY OneTurn DEF NextChange, CleanInv, BoundInv, AddressTypeInv
<1>2. pos[1] = 1
  BY <1>1, PlainTurn DEF MoreChanges, BoundInv, AddressTypeInv, PosInRange
<1>3. /\ j \in 1..3 /\ ThisChange.if = e.if /\ new' = new /\ old' = Reads(old, j, e)
      /\ e.addr \in Addrs
      /\ pos' = IF j < 3 THEN <<1, j + 1>> ELSE <<2, 1>>
  BY <1>1, <1>2, PlainTurn
<1>4. /\ vpp \subseteq before /\ ~new.acts
      /\ ~Seen(pos, 3) => old.len = 0
      /\ Seen(pos, 2) => At(0) \notin vpp \ lost
  BY <1>1 DEF CleanInv, TraceOfOne
<1>5. j = 3 => old.addr = e.addr
  BY <1>1, <1>2 DEF BoundInv, OldDeleted
<1>6. ~Seen(pos, 3) /\ (Seen(pos, 2) <=> j = 3)
  BY <1>2, <1>3 DEF Seen
<1>7. (Seen(pos', 3) <=> j = 3) /\ (Seen(pos', 2) <=> j \in {2, 3})
  BY <1>3 DEF Seen
<1>8. ~Seen(pos', 3) => old'.len = 0
  BY <1>1, <1>3, <1>4, <1>6, <1>7, ReadsFields
<1>9. PICK w, rc : Removal(w, rc) /\ Addition(w, rc)
  BY OneTurn
<1>10. vpp' = w /\ vpp' \subseteq vpp /\ vpp' \ lost' \subseteq vpp \ lost
  BY <1>3, <1>4, <1>9 DEF Addition, Removal, Acts
<1>11. ASSUME j \in {2, 3} PROVE At(old'.len) \notin vpp' \ lost'
  <2>1. old'.addr = e.addr /\ old'.acts
    BY <1>1, <1>3, <1>5, <1>11, ReadsFields
  <2>2. Acts(old')
    BY <1>3, <2>1, IetfAddressAssumption DEF Acts
  <2>3. CASE e.if \in Known
    BY <1>3, <1>9, <1>10, <2>1, <2>2, <2>3 DEF Removal
  <2>4. CASE e.if \notin Known
    <3>1. \A b \in vpp : b[1] \in Known
      BY <1>1 DEF BoundInv, AddressTypeInv, Bindings
    <3>2. QED
      BY <1>10, <2>4, <3>1
  <2>5. QED
    BY <2>3, <2>4
<1>12. Seen(pos', 2) => At(0) \notin vpp' \ lost'
  <2>1. CASE j = 2
    BY <1>7, <1>8, <1>11, <2>1
  <2>2. CASE j = 3
    BY <1>4, <1>6, <1>10, <2>2
  <2>3. QED
    BY <1>7, <2>1, <2>2
<1>13. Seen(pos', 3) => Written(e) \notin vpp' \ lost'
  <2>1. j = 3 => old'.len = PrefixLen(e)
    BY <1>1, <1>3, ReadsFields
  <2>2. QED
    BY <1>7, <1>11, <2>1 DEF Written
<1>14. QED
  BY <1>3, <1>4, <1>8, <1>10, <1>12, <1>13

\* A turn keeps the trace of a commit of one edit.
LEMMA CleanTurn ==
  ASSUME CleanInv, OneChange
  PROVE  UniqueKeys' /\ EditsApply' /\ TraceOfOne' /\ CleanAtStart'
<1>1. UNCHANGED <<running, edits, pc, before, clean>>
  BY DEF OneChange
<1>2. UniqueKeys' /\ EditsApply'
  BY <1>1 DEF CleanInv, UniqueKeys, EditsApply
<1>3. CleanAtStart'
  <2>. SUFFICES ASSUME clean, Len(edits) = 1, NEW b \in (before \cap vpp') \ lost'
                PROVE  Covered(b, running)
    BY <1>1, OneTurn DEF NextChange, CleanAtStart, Covered
  <2>1. edits[1][1] \in {"add", "delete"}
    <3>1. 1 \in DOMAIN edits
      BY DEF CleanInv, BoundInv, AddressTypeInv, EditsTyped
    <3>2. QED
      BY <3>1 DEF CleanInv, BoundInv, EditsPlain
  <2>2. b \in vpp \ lost
    <3>1. CASE edits[1][1] = "add"
      BY <3>1, TraceAdd
    <3>2. CASE edits[1][1] = "delete"
      BY <3>2, TraceDelete
    <3>3. QED
      BY <2>1, <3>1, <3>2
  <2>3. QED
    BY <2>2 DEF CleanInv, CleanAtStart
<1>4. TraceOfOne'
  <2>1. CASE Len(edits) = 1 /\ edits[1][1] = "add"
    BY <1>1, <2>1, TraceAdd DEF TraceOfOne
  <2>2. CASE Len(edits) = 1 /\ edits[1][1] = "delete"
    BY <1>1, <2>2, TraceDelete DEF TraceOfOne
  <2>3. CASE Len(edits) # 1 \/ edits[1][1] \notin {"add", "delete"}
    BY <1>1, <2>3 DEF TraceOfOne
  <2>4. QED
    BY <2>1, <2>2, <2>3
<1>5. QED
  BY <1>2, <1>3, <1>4

\* No two entries of RUNNING have the same key after a commit either.
LEMMA CandidateKeys ==
  ASSUME CleanInv
  PROVE  \A e, f \in Candidate : SameKey(e, f) => e = f
<1>. DEFINE Kept == {f \in running : \A i \in DOMAIN edits : ~SameKey(f, edits[i][3])}
            Put == {edits[i][3] : i \in {j \in DOMAIN edits : edits[j][1] # "delete"}}
<1>1. Candidate = Kept \cup Put
  BY DEF Candidate
<1>2. \A e, f \in Kept : SameKey(e, f) => e = f
  BY DEF CleanInv, UniqueKeys
<1>3. \A e \in Kept, f \in Put : ~SameKey(e, f) /\ ~SameKey(f, e)
  BY DEF SameKey
<1>4. \A e, f \in Put : SameKey(e, f) => e = f
  BY DEF CleanInv, BoundInv, KeysOnce
<1>. HIDE DEF Kept, Put
<1>5. QED
  BY <1>1, <1>2, <1>3, <1>4

\* What a commit of one edit leaves bound, the new RUNNING accounts for.
LEMMA AppliedClean ==
  ASSUME CleanInv, pc = "verified", clean, Len(edits) = 1
  PROVE  \A b \in vpp \ lost : Covered(b, Candidate)
<1>. DEFINE e == edits[1][3]
<1>1. DOMAIN edits = {1} /\ edits[1][1] \in {"add", "delete"}
  <2>1. edits \in Seq(AllEdits) /\ DOMAIN edits = 1..Len(edits)
    BY DEF CleanInv, BoundInv, AddressTypeInv, EditsTyped
  <2>2. DOMAIN edits = {1}
    BY <2>1
  <2>3. QED
    BY <2>2 DEF CleanInv, BoundInv, EditsPlain
<1>2. Seen(pos, 2) /\ Seen(pos, 3)
  BY DEF CleanInv, BoundInv, Decided, MoreChanges, AddressTypeInv, PosInRange, Seen
<1>3. \A b \in (before \cap vpp) \ lost : Covered(b, running)
  BY DEF CleanInv, CleanAtStart
<1>4. CASE edits[1][1] = "add"
  <2>1. vpp \subseteq before \cup {<<e.if, e.addr, 0>>, Written(e)}
    BY <1>4 DEF CleanInv, TraceOfOne
  <2>2. running \subseteq Candidate /\ e \in Candidate
    BY <1>1, <1>4 DEF CleanInv, EditsApply, Candidate
  <2>3. ASSUME NEW b \in (before \cap vpp) \ lost PROVE Covered(b, Candidate)
    BY <1>3, <2>2 DEF Covered
  <2>4. Covered(<<e.if, e.addr, 0>>, Candidate) /\ Covered(Written(e), Candidate)
    BY <2>2 DEF Covered, Written
  <2>5. QED
    BY <2>1, <2>3, <2>4
<1>5. CASE edits[1][1] = "delete"
  <2>1. /\ vpp \subseteq before
        /\ <<e.if, e.addr, 0>> \notin vpp \ lost /\ Written(e) \notin vpp \ lost
    BY <1>2, <1>5 DEF CleanInv, TraceOfOne
  <2>2. ASSUME NEW b \in vpp \ lost PROVE Covered(b, Candidate)
    <3>1. PICK f \in running :
            f.if = b[1] /\ f.addr = b[2] /\ b[3] \in {0, PrefixLen(f)}
      BY <1>3, <2>1 DEF Covered
    <3>2. b = <<b[1], b[2], b[3]>>
      BY DEF CleanInv, BoundInv, AddressTypeInv, Bindings
    <3>3. ~SameKey(f, e)
      <4>. SUFFICES ASSUME SameKey(f, e) PROVE FALSE
        OBVIOUS
      <4>1. f = e
        BY <1>1, <1>5, <3>1 DEF CleanInv, UniqueKeys, EditsApply
      <4>2. b = <<e.if, e.addr, 0>> \/ b = Written(e)
        BY <3>1, <3>2, <4>1 DEF Written
      <4>3. QED
        BY <2>1, <4>2
    <3>4. f \in Candidate
      BY <1>1, <3>3 DEF Candidate
    <3>5. QED
      BY <3>1, <3>4 DEF Covered
  <2>3. QED
    BY <2>2
<1>6. QED
  BY <1>1, <1>4, <1>5

\* The end of a commit: nothing is left over as long as it is clean.
LEMMA CleanEnd ==
  ASSUME CleanInv, Return \/ Abort \/ Apply \/ Refuse
  PROVE  UniqueKeys' /\ EditsApply' /\ TraceOfOne' /\ CleanAtStart'
<1>1. CASE Return \/ Abort
  <2>1. /\ UNCHANGED <<running, edits, pos, new, old, vpp, before, clean, lost>>
        /\ pc' # "idle"
        /\ pc \in {"loop", "verified"}
    BY <1>1 DEF Return, Abort, locals, history
  <2>2. UniqueKeys' /\ EditsApply' /\ CleanAtStart'
    BY <2>1 DEF CleanInv, UniqueKeys, EditsApply, CleanAtStart, Covered
  <2>3. TraceOfOne'
    BY <2>1 DEF CleanInv, TraceOfOne
  <2>4. QED
    BY <2>2, <2>3
<1>2. CASE Apply \/ Refuse
  <2>1. /\ pc' = "idle" /\ edits' = <<>> /\ before' = vpp
        /\ UNCHANGED <<vpp, lost>>
    BY <1>2 DEF Apply, Refuse, EndCommit
  <2>2. EditsApply' /\ TraceOfOne'
    BY <2>1 DEF EditsApply, TraceOfOne
  <2>3. CASE Apply
    <3>1. /\ running' = Candidate /\ pc = "verified"
          /\ clean' => clean /\ Len(edits) = 1
      BY <2>3 DEF Apply, EndCommit
    <3>2. UniqueKeys'
      BY <3>1, CandidateKeys DEF UniqueKeys
    <3>3. CleanAtStart'
      <4>1. clean' => \A b \in vpp \ lost : Covered(b, Candidate)
        BY <3>1, AppliedClean
      <4>2. QED
        BY <2>1, <3>1, <4>1 DEF CleanAtStart
    <3>4. QED
      BY <2>2, <3>2, <3>3
  <2>4. CASE Refuse
    <3>1. /\ running' = running
          /\ clean' => clean /\ vpp = before /\ Len(edits) = 1
      BY <2>4 DEF Refuse, EndCommit
    <3>2. UniqueKeys' /\ CleanAtStart'
      BY <2>1, <3>1 DEF CleanInv, UniqueKeys, CleanAtStart, Covered
    <3>3. QED
      BY <2>2, <3>2
  <2>5. QED
    BY <1>2, <2>3, <2>4
<1>3. QED
  BY <1>1, <1>2

\* The invariant holds at first.
LEMMA CleanInit == Init => CleanInv
<1>1. Init => UniqueKeys /\ EditsApply /\ TraceOfOne /\ CleanAtStart
  BY DEF Init, UniqueKeys, EditsApply, TraceOfOne, CleanAtStart
<1>2. QED
  BY <1>1, BoundInit DEF CleanInv

\* Every step keeps it.
LEMMA CleanStep ==
  ASSUME "modify" \notin Kinds, CleanInv, [Next]_vars
  PROVE  CleanInv'
<1>1. BoundInv'
  BY BoundStep DEF CleanInv
<1>2. CASE UNCHANGED vars
  <2>1. UNCHANGED <<running, edits, pos, new, old, vpp, pc, before, clean, lost>>
    BY <1>2 DEF vars, locals, history
  <2>2. UniqueKeys' /\ EditsApply' /\ TraceOfOne' /\ CleanAtStart'
    BY <2>1 DEF CleanInv, UniqueKeys, EditsApply, TraceOfOne, CleanAtStart, Covered
  <2>3. QED
    BY <1>1, <2>2 DEF CleanInv
<1>3. CASE Next
  <2>1. UniqueKeys' /\ EditsApply' /\ TraceOfOne' /\ CleanAtStart'
    BY <1>3, CleanCommit, CleanTurn, CleanEnd DEF Next
  <2>2. QED
    BY <1>1, <2>1 DEF CleanInv
<1>4. QED
  BY <1>2, <1>3

\* NothingLeftOver, as long as clients only add and delete entries: while
\* commits have one edit and those that fail leave no trace, VPP has bindings
\* of the addresses in RUNNING only, and those whose removal was lost.
THEOREM NothingLeftOverSound ==
  ASSUME "modify" \notin Kinds PROVE Spec => []NothingLeftOver
<1>1. CleanInv /\ [Next]_vars => CleanInv'
  BY CleanStep
<1>2. CleanInv => NothingLeftOver
  <2>. SUFFICES ASSUME CleanInv, pc = "idle", clean, NEW b \in vpp \ lost
                PROVE  \E e \in running : /\ e.if = b[1] /\ e.addr = b[2]
                                          /\ Exact(e) => b[3] \in {0, e.len}
    BY DEF NothingLeftOver
  <2>1. PICK e \in running :
          e.if = b[1] /\ e.addr = b[2] /\ b[3] \in {0, PrefixLen(e)}
    BY DEF CleanInv, BoundInv, BoundAtStart, CleanAtStart, Covered
  <2>2. Exact(e) => PrefixLen(e) = e.len
    BY WrittenExact DEF CleanInv, BoundInv, AddressTypeInv
  <2>3. QED
    BY <2>1, <2>2
<1>3. QED
  BY <1>1, <1>2, CleanInit, PTL DEF Spec
=============================================================================
