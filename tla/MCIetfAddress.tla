--------------------------- MODULE MCIetfAddress ---------------------------
(***************************************************************************)
(* Instances of IetfAddress: two addresses on an interface of VOM, one of  *)
(* them also on another and on a name VOM does not know, prefix lengths,   *)
(* and netmasks that are and are not whole bytes.                          *)
(***************************************************************************)
EXTENDS IetfAddress, FiniteSets

OneIf    == {"eth0"} \X {"a1", "a2"}
TwoIfs   == OneIf \cup {<<"eth1", "a1">>}
ThreeIfs == TwoIfs \cup {<<"ghost", "a1">>}

Plain == {"prefix-length"} \X {24, 25}
Masks == {"netmask"} \X {16, 25}
Mixed == {<<"prefix-length", 25>>, <<"netmask", 16>>}

\* netmask_to_plen() on all contiguous masks: whole bytes, rounded up.
ASSUME PlenRoundsUp ==
  \A len \in 0..32 : NetmaskToPlen(len) = 8 * ((len + 7) \div 8)

\* The properties are about behaviours in which nothing was taken away.  Of
\* the removals that do not reach VPP, the two of one deletion are enough, and
\* after a commit of several edits, of which only RunningBound speaks, none.
WhileKept ==
  /\ kept /\ Cardinality(lost) <= 2
  /\ ~clean /\ pc = "idle" => lost = {}
=============================================================================
