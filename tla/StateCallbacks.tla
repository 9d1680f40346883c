--------------------------- MODULE StateCallbacks ---------------------------
(***************************************************************************)
(* The callbacks that answer requests for operational state:               *)
(* ietf_interface_state_cb() and interface_statistics_cb() of              *)
(* ietf_interface.cpp, oc_interfaces_state_cb() of                         *)
(* openconfig_interfaces.cpp and nat_cap_state_cb() of ietf_nat.cpp, with  *)
(* the dump command of vpp-oper/interface.cpp.                             *)
(*                                                                         *)
(* A callback allocates an array of values, fills it and hands it to       *)
(* sysrepo.  Two of them ask VPP for its interfaces first: VPP sends one   *)
(* detail message per interface, which VOM's receiving thread appends to   *)
(* the dump, while VPP may die at any moment.  The connection then leads   *)
(* to a dead process, whether or not a new one runs, until the health      *)
(* check on the daemon's timer closes it and connects again.  What a value *)
(* says is left out; that there is room for it and what interface it is    *)
(* about is not.                                                           *)
(***************************************************************************)
EXTENDS Naturals, FiniteSets

CONSTANTS
  Ifs,      \* interfaces of VPP
  Names,    \* interface names a client may ask for; "" when the path has none
  VomIfs,   \* the names VOM has an object for
  Matches   \* Matches[n]: the interfaces that VPP's name filter lets through
            \* when it is given the name n

ASSUME StateCallbacksAssumption ==
  /\ IsFiniteSet(Ifs) /\ Ifs \subseteq Names /\ "" \in Names \ Ifs
  /\ Matches \in [Names -> SUBSET Ifs] /\ \A i \in Ifs : i \in Matches[i]

VARIABLES
  vppIfs,       \* the interfaces VPP has now, none while it is down
  conn,         \* the VAPI connection: "live", "stale" when it leads to a
                \* process that is gone, "none" while it is closed
  sent,         \* details VPP has still to send for the dump
  done,         \* VPP's last message for the dump has been received
  dump,         \* details received
  cb, name,     \* the request: the callback, and the name in the path
  pc,           \* where the callback stands
  alloc,        \* size of the array allocated
  cnt,          \* values written to it
  values,       \* output argument: "unset", "null" or "array"
  values_cnt,   \* output argument
  about,        \* the interfaces the answer is about
  rc,           \* what the callback returned
  steady        \* history: the interfaces VPP has had, and the connection
                \* has reached, since the request came

vppVars == <<vppIfs, conn>>
dumpVars == <<sent, done, dump>>
outVars == <<alloc, cnt, values, values_cnt, about, rc>>
vars == <<vppVars, dumpVars, cb, name, pc, outVars, steady>>

Callbacks == {"ietf", "statistics", "oc", "nat"}
Garbage == "garbage"   \* stands for what is read past the end of the dump

Init ==
  /\ vppIfs = Ifs /\ conn = "live" /\ sent = {} /\ done = FALSE /\ dump = {}
  /\ cb = "nat" /\ name = "" /\ pc = "returned"
  /\ alloc = 0 /\ cnt = 0 /\ values = "null" /\ values_cnt = 0 /\ about = {}
  /\ rc = "OK" /\ steady = {}

-----------------------------------------------------------------------------
(***************************************************************************)
(* VPP and the thread that receives its messages.                          *)
(***************************************************************************)
Receive(i) ==
  /\ i \in sent
  /\ sent' = sent \ {i} /\ dump' = dump \cup {i}
  /\ UNCHANGED <<vppVars, done, cb, name, pc, outVars, steady>>

ReceiveLast ==
  /\ pc = "wait" /\ sent = {} /\ ~done
  /\ done' = TRUE
  /\ UNCHANGED <<vppVars, sent, dump, cb, name, pc, outVars, steady>>

\* The connection breaks or is closed: the rest of the dump is lost, and the
\* wait ends with an error.
Lose(c) ==
  /\ conn' = c
  /\ sent' = {} /\ done' = TRUE /\ steady' = {}
  /\ UNCHANGED <<dump, cb, name, pc, outVars>>

VppDies ==
  /\ vppIfs # {}
  /\ vppIfs' = {}
  /\ Lose(IF conn = "live" THEN "stale" ELSE conn)

\* A new process; the connection does not lead to it.
VppStarts ==
  /\ vppIfs = {}
  /\ vppIfs' = Ifs
  /\ UNCHANGED <<conn, dumpVars, cb, name, pc, outVars, steady>>

(***************************************************************************)
(* sr_plugin_health_check_cb(), on another thread: the pid is not the one  *)
(* saved, which is also the case once after a check that found no VPP, so  *)
(* that a live connection may be closed too.                               *)
(***************************************************************************)
Disconnect ==
  /\ pc # "crashed" /\ conn # "none"
  /\ Lose("none")
  /\ UNCHANGED vppIfs

\* while (HW::connect() != true)
Connect ==
  /\ pc # "crashed" /\ conn = "none" /\ vppIfs # {}
  /\ conn' = "live"
  /\ UNCHANGED <<vppIfs, dumpVars, cb, name, pc, outVars, steady>>

-----------------------------------------------------------------------------
(***************************************************************************)
(* The callbacks.                                                          *)
(***************************************************************************)
Answer(r, v, n) ==
  pc' = "returned" /\ rc' = r /\ values' = v /\ values_cnt' = n

Goto(stage) ==
  pc' = stage /\ rc' = "OK" /\ values' = "unset" /\ values_cnt' = 0

\* The interfaces a dump would find now.
Reached == IF conn = "live" THEN vppIfs ELSE {}

\* The checks on entry.  ietf answers for the node interface only; a name
\* that VOM does not have gives empty statistics.  Without a name,
\* sr_xpath_key_value() may have returned a null pointer, and to assign that
\* to a string ends the daemon before the string is tested.
Call(c, n) ==
  /\ pc = "returned"
  /\ cb' = c /\ name' = n
  /\ alloc' = 0 /\ cnt' = 0 /\ about' = {}
  /\ steady' = Reached
  /\ CASE c \in {"oc", "statistics"} /\ n = "" ->
              Answer("INVAL_ARG", "unset", 0) \/ Goto("crashed")
       [] c = "ietf" /\ n = "" -> Answer("OK", "null", 0)
       [] c = "statistics" /\ n # "" /\ n \notin VomIfs -> Answer("OK", "null", 0)
       [] OTHER -> Goto(IF c = "ietf" THEN "issue" ELSE "alloc")
  /\ UNCHANGED <<vppVars, dumpVars>>

\* mutant: one interface more, but not all of its values
RoomOne == [ietf |-> Cardinality(dump) + 6, oc |-> 7, statistics |-> 8, nat |-> 1]

\* The number of values a callback asks sr_new_values() for.
Room ==
  [ietf |-> (Cardinality(dump) + 1) * 6, oc |-> 7, statistics |-> 8, nat |-> 1]

Allocate ==
  /\ pc = "alloc"
  /\ alloc' = Room[cb]
  /\ pc' = IF cb = "oc" THEN "issue" ELSE "fill"
  /\ UNCHANGED <<vppVars, dumpVars, cb, name, cnt, values, values_cnt, about,
                 rc, steady>>

\* sr_new_values() fails; openconfig leaves the output arguments alone.
AllocateFails ==
  /\ pc = "alloc"
  /\ Answer("NOMEM", IF cb = "oc" THEN "unset" ELSE "null", 0)
  /\ UNCHANGED <<vppVars, dumpVars, cb, name, alloc, cnt, about, steady>>

\* The details VPP sends: with a name only of what its filter lets through.
Details == IF cb = "oc" THEN Reached \cap Matches[name] ELSE Reached

\* interface_dump::issue(): a stale connection brings nothing but the end of
\* the wait.
Issue ==
  /\ pc = "issue" /\ conn # "none"
  /\ sent' = Details /\ dump' = {} /\ done' = (conn = "stale")
  /\ pc' = "wait"
  /\ UNCHANGED <<vppVars, cb, name, outVars, steady>>

AfterDump == IF cb = "oc" THEN "fill" ELSE "alloc"

\* HW::write() while the connection is closed: the dump is never issued.
NotIssued ==
  /\ pc = "issue" /\ conn = "none"
  /\ dump' = {}
  /\ pc' = AfterDump
  /\ UNCHANGED <<vppVars, sent, done, cb, name, outVars, steady>>

\* mutant: the command does not wait
WaitNot ==
  /\ pc = "wait"
  /\ pc' = AfterDump
  /\ UNCHANGED <<vppVars, dumpVars, cb, name, outVars, steady>>

\* wait(), and back to the callback; the result of the dump is not looked at.
Wait ==
  /\ pc = "wait" /\ done
  /\ pc' = AfterDump
  /\ UNCHANGED <<vppVars, dumpVars, cb, name, outVars, steady>>

\* mutant: one value is counted that was not written
HandMiscounts(n, ifs) ==
  /\ cnt' = n
  /\ about' = ifs
  /\ Answer("OK", "array", n + 1)
  /\ UNCHANGED <<vppVars, dumpVars, cb, name, alloc, steady>>

\* The values are written, and the array handed over.
Hand(n, ifs) ==
  /\ cnt' = n
  /\ about' = ifs
  /\ Answer("OK", "array", n)
  /\ UNCHANGED <<vppVars, dumpVars, cb, name, alloc, steady>>

\* Five values per interface of the dump.
FillIetf == pc = "fill" /\ cb = "ietf" /\ Hand(5 * Cardinality(dump), dump)

FillStatistics == pc = "fill" /\ cb = "statistics" /\ Hand(8, {name})

FillNat == pc = "fill" /\ cb = "nat" /\ Hand(1, {})

\* dump->begin(): the first detail, whatever the name in it.
FillOc == pc = "fill" /\ cb = "oc" /\ \E i \in dump : Hand(7, {i})

\* dump->begin() of an empty dump is dereferenced.
FillOcGarbage == pc = "fill" /\ cb = "oc" /\ dump = {} /\ Hand(7, {Garbage})

FillOcCrashes ==
  /\ pc = "fill" /\ cb = "oc" /\ dump = {}
  /\ pc' = "crashed"
  /\ UNCHANGED <<vppVars, dumpVars, cb, name, outVars, steady>>

\* The daemon is started again, and connects before it serves requests.
Restart ==
  /\ pc = "crashed" /\ vppIfs # {}
  /\ conn' = "live"
  /\ Answer("OK", "null", 0)
  /\ cb' = "nat" /\ name' = "" /\ steady' = {}
  /\ alloc' = 0 /\ cnt' = 0 /\ about' = {}
  /\ UNCHANGED <<vppIfs, dumpVars>>

Next ==
  \/ (\E i \in Ifs : Receive(i)) \/ ReceiveLast \/ VppDies \/ VppStarts
  \/ Disconnect \/ Connect
  \/ \E c \in Callbacks, n \in Names : Call(c, n)
  \/ Allocate \/ AllocateFails \/ Issue \/ NotIssued \/ Wait
  \/ FillIetf \/ FillStatistics \/ FillNat
  \/ FillOc \/ FillOcGarbage \/ FillOcCrashes
  \/ Restart

Spec == Init /\ [][Next]_vars

-----------------------------------------------------------------------------
(***************************************************************************)
(* Properties                                                              *)
(***************************************************************************)

\* Types of the variables.  Outputs are unset only while a call is going on
\* or when it returned an error.
TypeOK ==
  /\ vppIfs \in {{}, Ifs} /\ conn \in {"live", "stale", "none"}
  /\ sent \subseteq Ifs /\ dump \subseteq Ifs
  /\ done \in BOOLEAN /\ steady \subseteq Ifs
  /\ cb \in Callbacks /\ name \in Names
  /\ pc \in {"returned", "alloc", "issue", "wait", "fill", "crashed"}
  /\ alloc \in Nat /\ cnt \in Nat /\ values_cnt \in 0..cnt
  /\ values \in {"unset", "null", "array"} /\ rc \in {"OK", "INVAL_ARG", "NOMEM"}
  /\ pc = "returned" /\ rc = "OK" => values # "unset"
  /\ about \subseteq Names \cup {Garbage}

(***************************************************************************)
(* No callback writes past the array it has allocated.  For ietf the room  *)
(* is computed from the dump before it is walked: no detail may arrive in  *)
(* between, whatever VPP and the receiving thread do.                      *)
(***************************************************************************)
InBounds == cnt <= alloc

(***************************************************************************)
(* An interface that VPP has, and that the connection reaches, from the    *)
(* request to the answer is in the answer: in a dump of all interfaces,    *)
(* and in the answer to a question about it, which neither crashes nor is  *)
(* made of garbage.  That answer is about an interface the name filter     *)
(* lets through, so about the one asked for if the filter is exact.  While *)
(* the connection is stale or closed nothing of the kind holds.            *)
(***************************************************************************)
SteadyAnswered ==
  /\ pc = "returned" /\ cb = "ietf" /\ values = "array" => steady \subseteq about
  /\ cb = "oc" /\ name \in steady =>
       /\ pc # "crashed"
       /\ pc = "returned" /\ values = "array" =>
            \E i \in Matches[name] : about = {i}
=============================================================================
