------------------------ MODULE StateCallbacksProofs ------------------------
(***************************************************************************)
(* The state callbacks stay within the arrays they allocate, and answer    *)
(* for every interface that stays, for any finite set of interfaces and    *)
(* whatever VPP does during a dump.                                        *)
(***************************************************************************)
EXTENDS StateCallbacks, FiniteSetTheorems, TLAPS

\* What the dump and the request may be.
Types ==
  /\ dump \in SUBSET Ifs /\ sent \in SUBSET Ifs /\ vppIfs \in SUBSET Ifs
  /\ cb \in Callbacks
  /\ alloc \in Nat /\ cnt \in Nat

\* Once VPP's last message is there no detail is under way, and none arrives
\* but while a callback waits: not while it sizes and fills its array.
DumpComplete ==
  /\ done => sent = {}
  /\ pc # "wait" => sent = {}

\* The array is as large as the dump that is about to be walked needs.
RoomMade ==
  /\ pc = "fill" /\ cb = "ietf" => alloc = (Cardinality(dump) + 1) * 6
  /\ pc \in {"issue", "wait", "fill"} /\ cb = "oc" => alloc = 7
  /\ pc = "fill" /\ cb = "statistics" => alloc = 8
  /\ pc = "fill" /\ cb = "nat" => alloc = 1
  /\ cb = "statistics" \/ cb = "nat" => pc \notin {"issue", "wait"}

NothingYet == pc \in {"alloc", "issue", "wait", "fill"} => cnt = 0

(***************************************************************************)
(* The inductive invariant: InBounds is about the moment after the array   *)
(* was filled, the parts before it about how it was sized.                 *)
(***************************************************************************)
RoomInv == Types /\ DumpComplete /\ RoomMade /\ NothingYet /\ InBounds

\* A dump has a size.
LEMMA DumpFinite ==
  ASSUME NEW S \in SUBSET Ifs
  PROVE  Cardinality(S) \in Nat
  BY StateCallbacksAssumption, FS_Subset, FS_CardinalityType

-----------------------------------------------------------------------------
\* VPP and the receiving thread touch neither the array nor, once it is
\* sized, the dump it was sized for.
LEMMA VppStep ==
  ASSUME RoomInv,
         \/ \E i \in Ifs : Receive(i)
         \/ ReceiveLast \/ VppDies \/ VppStarts
         \/ Disconnect \/ Connect
  PROVE  RoomInv'
<1>. USE DEF RoomInv
<1>1. UNCHANGED <<cb, pc, outVars>>
  BY DEF Receive, ReceiveLast, VppDies, VppStarts, Disconnect, Connect, Lose
<1>2. Types' /\ NothingYet' /\ InBounds'
  BY <1>1 DEF Receive, ReceiveLast, VppDies, VppStarts, Disconnect, Connect,
              Lose, vppVars, dumpVars, outVars, Types, NothingYet, InBounds
<1>3. DumpComplete'
  BY <1>1 DEF Receive, ReceiveLast, VppDies, VppStarts, Disconnect, Connect,
              Lose, vppVars, dumpVars, DumpComplete
<1>4. pc = "fill" /\ cb = "ietf" => dump' = dump
  BY DEF Receive, ReceiveLast, VppDies, VppStarts, Disconnect, Connect,
              Lose, vppVars, dumpVars, DumpComplete
<1>5. RoomMade'
  BY <1>1, <1>4 DEF outVars, RoomMade
<1>6. QED
  BY <1>2, <1>3, <1>5

\* A request begins with nothing written.
LEMMA CallStep ==
  ASSUME RoomInv, NEW c \in Callbacks, NEW n \in Names, Call(c, n)
  PROVE  RoomInv'
<1>. USE DEF RoomInv
<1>1. /\ cb' = c /\ alloc' = 0 /\ cnt' = 0
      /\ pc = "returned" /\ UNCHANGED <<vppIfs, dumpVars>>
  BY Zenon DEF Call, vppVars
<1>2. \/ pc' = "returned"
      \/ pc' = "crashed"
      \/ pc' = "issue" /\ c = "ietf"
      \/ pc' = "alloc" /\ c # "ietf"
  BY Zenon DEF Call, Answer, Goto
<1>3. QED
  BY <1>1, <1>2 DEF Types, DumpComplete, RoomMade, NothingYet, InBounds,
                    vppVars, dumpVars

\* The array is sized for the callback, and for ietf from a complete dump.
LEMMA AllocateStep ==
  ASSUME RoomInv, Allocate
  PROVE  RoomInv'
<1>. USE DEF RoomInv
<1>1. Cardinality(dump) \in Nat
  BY DumpFinite DEF Types
<1>2. /\ cb = "ietf" => Room[cb] = (Cardinality(dump) + 1) * 6
      /\ cb = "oc" => Room[cb] = 7
      /\ cb = "statistics" => Room[cb] = 8
      /\ cb = "nat" => Room[cb] = 1
  BY DEF Room
<1>3. alloc' = Room[cb] /\ Room[cb] \in Nat
  BY <1>1, <1>2 DEF Allocate, Types, Callbacks
<1>4. /\ pc = "alloc" /\ cnt = 0
      /\ pc' = IF cb = "oc" THEN "issue" ELSE "fill"
      /\ UNCHANGED <<vppIfs, sent, done, dump, cb, cnt>>
  BY DEF Allocate, vppVars, dumpVars, NothingYet
<1>5. Types' /\ DumpComplete' /\ NothingYet' /\ InBounds'
  BY <1>3, <1>4 DEF Types, DumpComplete, NothingYet, InBounds
<1>6. RoomMade'
  BY <1>2, <1>3, <1>4 DEF RoomMade
<1>7. QED
  BY <1>5, <1>6

\* A dump begins empty, and ends when no detail is under way any more.
LEMMA DumpStep ==
  ASSUME RoomInv, AllocateFails \/ Issue \/ NotIssued \/ Wait
  PROVE  RoomInv'
<1>. USE DEF RoomInv
<1>1. CASE AllocateFails
  BY <1>1 DEF AllocateFails, Answer, vppVars, dumpVars, Types, DumpComplete,
              RoomMade, NothingYet, InBounds
<1>2. CASE Issue
  BY <1>2 DEF Issue, Details, Reached, vppVars, outVars, Types, DumpComplete,
              RoomMade, NothingYet, InBounds
<1>3. CASE NotIssued
  BY <1>3 DEF NotIssued, AfterDump, vppVars, outVars, Types, DumpComplete,
              RoomMade, NothingYet, InBounds, Callbacks
<1>4. CASE Wait
  BY <1>4 DEF Wait, AfterDump, outVars, vppVars, dumpVars, Types,
              DumpComplete, RoomMade, NothingYet, InBounds, Callbacks
<1>5. QED
  BY <1>1, <1>2, <1>3, <1>4

\* The array is filled with no more than what it was sized for.
LEMMA FillStep ==
  ASSUME RoomInv,
         FillIetf \/ FillStatistics \/ FillNat \/ FillOc \/ FillOcGarbage
  PROVE  RoomInv'
<1>. USE DEF RoomInv
<1>1. Cardinality(dump) \in Nat
  BY DumpFinite DEF Types
<1>2. cnt' \in Nat /\ cnt' <= alloc
  BY <1>1 DEF FillIetf, FillStatistics, FillNat, FillOc, FillOcGarbage, Hand,
              RoomMade
<1>3. /\ pc = "fill" /\ pc' = "returned"
      /\ UNCHANGED <<vppIfs, sent, done, dump, cb, alloc>>
  BY DEF FillIetf, FillStatistics, FillNat, FillOc, FillOcGarbage, Hand,
         Answer, vppVars, dumpVars
<1>4. QED
  BY <1>2, <1>3 DEF Types, DumpComplete, RoomMade, NothingYet, InBounds

\* A crash leaves no call behind that could write.
LEMMA CrashStep ==
  ASSUME RoomInv, FillOcCrashes \/ Restart
  PROVE  RoomInv'
<1>1. CASE FillOcCrashes
  BY <1>1 DEF FillOcCrashes, vppVars, dumpVars, outVars, RoomInv, Types,
              DumpComplete, RoomMade, NothingYet, InBounds
<1>2. CASE Restart
  <2>1. /\ pc = "crashed" /\ pc' = "returned"
        /\ cb' = "nat" /\ alloc' = 0 /\ cnt' = 0
        /\ UNCHANGED <<vppIfs, dumpVars>>
    BY <1>2, Zenon DEF Restart, Answer
  <2>2. QED
    BY <2>1 DEF vppVars, dumpVars, RoomInv, Types, DumpComplete, RoomMade,
                NothingYet, InBounds, Callbacks
<1>3. QED
  BY <1>1, <1>2

\* InBounds: no state callback writes past its array, however many
\* interfaces VPP has, however they arrive and whenever VPP dies.
THEOREM BoundsSound == Spec => []InBounds
<1>1. Init => RoomInv
  <2>. SUFFICES ASSUME Init PROVE RoomInv
    OBVIOUS
  <2>1. /\ vppIfs = Ifs /\ sent = {} /\ dump = {}
        /\ cb = "nat" /\ pc = "returned" /\ alloc = 0 /\ cnt = 0
    BY Zenon DEF Init
  <2>2. QED
    BY <2>1 DEF RoomInv, Types, DumpComplete, RoomMade, NothingYet, InBounds,
                Callbacks
<1>2. RoomInv /\ [Next]_vars => RoomInv'
  <2>. SUFFICES ASSUME RoomInv, [Next]_vars PROVE RoomInv'
    OBVIOUS
  <2>1. CASE UNCHANGED vars
    BY <2>1 DEF vars, vppVars, dumpVars, outVars, RoomInv, Types, DumpComplete,
                RoomMade, NothingYet, InBounds
  <2>2. QED
    BY <2>1, VppStep, CallStep, AllocateStep, DumpStep, FillStep, CrashStep
       DEF Next
<1>3. RoomInv => InBounds
  BY DEF RoomInv
<1>4. QED
  BY <1>1, <1>2, <1>3, PTL DEF Spec

-----------------------------------------------------------------------------
(***************************************************************************)
(* An interface that is there and reached all along is on its way,         *)
(* received, or in the answer; with a name in the request only what the    *)
(* filter lets through is.                                                 *)
(***************************************************************************)
Underway ==
  /\ steady \subseteq Reached /\ vppIfs \subseteq Ifs
  /\ sent # {} => pc = "wait" /\ ~done

IetfSteady ==
  cb = "ietf" =>
    /\ pc = "wait" => steady \subseteq sent \cup dump
    /\ pc \in {"alloc", "fill"} => steady \subseteq dump
    /\ pc = "returned" /\ values = "array" => steady \subseteq about

OcSteady ==
  cb = "oc" /\ name \in steady =>
    /\ pc = "wait" => /\ name \in sent \cup dump
                      /\ sent \cup dump \subseteq Matches[name]
    /\ pc = "fill" => name \in dump /\ dump \subseteq Matches[name]
    /\ pc = "returned" /\ values = "array" =>
         \E i \in Matches[name] : about = {i}
    /\ pc # "crashed"

SteadyInv == Underway /\ IetfSteady /\ OcSteady

\* Neither VPP nor the receiving thread nor the health check loses anything
\* that stays in reach.
LEMMA SteadyVppStep ==
  ASSUME SteadyInv,
         \/ \E i \in Ifs : Receive(i)
         \/ ReceiveLast \/ VppDies \/ VppStarts
         \/ Disconnect \/ Connect
  PROVE  SteadyInv'
<1>. USE DEF SteadyInv, Underway, Reached, IetfSteady, OcSteady
<1>1. UNCHANGED <<cb, name, pc, outVars>>
  BY DEF Receive, ReceiveLast, VppDies, VppStarts, Disconnect, Connect, Lose
<1>2. CASE \E i \in Ifs : Receive(i)
  BY <1>1, <1>2 DEF Receive, outVars, vppVars
<1>3. CASE ReceiveLast
  BY <1>1, <1>3 DEF ReceiveLast, outVars, vppVars
<1>4. CASE VppDies \/ Disconnect
  BY <1>1, <1>4 DEF VppDies, Disconnect, Lose, outVars
<1>5. CASE VppStarts \/ Connect
  BY <1>1, <1>5 DEF VppStarts, Connect, outVars, dumpVars
<1>6. QED
  BY <1>2, <1>3, <1>4, <1>5

\* A request that is answered at once is not answered with values.
LEMMA SteadyCallStep ==
  ASSUME SteadyInv, NEW c \in Callbacks, NEW n \in Names, Call(c, n)
  PROVE  SteadyInv'
<1>1. /\ pc = "returned" /\ cb' = c /\ name' = n /\ steady' = Reached
      /\ UNCHANGED <<vppIfs, conn, sent, done, dump>>
  BY Zenon DEF Call, vppVars, dumpVars
<1>2. /\ values' # "array"
      /\ \/ pc' = "returned"
         \/ pc' = "crashed" /\ n = ""
         \/ pc' = "issue" /\ c = "ietf"
         \/ pc' = "alloc" /\ c # "ietf"
  BY Zenon DEF Call, Answer, Goto
<1>3. QED
  BY <1>1, <1>2, StateCallbacksAssumption
     DEF SteadyInv, Underway, Reached, IetfSteady, OcSteady

\* The dump asks for every interface that is there.
LEMMA SteadyDumpStep ==
  ASSUME SteadyInv, Allocate \/ AllocateFails \/ Issue \/ NotIssued \/ Wait
  PROVE  SteadyInv'
<1>. USE DEF SteadyInv, Underway, Reached, IetfSteady, OcSteady, vppVars,
             dumpVars, outVars
<1>1. CASE Allocate
  BY <1>1 DEF Allocate
<1>2. CASE AllocateFails
  BY <1>2 DEF AllocateFails, Answer
<1>3. CASE Issue
  BY <1>3, StateCallbacksAssumption DEF Issue, Details
<1>4. CASE NotIssued
  BY <1>4 DEF NotIssued, AfterDump
<1>5. CASE Wait
  BY <1>5 DEF Wait, AfterDump
<1>6. QED
  BY <1>1, <1>2, <1>3, <1>4, <1>5

\* What has been received is what is handed over.
LEMMA SteadyFillStep ==
  ASSUME SteadyInv,
         \/ FillIetf \/ FillStatistics \/ FillNat
         \/ FillOc \/ FillOcGarbage \/ FillOcCrashes
  PROVE  SteadyInv'
<1>. USE DEF SteadyInv, Underway, Reached, IetfSteady, OcSteady, vppVars,
             dumpVars, outVars
<1>1. CASE FillIetf \/ FillStatistics \/ FillNat
  BY <1>1 DEF FillIetf, FillStatistics, FillNat, Hand, Answer
<1>2. CASE FillOc \/ FillOcGarbage
  BY <1>2 DEF FillOc, FillOcGarbage, Hand, Answer
<1>3. CASE FillOcCrashes
  BY <1>3 DEF FillOcCrashes
<1>4. QED
  BY <1>1, <1>2, <1>3

\* SteadyAnswered: an interface that VPP has, and the connection reaches, from
\* the request to the answer is in the answer of ietf_interface_state_cb(),
\* and oc_interfaces_state_cb() answers for it, for any interfaces and name
\* filter and whatever becomes of VPP, of the connection and of the dump.
THEOREM SteadySound == Spec => []SteadyAnswered
<1>1. Init => SteadyInv
  <2>. SUFFICES ASSUME Init PROVE SteadyInv
    OBVIOUS
  <2>1. /\ sent = {} /\ cb = "nat" /\ pc = "returned" /\ steady = {}
        /\ vppIfs = Ifs
    BY Zenon DEF Init
  <2>2. QED
    BY <2>1 DEF SteadyInv, Underway, IetfSteady, OcSteady
<1>2. SteadyInv /\ [Next]_vars => SteadyInv'
  <2>. SUFFICES ASSUME SteadyInv, [Next]_vars PROVE SteadyInv'
    OBVIOUS
  <2>1. CASE UNCHANGED vars
    BY <2>1 DEF vars, vppVars, dumpVars, outVars, SteadyInv, Underway,
                Reached, IetfSteady, OcSteady
  <2>2. CASE Restart
    <3>1. /\ pc' = "returned" /\ pc = "crashed" /\ cb' = "nat" /\ steady' = {}
          /\ UNCHANGED <<vppIfs, sent, done>>
      BY <2>2, Zenon DEF Restart, Answer, vppVars, dumpVars
    <3>2. QED
      BY <3>1 DEF SteadyInv, Underway, IetfSteady, OcSteady
  <2>3. QED
    BY <2>1, <2>2, SteadyVppStep, SteadyCallStep, SteadyDumpStep,
       SteadyFillStep
       DEF Next
<1>3. SteadyInv => SteadyAnswered
  BY DEF SteadyInv, IetfSteady, OcSteady, SteadyAnswered
<1>4. QED
  BY <1>1, <1>2, <1>3, PTL DEF Spec

-----------------------------------------------------------------------------
\* No step of VPP or of the receiving thread leaves the types.
LEMMA TypeVppStep ==
  ASSUME TypeOK,
         \/ \E i \in Ifs : Receive(i)
         \/ ReceiveLast \/ VppDies \/ VppStarts
         \/ Disconnect \/ Connect
  PROVE  TypeOK'
<1>1. UNCHANGED <<cb, name, pc, outVars>>
  BY DEF Receive, ReceiveLast, VppDies, VppStarts, Disconnect, Connect, Lose
<1>2. /\ vppIfs' \in {{}, Ifs} /\ conn' \in {"live", "stale", "none"}
      /\ sent' \subseteq Ifs /\ dump' \subseteq Ifs
      /\ done' \in BOOLEAN /\ steady' \subseteq Ifs
  BY DEF TypeOK, Receive, ReceiveLast, VppDies, VppStarts, Disconnect, Connect,
         Lose, vppVars, dumpVars
<1>3. QED
  BY <1>1, <1>2 DEF TypeOK, outVars

\* A call begins with its output arguments unset or empty.
LEMMA TypeCallStep ==
  ASSUME TypeOK, NEW c \in Callbacks, NEW n \in Names, Call(c, n)
  PROVE  TypeOK'
<1>1. /\ cb' = c /\ name' = n /\ steady' = Reached
      /\ alloc' = 0 /\ cnt' = 0 /\ about' = {}
      /\ UNCHANGED <<vppIfs, conn, sent, done, dump>>
  BY Zenon DEF Call, vppVars, dumpVars
<1>2. /\ values_cnt' = 0
      /\ \/ pc' = "returned" /\ values' = "unset" /\ rc' = "INVAL_ARG"
         \/ pc' = "returned" /\ values' = "null" /\ rc' = "OK"
         \/ pc' \in {"issue", "alloc", "crashed"} /\ values' = "unset" /\ rc' = "OK"
  BY Zenon DEF Call, Answer, Goto
<1>3. QED
  BY <1>1, <1>2 DEF TypeOK, Reached

\* The allocation and the dump keep the types.
LEMMA TypeDumpStep ==
  ASSUME TypeOK, Allocate \/ AllocateFails \/ Issue \/ NotIssued \/ Wait
  PROVE  TypeOK'
<1>1. CASE Allocate
  <2>1. Cardinality(dump) \in Nat
    BY DumpFinite DEF TypeOK
  <2>2. Room[cb] \in Nat
    BY <2>1 DEF TypeOK, Callbacks, Room
  <2>3. QED
    BY <1>1, <2>2 DEF Allocate, TypeOK, vppVars, dumpVars
<1>2. CASE AllocateFails
  BY <1>2 DEF AllocateFails, Answer, TypeOK, vppVars, dumpVars
<1>3. CASE Issue
  BY <1>3 DEF Issue, Details, Reached, TypeOK, vppVars, outVars
<1>4. CASE NotIssued
  BY <1>4 DEF NotIssued, AfterDump, TypeOK, vppVars, outVars
<1>5. CASE Wait
  BY <1>5 DEF Wait, AfterDump, TypeOK, vppVars, dumpVars, outVars
<1>6. QED
  BY <1>1, <1>2, <1>3, <1>4, <1>5

\* The filling of the array keeps the types.
LEMMA TypeFillStep ==
  ASSUME TypeOK,
         \/ FillIetf \/ FillStatistics \/ FillNat
         \/ FillOc \/ FillOcGarbage \/ FillOcCrashes
  PROVE  TypeOK'
<1>1. CASE FillOcCrashes
  BY <1>1 DEF FillOcCrashes, TypeOK, vppVars, dumpVars, outVars
<1>2. CASE ~FillOcCrashes
  <2>1. Cardinality(dump) \in Nat
    BY DumpFinite DEF TypeOK
  <2>2. PICK k \in Nat, ifs \in SUBSET (Names \cup {Garbage}) : Hand(k, ifs)
    <3>1. dump \in SUBSET (Names \cup {Garbage}) /\ name \in Names
      BY StateCallbacksAssumption, Zenon DEF TypeOK
    <3>2. 5 * Cardinality(dump) \in Nat
      BY <2>1
    <3>3. CASE FillIetf
      BY <3>1, <3>2, <3>3 DEF FillIetf
    <3>4. CASE FillStatistics
      BY <3>1, <3>4 DEF FillStatistics
    <3>5. CASE FillNat
      BY <3>5 DEF FillNat
    <3>6. CASE FillOc
      BY <3>1, <3>6 DEF FillOc
    <3>7. CASE FillOcGarbage
      BY <3>7 DEF FillOcGarbage
    <3>8. QED
      BY <1>2, <3>3, <3>4, <3>5, <3>6, <3>7
  <2>3. QED
    BY <2>2 DEF Hand, Answer, TypeOK, vppVars, dumpVars
<1>3. QED
  BY <1>1, <1>2

\* Type correctness; the output arguments are set by every call of a state
\* callback that returns SR_ERR_OK, and claim no value that was not written.
THEOREM CallbackTypes == Spec => []TypeOK
<1>1. Init => TypeOK
  <2>. SUFFICES ASSUME Init PROVE TypeOK
    OBVIOUS
  <2>1. /\ vppIfs = Ifs /\ conn = "live" /\ sent = {} /\ done = FALSE /\ dump = {}
        /\ cb = "nat" /\ pc = "returned" /\ about = {} /\ steady = {}
        /\ alloc = 0 /\ cnt = 0 /\ values = "null" /\ values_cnt = 0 /\ rc = "OK"
    BY Zenon DEF Init
  <2>2. name \in Names
    BY StateCallbacksAssumption, Zenon DEF Init
  <2>3. done \in BOOLEAN /\ vppIfs \in {{}, Ifs}
    BY <2>1, Zenon
  <2>4. /\ sent \subseteq Ifs /\ dump \subseteq Ifs /\ steady \subseteq Ifs
        /\ about \subseteq Names \cup {Garbage}
    BY <2>1
  <2>5. alloc \in Nat /\ cnt \in Nat /\ values_cnt \in 0..cnt
    BY <2>1
  <2>6. /\ cb \in Callbacks
        /\ pc \in {"returned", "alloc", "issue", "wait", "fill", "crashed"}
        /\ conn \in {"live", "stale", "none"}
        /\ values \in {"unset", "null", "array"} /\ values # "unset"
        /\ rc \in {"OK", "INVAL_ARG", "NOMEM"}
    BY <2>1 DEF Callbacks
  <2>7. QED
    BY <2>2, <2>3, <2>4, <2>5, <2>6, Zenon DEF TypeOK
<1>2. TypeOK /\ [Next]_vars => TypeOK'
  <2>. SUFFICES ASSUME TypeOK, [Next]_vars PROVE TypeOK'
    OBVIOUS
  <2>1. CASE UNCHANGED vars
    BY <2>1 DEF vars, vppVars, dumpVars, outVars, TypeOK
  <2>2. CASE Restart
    <3>1. /\ cb' = "nat" /\ pc' = "returned" /\ about' = {} /\ steady' = {}
          /\ alloc' = 0 /\ cnt' = 0 /\ values' = "null" /\ values_cnt' = 0
          /\ rc' = "OK" /\ conn' = "live" /\ UNCHANGED <<vppIfs, sent, done, dump>>
      BY <2>2, Zenon DEF Restart, Answer, vppVars, dumpVars
    <3>2. name' \in Names
      BY <2>2, StateCallbacksAssumption, Zenon DEF Restart
    <3>3. QED
      BY <3>1, <3>2 DEF TypeOK, Callbacks
  <2>3. QED
    BY <2>1, <2>2, TypeVppStep, TypeCallStep, TypeDumpStep, TypeFillStep
       DEF Next
<1>3. QED
  BY <1>1, <1>2, PTL DEF Spec
=============================================================================
