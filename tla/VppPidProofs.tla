---------------------------- MODULE VppPidProofs ----------------------------
(***************************************************************************)
(* get_vpp_pid() reads the pid of VPP as if at one moment, for any number  *)
(* of pids and of file descriptors, and a scan that no exiting process     *)
(* disturbs returns no other error than -ESRCH and closes its stream.      *)
(***************************************************************************)
EXTENDS VppPid, WellFoundedInduction, TLAPS

(***************************************************************************)
(* readdir() returns the first of the entries behind ptr.                  *)
(***************************************************************************)
LEMMA FirstEntry ==
  ASSUME NEW T \in SUBSET Nat, T # {}
  PROVE  \E e \in T : \A f \in T : e <= f
<1>. DEFINE R == OpToRel(<, Nat)
<1>1. IsWellFoundedOn(R, Nat)
  BY NatLessThanWellFounded
<1>2. \A x, y \in Nat : y < x => <<y, x>> \in R
  BY DEF OpToRel
<1>. HIDE DEF R
<1>3. PICK e \in T : \A f \in T : <<f, e>> \notin R
  BY <1>1, WFMin
<1>4. ASSUME NEW f \in T PROVE e <= f
  <2>1. e \in Nat /\ f \in Nat
    OBVIOUS
  <2>2. ~(f < e)
    BY <1>2, <1>3, <2>1, Zenon
  <2>3. QED
    BY <2>1, <2>2
<1>5. QED
  BY <1>4, Zenon

\* What VppIn() finds.
LEMMA VppInFinds ==
  ASSUME NEW ps
  PROVE  /\ VppIn(ps) # 0 => VppIn(ps) \in Pids /\ ps[VppIn(ps)] = "vpp"
         /\ \A p \in Pids : ps[p] = "vpp" => VppIn(ps) # 0
<1>1. ASSUME \E p \in Pids : ps[p] = "vpp"
      PROVE  VppIn(ps) \in Pids /\ ps[VppIn(ps)] = "vpp"
  <2>1. VppIn(ps) = CHOOSE p \in Pids : ps[p] = "vpp"
    BY <1>1 DEF VppIn
  <2>2. QED
    BY <1>1, <2>1
<1>2. ~(\E p \in Pids : ps[p] = "vpp") => VppIn(ps) = 0
  BY DEF VppIn
<1>3. 0 \notin Pids
  BY VppPidAssumption DEF Pids
<1>4. QED
  BY <1>1, <1>2, <1>3

-----------------------------------------------------------------------------
Types ==
  /\ proc \in [Pids -> Contents \cup {"none"}]
  /\ open \in Nat /\ errno \in {0, ENOENT, ESRCH, EMFILE}
  /\ pc \in {"returned", "readdir", "entry"}
  /\ ptr \in -1..MaxPid
  /\ pc = "returned" => ptr = -1
  /\ pc = "entry" => ptr >= 0

OneVpp == \A p, q \in Pids : proc[p] = "vpp" /\ proc[q] = "vpp" => p = q

\* The pid of VPP now is one of those it has had during the call.
Recorded == pc # "returned" => VppIn(proc) \in during

\* A VPP that has been there all along is still ahead of the scan, or the
\* scan is at its entry, or there are no descriptors left.
Ahead ==
  pc # "returned" /\ 0 \notin during =>
    \E v \in Pids :
      /\ proc[v] = "vpp"
      /\ v > ptr \/ (pc = "entry" /\ v = ptr) \/ (NoDescriptor /\ errno = EMFILE)

(***************************************************************************)
(* The inductive invariant.                                                *)
(***************************************************************************)
ScanInv == Types /\ OneVpp /\ Recorded /\ Ahead /\ ReadsAtomically

\* Processes start and exit: `during` follows, and a VPP that goes leaves a
\* moment without one behind.
LEMMA ProcessStep ==
  ASSUME ScanInv, NEW p \in Pids, NEW c \in Contents \cup {"none"},
         proc' = [proc EXCEPT ![p] = c],
         c = "vpp" => VppIn(proc) = 0,
         c # "none" => proc[p] = "none",
         during' = during \cup {VppIn(proc')}, UNCHANGED callVars
  PROVE  ScanInv'
<1>. USE DEF ScanInv
<1>1. Types'
  BY DEF Types, callVars
<1>2. \A q \in Pids : proc'[q] = IF q = p THEN c ELSE proc[q]
  BY DEF Types
<1>3. OneVpp'
  <2>1. CASE c = "vpp"
    <3>1. \A q \in Pids : proc[q] # "vpp"
      BY <2>1, VppInFinds
    <3>2. QED
      BY <1>2, <3>1 DEF OneVpp
  <2>2. CASE c # "vpp"
    BY <1>2, <2>2 DEF OneVpp
  <2>3. QED
    BY <2>1, <2>2
<1>4. Recorded'
  BY DEF Recorded
<1>5. Ahead'
  <2>. SUFFICES ASSUME pc # "returned", 0 \notin during'
                PROVE  \E v \in Pids :
                         /\ proc'[v] = "vpp"
                         /\ \/ v > ptr \/ (pc = "entry" /\ v = ptr)
                            \/ NoDescriptor /\ errno = EMFILE
    BY DEF Ahead, callVars, NoDescriptor
  <2>1. PICK v \in Pids :
          /\ proc[v] = "vpp"
          /\ v > ptr \/ (pc = "entry" /\ v = ptr) \/ (NoDescriptor /\ errno = EMFILE)
    BY DEF Ahead
  <2>2. PICK w \in Pids : proc'[w] = "vpp"
    BY VppInFinds
  <2>3. proc'[v] = "vpp"
    <3>1. CASE p = v
      <4>1. c = "none"
        BY <2>1, <3>1
      <4>2. w # p /\ proc[w] = "vpp"
        BY <1>2, <2>2, <4>1
      <4>3. QED
        BY <2>1, <3>1, <4>2 DEF OneVpp
    <3>2. CASE p # v
      BY <1>2, <2>1, <3>2
    <3>3. QED
      BY <3>1, <3>2
  <2>4. QED
    BY <2>1, <2>3
<1>6. ReadsAtomically'
  BY DEF ReadsAtomically, callVars
<1>7. QED
  BY <1>1, <1>3, <1>4, <1>5, <1>6

\* opendir(): the scan begins before the first entry.
LEMMA OpenDirStep ==
  ASSUME ScanInv, OpenDir
  PROVE  ScanInv'
<1>. USE DEF ScanInv
<1>1. Types' /\ OneVpp' /\ Recorded'
  BY DEF OpenDir, Return, Types, OneVpp, Recorded
<1>2. Ahead'
  <2>1. ASSUME VppIn(proc) # 0 PROVE VppIn(proc) \in Pids /\ VppIn(proc) > ptr
    BY <2>1, VppInFinds DEF OpenDir, Types, Pids
  <2>2. QED
    BY <2>1, VppInFinds DEF OpenDir, Return, Ahead, NoDescriptor
<1>3. ReadsAtomically'
  BY DEF OpenDir, Return, ReadsAtomically
<1>4. QED
  BY <1>1, <1>2, <1>3

\* readdir() does not pass over an entry.
LEMMA ReadDirStep ==
  ASSUME ScanInv, ReadDir
  PROVE  ScanInv'
<1>. USE DEF ScanInv
<1>. DEFINE Behind == {e \in Listed : e > ptr}
<1>1. Behind \in SUBSET Nat /\ Behind \subseteq 0..MaxPid /\ Behind # {}
  BY VppPidAssumption DEF ReadDir, Listed, Pids, Types
<1>2. \E e \in Listed : e > ptr /\ \A f \in Listed : f > ptr => e <= f
  BY <1>1, FirstEntry
<1>3. ptr' \in Listed /\ ptr' > ptr /\ \A f \in Listed : f > ptr => ptr' <= f
  BY <1>2 DEF ReadDir
<1>4. Types' /\ OneVpp' /\ Recorded' /\ ReadsAtomically'
  BY <1>1, <1>3 DEF ReadDir, Types, OneVpp, Recorded, ReadsAtomically
<1>5. Ahead'
  <2>. SUFFICES ASSUME 0 \notin during PROVE Ahead'
    BY DEF Ahead, ReadDir
  <2>1. PICK v \in Pids : proc[v] = "vpp"
                          /\ (v > ptr \/ (NoDescriptor /\ errno = EMFILE))
    BY DEF Ahead, ReadDir
  <2>2. v \in Listed /\ v \in Int /\ ptr' \in Int
    BY <1>3, <2>1 DEF Listed, Pids
  <2>3. v > ptr => v > ptr' \/ v = ptr'
    BY <1>3, <2>2
  <2>4. QED
    BY <2>1, <2>3 DEF Ahead, ReadDir, NoDescriptor
<1>6. QED
  BY <1>4, <1>5

\* An entry that is not VPP, or that cannot be read.
LEMMA EntryStep ==
  ASSUME ScanInv, EntryFails \/ EntryEmpty \/ EntryOther
  PROVE  ScanInv'
<1>. USE DEF ScanInv
<1>1. /\ pc = "entry" /\ pc' = "readdir"
      /\ UNCHANGED <<proc, open, ptr, result, during>>
  BY DEF EntryFails, EntryEmpty, EntryOther, EntryReads
<1>2. errno' \in {0, ENOENT, ESRCH, EMFILE}
  BY DEF EntryFails, EntryEmpty, EntryOther, FailsWith, Types
<1>3. Types' /\ OneVpp' /\ Recorded' /\ ReadsAtomically'
  BY <1>1, <1>2 DEF Types, OneVpp, Recorded, ReadsAtomically
<1>4. NoDescriptor => errno' = EMFILE
  BY DEF EntryFails, EntryEmpty, EntryOther, EntryReads, CanOpen, FailsWith
<1>5. ASSUME NEW v \in Pids, proc[v] = "vpp", v = ptr PROVE NoDescriptor
  <2>1. v # 0
    BY <1>5 DEF Pids
  <2>2. QED
    BY <1>5, <2>1 DEF EntryFails, EntryEmpty, EntryOther, EntryReads, CanOpen
<1>6. Ahead'
  BY <1>1, <1>4, <1>5 DEF Ahead, NoDescriptor
<1>7. QED
  BY <1>3, <1>6

\* The scan returns.
LEMMA ReturnStep ==
  ASSUME ScanInv, EntryVpp \/ EndOfDir
  PROVE  ScanInv'
<1>. USE DEF ScanInv
<1>1. Types' /\ OneVpp' /\ Recorded' /\ Ahead'
  BY VppPidAssumption
     DEF EntryVpp, EndOfDir, EntryReads, Return, Types, OneVpp, Recorded, Ahead
<1>2. CASE EntryVpp
  <2>1. ptr \in Pids /\ proc[ptr] = "vpp"
    BY <1>2 DEF EntryVpp, EntryReads, CanOpen, Types, Pids
  <2>2. VppIn(proc) = ptr
    BY <2>1, VppInFinds DEF OneVpp
  <2>3. ptr \in during
    BY <1>2, <2>2 DEF EntryVpp, EntryReads, Recorded
  <2>4. QED
    BY <1>1, <1>2, <2>1, <2>3 DEF EntryVpp, Return, ReadsAtomically, Pids
<1>3. CASE EndOfDir
  <2>1. CASE 0 \in during
    BY <1>1, <1>3, <2>1
       DEF EndOfDir, Return, ReadsAtomically, Types, ESRCH, ENOENT, EMFILE
  <2>2. CASE 0 \notin during
    <3>1. PICK v \in Pids : proc[v] = "vpp"
                            /\ (v > ptr \/ (NoDescriptor /\ errno = EMFILE))
      BY <1>3, <2>2 DEF Ahead, EndOfDir
    <3>2. v \in Listed
      BY <3>1 DEF Listed
    <3>3. ~(v > ptr)
      BY <1>3, <3>2 DEF EndOfDir, Types, Pids
    <3>4. errno = EMFILE
      BY <3>1, <3>3
    <3>5. QED
      BY <1>1, <1>3, <3>4 DEF EndOfDir, Return, ReadsAtomically, EMFILE
  <2>3. QED
    BY <2>1, <2>2
<1>4. QED
  BY <1>2, <1>3

\* The invariant holds throughout.
LEMMA ScanInvariance == Spec => []ScanInv
<1>1. Init => ScanInv
  <2>1. Init => Types /\ OneVpp
    BY VppPidAssumption DEF Init, Types, OneVpp, Pids, Contents
  <2>2. Init => Recorded /\ Ahead /\ ReadsAtomically
    BY DEF Init, Recorded, Ahead, ReadsAtomically, ESRCH, EMFILE
  <2>3. QED
    BY <2>1, <2>2 DEF ScanInv
<1>2. ScanInv /\ [Next]_vars => ScanInv'
  <2>. SUFFICES ASSUME ScanInv, [Next]_vars PROVE ScanInv'
    OBVIOUS
  <2>1. CASE UNCHANGED vars
    BY <2>1 DEF vars, callVars, ScanInv, Types, OneVpp, Recorded, Ahead,
                NoDescriptor, ReadsAtomically
  <2>2. ASSUME NEW p \in Pids, NEW c \in Contents, ProcessStarts(p, c)
        PROVE  ScanInv'
    BY <2>2, ProcessStep DEF ProcessStarts
  <2>3. ASSUME NEW p \in Pids, ProcessExits(p) PROVE ScanInv'
    BY <2>3, ProcessStep DEF ProcessExits
  <2>4. QED
    BY <2>1, <2>2, <2>3, OpenDirStep, ReadDirStep, EntryStep, ReturnStep
       DEF Next, Scan
<1>3. QED
  BY <1>1, <1>2, PTL DEF Spec

\* ReadsAtomically: whatever starts and exits during the scan of /proc,
\* get_vpp_pid() returns the pid of a VPP that ran during it, or an error if
\* there was a moment without one, unless the descriptors are used up.
THEOREM ScanSound == Spec => []ReadsAtomically
<1>1. ScanInv => ReadsAtomically
  BY DEF ScanInv
<1>2. QED
  BY <1>1, ScanInvariance, PTL

-----------------------------------------------------------------------------
(***************************************************************************)
(* Types, and calls during which no process exits.                         *)
(***************************************************************************)

\* A call that has its stream has taken a descriptor for it.
StreamOpen == pc # "returned" => open < MaxOpen

\* While no process exits, the entry at hand is still there.
EntryThere ==
  quiet /\ pc = "entry" => ptr >= 0 /\ (ptr # 0 => proc[ptr] # "none")

\* Once the scan is past the daemon's own entry, errno is clear: no later
\* entry can fail.
ClearPastSelf ==
  quiet /\ pc # "returned" =>
    errno = 0 \/ ptr < Self \/ (pc = "entry" /\ ptr = Self)

QuietInv == TypeOK /\ StreamOpen /\ EntryThere /\ ClearPastSelf

\* The pid VppIn() finds has the type of `during`.
LEMMA VppInType == \A ps : VppIn(ps) \in 0..MaxPid
BY VppInFinds, VppPidAssumption DEF Pids

\* A process starts, or one other than the daemon exits.
LEMMA QuietProcessStep ==
  ASSUME QuietInv, NEW p \in Pids,
         (\E c \in Contents : ProcessStarts(p, c)) \/ ProcessExits(p)
  PROVE  QuietInv'
<1>. USE DEF QuietInv
<1>1. UNCHANGED callVars /\ during' = during \cup {VppIn(proc')}
  BY DEF ProcessStarts, ProcessExits
<1>2. PICK c \in Contents \cup {"none"} :
        /\ proc' = [proc EXCEPT ![p] = c]
        /\ quiet' => quiet /\ c # "none"
        /\ quiet' \in BOOLEAN
        /\ p # Self
  <2>1. CASE ProcessExits(p)
    BY <2>1 DEF ProcessExits
  <2>2. ASSUME NEW c \in Contents, ProcessStarts(p, c) PROVE p # Self /\ c # "none"
    BY <2>2 DEF ProcessStarts, TypeOK, Contents
  <2>3. CASE \E c \in Contents : ProcessStarts(p, c)
    <3>1. PICK c \in Contents : ProcessStarts(p, c)
      BY <2>3
    <3>2. quiet' = quiet /\ proc' = [proc EXCEPT ![p] = c] /\ c # "none" /\ p # Self
      BY <2>2, <3>1 DEF ProcessStarts
    <3>3. quiet \in BOOLEAN
      BY DEF TypeOK
    <3>4. QED
      BY <3>2, <3>3, Zenon
  <2>4. QED
    BY <2>1, <2>3
<1>3. TypeOK'
  <2>1. during' \subseteq 0..MaxPid
    BY <1>1, VppInType DEF TypeOK
  <2>2. proc' \in [Pids -> Contents \cup {"none"}] /\ proc'[Self] = "other"
    BY <1>2, VppPidAssumption DEF TypeOK, Pids
  <2>3. QED
    BY <1>1, <1>2, <2>1, <2>2 DEF TypeOK, callVars
<1>4. StreamOpen' /\ ClearPastSelf'
  BY <1>1, <1>2 DEF StreamOpen, ClearPastSelf, callVars
<1>5. EntryThere'
  <2>. SUFFICES ASSUME quiet', pc = "entry"
                PROVE  ptr >= 0 /\ (ptr # 0 => proc'[ptr] # "none")
    BY <1>1 DEF EntryThere, callVars
  <2>1. ptr >= 0 /\ (ptr # 0 => proc[ptr] # "none")
    BY <1>2 DEF EntryThere
  <2>2. ptr # 0 => ptr \in Pids
    BY <2>1 DEF TypeOK, Pids
  <2>3. QED
    BY <1>2, <2>1, <2>2 DEF TypeOK
<1>6. QED
  BY <1>3, <1>4, <1>5

\* opendir(): the scan is before the daemon's own entry.
LEMMA QuietOpenStep ==
  ASSUME ScanInv, QuietInv, OpenDir
  PROVE  QuietInv'
<1>. USE DEF QuietInv
<1>1. UNCHANGED <<proc, open>> /\ during' = {VppIn(proc)} /\ quiet' \in BOOLEAN
  BY DEF OpenDir
<1>2. ptr = -1 /\ ptr' = -1
  BY DEF OpenDir, Return, ScanInv, Types
<1>3. CASE open < MaxOpen
  <2>1. pc' = "readdir" /\ errno' \in {0, ENOENT} /\ result' = result
    BY <1>3 DEF OpenDir
  <2>2. TypeOK'
    BY <1>1, <1>2, <2>1, VppInType, VppPidAssumption DEF TypeOK
  <2>3. QED
    BY <1>1, <1>2, <1>3, <2>1, <2>2, VppPidAssumption
       DEF StreamOpen, EntryThere, ClearPastSelf
<1>4. CASE ~(open < MaxOpen)
  <2>1. pc' = "returned" /\ errno' = EMFILE /\ result' = -EMFILE
    BY <1>4 DEF OpenDir, Return
  <2>2. TypeOK'
    BY <1>1, <1>2, <2>1, VppInType, VppPidAssumption DEF TypeOK
  <2>3. QED
    BY <2>1, <2>2 DEF StreamOpen, EntryThere, ClearPastSelf
<1>5. QED
  BY <1>3, <1>4

\* readdir() does not pass over the daemon's own entry.
LEMMA QuietReadDirStep ==
  ASSUME QuietInv, ReadDir
  PROVE  QuietInv'
<1>. USE DEF QuietInv
<1>. DEFINE Behind == {e \in Listed : e > ptr}
<1>1. Behind \in SUBSET Nat /\ Behind \subseteq 0..MaxPid /\ Behind # {}
  BY VppPidAssumption DEF ReadDir, Listed, Pids, TypeOK
<1>2. \E e \in Listed : e > ptr /\ \A f \in Listed : f > ptr => e <= f
  BY <1>1, FirstEntry
<1>3. ptr' \in Listed /\ ptr' > ptr /\ \A f \in Listed : f > ptr => ptr' <= f
  BY <1>2 DEF ReadDir
<1>4. ptr' \in 0..MaxPid
  BY <1>1, <1>3
<1>5. TypeOK' /\ StreamOpen'
  BY <1>4 DEF ReadDir, TypeOK, StreamOpen
<1>6. EntryThere'
  BY <1>3, <1>4 DEF ReadDir, EntryThere, Listed
<1>7. ClearPastSelf'
  <2>1. Self \in Listed
    BY VppPidAssumption DEF TypeOK, Listed, Pids
  <2>2. ptr < Self => ptr' <= Self
    BY <1>3, <2>1, VppPidAssumption DEF TypeOK
  <2>3. QED
    BY <1>4, <2>2, VppPidAssumption DEF ReadDir, ClearPastSelf, TypeOK
<1>8. QED
  BY <1>5, <1>6, <1>7

\* An entry that is not VPP: while no process exits only the directories
\* that are no process fail, and the daemon's own entry clears errno.
LEMMA QuietEntryStep ==
  ASSUME QuietInv, EntryFails \/ EntryEmpty \/ EntryOther
  PROVE  QuietInv'
<1>. USE DEF QuietInv
<1>1. /\ pc = "entry" /\ pc' = "readdir"
      /\ UNCHANGED <<proc, open, ptr, result, during>>
  BY DEF EntryFails, EntryEmpty, EntryOther, EntryReads
<1>2. errno' \in {0, ENOENT, ESRCH, EMFILE} /\ quiet' \in BOOLEAN
  BY DEF EntryFails, EntryEmpty, EntryOther, FailsWith, TypeOK
<1>3. TypeOK' /\ StreamOpen' /\ EntryThere'
  BY <1>1, <1>2 DEF TypeOK, StreamOpen, EntryThere
<1>4. ClearPastSelf'
  <2>. SUFFICES ASSUME quiet' PROVE errno' = 0 \/ ptr < Self
    BY <1>1 DEF ClearPastSelf
  <2>1. quiet
    BY DEF EntryFails, EntryEmpty, EntryOther
  <2>2. CASE EntryFails
    <3>1. ptr = 0
      BY <1>1, <2>1, <2>2 DEF EntryFails, CanOpen, EntryThere
    <3>2. QED
      BY <3>1, VppPidAssumption
  <2>3. CASE EntryEmpty
    <3>1. ptr # Self /\ errno' = errno
      BY <2>3 DEF EntryEmpty, EntryReads, TypeOK
    <3>2. QED
      BY <1>1, <2>1, <3>1 DEF ClearPastSelf
  <2>4. CASE EntryOther
    BY <2>4 DEF EntryOther
  <2>5. QED
    BY <2>2, <2>3, <2>4
<1>5. QED
  BY <1>3, <1>4

\* The scan returns, with a result of the type.
LEMMA QuietReturnStep ==
  ASSUME ScanInv, QuietInv, EntryVpp \/ EndOfDir
  PROVE  QuietInv'
<1>. USE DEF QuietInv
<1>1. pc # "returned" /\ pc' = "returned" /\ ptr' = -1
  BY DEF EntryVpp, EndOfDir, EntryReads, Return
<1>2. UNCHANGED <<proc, errno, during, quiet>>
  BY DEF EntryVpp, EndOfDir
<1>3. open' \in 0..MaxOpen
  <2>1. open < MaxOpen
    BY <1>1 DEF StreamOpen
  <2>2. open' = open \/ open' = open + 1
    BY DEF EntryVpp, EndOfDir
  <2>3. QED
    BY <2>1, <2>2, VppPidAssumption DEF TypeOK
<1>4. result' \in Pids \cup {-ENOENT, -ESRCH, -EMFILE}
  <2>1. CASE EntryVpp
    <3>1. ptr # 0 /\ proc[ptr] = "vpp" /\ result' = ptr
      BY <2>1 DEF EntryVpp, EntryReads, CanOpen, Return
    <3>2. QED
      BY <2>1, <3>1 DEF EntryVpp, EntryReads, ScanInv, Types, Pids
  <2>2. CASE EndOfDir
    BY <2>2 DEF EndOfDir, Return, TypeOK
  <2>3. QED
    BY <2>1, <2>2
<1>5. TypeOK'
  BY <1>1, <1>2, <1>3, <1>4, VppPidAssumption DEF TypeOK
<1>6. QED
  BY <1>1, <1>5 DEF StreamOpen, EntryThere, ClearPastSelf

\* The steps of VppPid keep both invariants.
LEMMA QuietStep == ScanInv /\ QuietInv /\ [Next]_vars => QuietInv'
<1>. SUFFICES ASSUME ScanInv, QuietInv, [Next]_vars PROVE QuietInv'
  OBVIOUS
<1>1. CASE UNCHANGED vars
  BY <1>1 DEF vars, callVars, QuietInv, TypeOK, StreamOpen, EntryThere,
              ClearPastSelf
<1>2. QED
  BY <1>1, QuietProcessStep, QuietOpenStep, QuietReadDirStep, QuietEntryStep,
     QuietReturnStep DEF Next, Scan

\* The invariant holds at first.
LEMMA QuietInit == Init => QuietInv
<1>. SUFFICES ASSUME Init PROVE QuietInv
  OBVIOUS
<1>1. TypeOK
  BY VppPidAssumption DEF Init, TypeOK, Pids, Contents
<1>2. QED
  BY <1>1 DEF Init, QuietInv, StreamOpen, EntryThere, ClearPastSelf

\* Type correctness: no more streams are left open than there are
\* descriptors, and the result is a pid or one of three errors.
THEOREM ScanTypes == Spec => []TypeOK
<1>1. QuietInv => TypeOK
  BY DEF QuietInv
<1>2. QED
  BY <1>1, QuietInit, QuietStep, ScanInvariance, PTL DEF Spec

\* QuietScanClean: a call of get_vpp_pid() during which no process exits and
\* no descriptor is missing returns a pid or -ESRCH, and closes its stream.
THEOREM QuietScanSound == Spec => QuietScanClean
<1>1. ASSUME QuietInv, Next, pc' = "returned", pc # "returned", quiet
      PROVE  result' \in Pids \cup {-ESRCH} /\ open' = open
  <2>1. EntryVpp \/ EndOfDir
    BY <1>1 DEF Next, Scan, ProcessStarts, ProcessExits, callVars, OpenDir,
                ReadDir, EntryFails, EntryEmpty, EntryOther
  <2>2. CASE EntryVpp
    <3>1. ptr # 0 /\ result' = ptr /\ open' = open /\ pc = "entry"
      BY <2>2 DEF EntryVpp, EntryReads, CanOpen, Return
    <3>2. ptr >= 0 /\ ptr \in -1..MaxPid
      BY <1>1, <3>1 DEF QuietInv, EntryThere, TypeOK
    <3>3. QED
      BY <3>1, <3>2 DEF Pids
  <2>3. CASE EndOfDir
    <3>1. Self \in Listed
      BY <1>1, VppPidAssumption DEF QuietInv, TypeOK, Listed, Pids
    <3>2. pc = "readdir" /\ Self <= ptr
      BY <2>3, <3>1 DEF EndOfDir
    <3>3. errno = 0
      BY <1>1, <3>2, VppPidAssumption DEF QuietInv, ClearPastSelf, TypeOK
    <3>4. QED
      BY <2>3, <3>3 DEF EndOfDir, Return
  <2>4. QED
    BY <2>1, <2>2, <2>3
<1>2. QuietInv /\ [Next]_vars =>
        [pc' = "returned" /\ pc # "returned" /\ quiet
           => result' \in Pids \cup {-ESRCH} /\ open' = open]_vars
  BY <1>1
<1>3. QED
  BY <1>2, QuietInit, QuietStep, ScanInvariance, PTL DEF Spec, QuietScanClean
=============================================================================
