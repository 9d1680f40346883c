------------------------------- MODULE VppPid -------------------------------
(***************************************************************************)
(* get_vpp_pid() of src/plugins/sc_plugins.c: the scan of /proc for a VPP  *)
(* process, entry by entry, while processes start and exit.  ScPlugins     *)
(* takes it for one step; this module shows when that is right.            *)
(*                                                                         *)
(* readdir() delivers the directories of /proc that are no process first,  *)
(* taken together as entry 0, and then the processes by pid.  A process is *)
(* listed before its cmdline is opened, and may be gone by then.  errno is *)
(* whatever the last failing call left; the scan clears it only after an   *)
(* entry that it could read.                                               *)
(***************************************************************************)
EXTENDS Integers

CONSTANTS
  MaxPid,   \* pids are 1..MaxPid
  Self,     \* pid of the plugin daemon
  MaxOpen   \* bound on the file descriptors of the daemon

ASSUME VppPidAssumption ==
  MaxPid \in Nat /\ Self \in 1..MaxPid /\ MaxOpen \in Nat \ {0, 1}

VARIABLES
  proc,     \* by pid: "vpp", another program with a cmdline, a process with
            \* an empty cmdline (a kernel thread, a zombie), or "none"
  open,     \* directory streams left open by earlier calls
  errno,
  pc,       \* where the call stands
  ptr,      \* local variable: the entry readdir() returned last
  result,   \* what the last call returned
  during,   \* history: the pids VPP has had since the call began, 0 for none
  quiet     \* history: no process has exited and no descriptor was missing
            \* since the call began

callVars == <<open, errno, pc, ptr, result>>
vars == <<proc, callVars, during, quiet>>

ENOENT == 2
ESRCH  == 3
EMFILE == 24

Pids == 1..MaxPid
Contents == {"vpp", "other", "empty"}

\* The pid of VPP; there is at most one.
VppIn(ps) ==
  IF \E p \in Pids : ps[p] = "vpp" THEN CHOOSE p \in Pids : ps[p] = "vpp" ELSE 0

Init ==
  /\ proc = [p \in Pids |-> IF p = Self THEN "other" ELSE "none"]
  /\ open = 0 /\ errno = 0
  /\ pc = "returned" /\ ptr = -1 /\ result = -ESRCH
  /\ during = {0} /\ quiet = TRUE

-----------------------------------------------------------------------------
(***************************************************************************)
(* The other processes of the machine.                                     *)
(***************************************************************************)
ProcessStarts(p, c) ==
  /\ proc[p] = "none"
  /\ c = "vpp" => VppIn(proc) = 0
  /\ proc' = [proc EXCEPT ![p] = c]
  /\ during' = during \cup {VppIn(proc')}
  /\ UNCHANGED <<callVars, quiet>>

ProcessExits(p) ==
  /\ proc[p] # "none" /\ p # Self
  /\ proc' = [proc EXCEPT ![p] = "none"]
  /\ during' = during \cup {VppIn(proc')}
  /\ quiet' = FALSE
  /\ UNCHANGED callVars

-----------------------------------------------------------------------------
Return(r) == pc' = "returned" /\ result' = r /\ ptr' = -1

\* mutant: the result of opendir() is not looked at
OpenDirUnchecked ==
  /\ pc = "returned"
  /\ during' = {VppIn(proc)}
  /\ errno' \in {0, ENOENT}
  /\ pc' = "readdir"
  /\ quiet' = (open < MaxOpen)
  /\ UNCHANGED <<proc, open, ptr, result>>

\* opendir("/proc"); errno is what other code of the daemon has left in it.
OpenDir ==
  /\ pc = "returned"
  /\ during' = {VppIn(proc)}
  /\ IF open < MaxOpen
       THEN /\ errno' \in {0, ENOENT}
            /\ pc' = "readdir"
            /\ UNCHANGED <<ptr, result>>
       ELSE errno' = EMFILE /\ Return(-EMFILE)
  /\ quiet' = (open < MaxOpen)
  /\ UNCHANGED <<proc, open>>

Listed == {0} \cup {p \in Pids : proc[p] # "none"}

\* mutant: every call of readdir() starts at the first entry
ReadDirRewinds ==
  /\ pc = "readdir"
  /\ ptr' = 0
  /\ pc' = "entry"
  /\ UNCHANGED <<proc, open, errno, result, during, quiet>>

ReadDir ==
  /\ pc = "readdir" /\ \E e \in Listed : e > ptr
  /\ ptr' = CHOOSE e \in Listed : e > ptr /\ \A f \in Listed : f > ptr => e <= f
  /\ pc' = "entry"
  /\ UNCHANGED <<proc, open, errno, result, during, quiet>>

\* The stream of this call takes a descriptor, too.
NoDescriptor == open + 1 >= MaxOpen

\* fopen() fails, or the process exits between fopen() and fread(), which
\* then reads nothing and says why.
FailsWith ==
  IF NoDescriptor THEN {EMFILE} ELSE IF ptr = 0 THEN {ENOENT} ELSE {ENOENT, ESRCH}

CanOpen == ~NoDescriptor /\ ptr # 0 /\ proc[ptr] # "none"

\* mutant: break instead of continue
EntryFailsBreaks ==
  /\ pc = "entry" /\ ~CanOpen
  /\ errno' \in FailsWith
  /\ quiet' = (quiet /\ ~NoDescriptor)
  /\ Return(-errno')
  /\ UNCHANGED <<proc, open, during>>

\* The cmdline cannot be read: continue, with errno set.
EntryFails ==
  /\ pc = "entry" /\ ~CanOpen
  /\ errno' \in FailsWith
  /\ quiet' = (quiet /\ ~NoDescriptor)
  /\ pc' = "readdir"
  /\ UNCHANGED <<proc, open, ptr, result, during>>

\* The cmdline is opened, and read.
EntryReads(c) == pc = "entry" /\ CanOpen /\ proc[ptr] = c

EntryEmpty ==
  /\ EntryReads("empty")
  /\ pc' = "readdir"
  /\ UNCHANGED <<proc, open, errno, ptr, result, during, quiet>>

EntryVpp ==
  /\ EntryReads("vpp")
  /\ Return(ptr)
  /\ UNCHANGED <<proc, open, errno, during, quiet>>

\* mutant: errno is not cleared
EntryOtherKeeps ==
  /\ EntryReads("other")
  /\ pc' = "readdir"
  /\ UNCHANGED <<proc, open, errno, ptr, result, during, quiet>>

EntryOther ==
  /\ EntryReads("other")
  /\ errno' = 0
  /\ pc' = "readdir"
  /\ UNCHANGED <<proc, open, ptr, result, during, quiet>>

\* readdir() returns NULL.  If errno is set, the stream is left open.
EndOfDir ==
  /\ pc = "readdir" /\ \A e \in Listed : e <= ptr
  /\ IF errno # 0
       THEN Return(-errno) /\ open' = open + 1
       ELSE Return(-ESRCH) /\ UNCHANGED open
  /\ UNCHANGED <<proc, errno, during, quiet>>

Scan ==
  \/ ReadDir \/ EntryFails \/ EntryEmpty \/ EntryVpp \/ EntryOther \/ EndOfDir

Next ==
  \/ \E p \in Pids, c \in Contents : ProcessStarts(p, c)
  \/ \E p \in Pids : ProcessExits(p)
  \/ OpenDir \/ Scan

Spec == Init /\ [][Next]_vars /\ WF_vars(Scan)

-----------------------------------------------------------------------------
(***************************************************************************)
(* Properties                                                              *)
(***************************************************************************)

\* Types of the variables.
TypeOK ==
  /\ proc \in [Pids -> Contents \cup {"none"}] /\ proc[Self] = "other"
  /\ open \in 0..MaxOpen /\ errno \in {0, ENOENT, ESRCH, EMFILE}
  /\ pc \in {"returned", "readdir", "entry"} /\ ptr \in -1..MaxPid
  /\ result \in Pids \cup {-ENOENT, -ESRCH, -EMFILE}
  /\ during \subseteq 0..MaxPid /\ quiet \in BOOLEAN

(***************************************************************************)
(* As long as there are descriptors, the scan returns what an atomic read  *)
(* at some moment of it would: the pid of a VPP that ran during the scan,  *)
(* or an error if there was a moment without one.  A VPP that runs all     *)
(* along is found, although entries come and go before and after it.  This *)
(* is what ScPlugins!GetVppPid relies on.                                  *)
(***************************************************************************)
ReadsAtomically ==
  pc = "returned" /\ result # -EMFILE
    => IF result > 0 THEN result \in during ELSE 0 \in during

(***************************************************************************)
(* A call during which no process exits returns what its comment says, a   *)
(* pid or -ESRCH, and closes its stream: the errno left by the directories *)
(* that are no process, or from before the call, is cleared by the         *)
(* daemon's own entry at the latest.                                       *)
(***************************************************************************)
QuietScanClean ==
  [][pc' = "returned" /\ pc # "returned" /\ quiet
       => result' \in Pids \cup {-ESRCH} /\ open' = open]_vars

\* The scan ends, although processes may start and exit for ever.
ScanReturns == pc # "returned" ~> pc = "returned"
=============================================================================
