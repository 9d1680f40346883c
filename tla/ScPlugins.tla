----------------------------- MODULE ScPlugins -----------------------------
(***************************************************************************)
(* The plugin's life cycle against VPP (src/plugins/sc_plugins.c): initial *)
(* connection, population of the VOM database, subscription, and the       *)
(* health check that notices a VPP restart and replays the configuration.  *)
(*                                                                         *)
(* VPP and the plugin daemon are separate processes: VPP may crash and     *)
(* come back between any two steps of the plugin, and the daemon may die   *)
(* and be started again.  The k-th VPP process is number k, which stands   *)
(* for its pid: two VPP processes never have the same pid.                 *)
(*                                                                         *)
(* VOM, VPP and sysrepo are outside the repository.  They are modelled by  *)
(* what the plugin expects of them: VOM keeps the objects it wrote and     *)
(* can replay them, VPP holds objects until it dies, sysrepo keeps the     *)
(* RUNNING datastore across restarts of either.                            *)
(***************************************************************************)
EXTENDS Integers

CONSTANTS
  Objects,    \* configuration objects (interfaces, prefixes, NAT mappings)
  MaxVpp,     \* bound on the VPP processes started in one behaviour
  MaxStarts   \* bound on the starts of the plugin daemon

ASSUME BoundsAssumption == MaxVpp \in Nat /\ MaxStarts \in Nat

VARIABLES
  vppPid,         \* pid of the running VPP process, 0 when none runs
  spawned,        \* number of VPP processes started so far
  vppObjs,        \* objects configured in the running VPP process
  running,        \* objects accepted into sysrepo's RUNNING datastore
  pc,             \* where the plugin daemon stands
  starts,         \* number of daemon starts so far
  subscribed,     \* the callbacks are registered with sysrepo
  conn,           \* VPP process the VAPI connection leads to, 0 when none
  om,             \* objects of the VOM database that were written to VPP:
                  \* the ones that OM::replay() sends
  boot,           \* those of them OM::populate() holds under the key "boot"
  todo,           \* objects OM::replay() has still to send
  vpp_pid_start,  \* static variable: pid the health check compares with
  vpp_pid_now,    \* local variable of the health check
  raced           \* history: VPP died after this daemon first connected
                  \* and before sr_plugin_init_cb() had read its pid

vppVars    == <<vppPid, spawned, vppObjs>>
pluginVars == <<pc, starts, subscribed, conn, om, boot, todo,
                vpp_pid_start, vpp_pid_now>>
vars       == <<vppVars, running, pluginVars, raced>>

ESRCH  == 3
ENOENT == 2

InitPcs   == {"connect", "populate", "subscribe", "get_pid"}
HealthPcs == {"idle", "hc_compare", "hc_connect", "hc_replay"}

(***************************************************************************)
(* The window in which a VPP restart goes unnoticed: connected, and the    *)
(* reference pid not read yet.                                             *)
(***************************************************************************)
InitWindow == conn # 0 /\ pc \notin HealthPcs

Init ==
  /\ vppPid = 0 /\ spawned = 0 /\ vppObjs = {}
  /\ running = {}
  /\ pc = "down" /\ starts = 0 /\ subscribed = FALSE
  /\ conn = 0 /\ om = {} /\ boot = {} /\ todo = {}
  /\ vpp_pid_start = 0 /\ vpp_pid_now = 0
  /\ raced = FALSE

-----------------------------------------------------------------------------
(***************************************************************************)
(* VPP, an external process.  It crashes only while the bound still        *)
(* allows a successor.                                                     *)
(***************************************************************************)
VppStart ==
  /\ vppPid = 0 /\ spawned < MaxVpp
  /\ spawned' = spawned + 1
  /\ vppPid' = spawned + 1
  /\ vppObjs' = {}
  /\ UNCHANGED <<running, pluginVars, raced>>

VppCrash ==
  /\ vppPid # 0 /\ spawned < MaxVpp
  /\ vppPid' = 0
  /\ vppObjs' = {}
  /\ raced' = (raced \/ InitWindow)
  /\ UNCHANGED <<spawned, running, pluginVars>>

(***************************************************************************)
(* get_vpp_pid(): the pid of the running VPP, or a negated errno.  The     *)
(* scan of /proc resets errno only after an entry it could read, so an     *)
(* errno left by fopen() may be returned in place of ESRCH.                *)
(***************************************************************************)
\* mutant: the sign of the error is forgotten
GetVppPidPositive == IF vppPid # 0 THEN {vppPid} ELSE {ESRCH, ENOENT}

GetVppPid == IF vppPid # 0 THEN {vppPid} ELSE {-ESRCH, -ENOENT}

-----------------------------------------------------------------------------
(***************************************************************************)
(* sr_plugin_init_cb().  A new daemon process has an empty VOM database    *)
(* and a zero vpp_pid_start.                                               *)
(***************************************************************************)
Start ==
  /\ pc = "down" /\ starts < MaxStarts
  /\ starts' = starts + 1
  /\ pc' = "connect"
  /\ subscribed' = FALSE
  /\ conn' = 0 /\ om' = {} /\ boot' = {} /\ todo' = {}
  /\ vpp_pid_start' = 0 /\ vpp_pid_now' = 0
  /\ raced' = FALSE
  /\ UNCHANGED <<vppVars, running>>

\* while (HW::connect() != true);
InitConnect ==
  /\ pc = "connect" /\ vppPid # 0
  /\ conn' = vppPid
  /\ pc' = "populate"
  /\ UNCHANGED <<vppVars, running, starts, subscribed, om, boot, todo,
                 vpp_pid_start, vpp_pid_now, raced>>

\* OM::populate("boot"): what VPP holds is added under the key "boot".
Populate ==
  /\ pc = "populate" /\ conn = vppPid
  /\ om' = om \cup vppObjs
  /\ boot' = boot \cup vppObjs
  /\ pc' = "subscribe"
  /\ UNCHANGED <<vppVars, running, starts, subscribed, conn, todo,
                 vpp_pid_start, vpp_pid_now, raced>>

\* The process is gone: exit(1), a signal, or the end of a cleanup.
ProcessEnds ==
  /\ pc' = "down"
  /\ subscribed' = FALSE
  /\ conn' = 0
  /\ UNCHANGED <<vppVars, running, starts, om, boot, todo,
                 vpp_pid_start, vpp_pid_now, raced>>

\* The dump throws: exit(1).
PopulateFails == pc = "populate" /\ ProcessEnds

\* sc_call_all_init_function(): every subscription made, or an early return
\* that keeps the ones made so far (ScInit has the detail).
Subscribe ==
  /\ pc = "subscribe"
  /\ subscribed' = TRUE
  /\ pc' \in {"get_pid", "failed"}
  /\ UNCHANGED <<vppVars, running, starts, conn, om, boot, todo,
                 vpp_pid_start, vpp_pid_now, raced>>

\* vpp_pid_start = get_vpp_pid(), read last; negative: SR_ERR_DISCONNECT.
InitGetPid ==
  /\ pc = "get_pid"
  /\ vpp_pid_start' \in GetVppPid
  /\ pc' = IF vpp_pid_start' < 0 THEN "failed" ELSE "idle"
  /\ UNCHANGED <<vppVars, running, starts, subscribed, conn, om, boot, todo,
                 vpp_pid_now, raced>>

\* The daemon calls sr_plugin_init_cb() again after an initialisation error,
\* in the same process: VOM database and subscriptions are still there.
\* HW::init() and OM::init() run again; they are outside the repository, and
\* taken to leave the database and the connection as they are.
Retry ==
  /\ pc = "failed"
  /\ pc' = "connect"
  /\ UNCHANGED <<vppVars, running, starts, subscribed, conn, om, boot, todo,
                 vpp_pid_start, vpp_pid_now, raced>>

\* sr_plugin_cleanup_cb(), called for an initialised plugin: exit functions,
\* sr_unsubscribe(), HW::disconnect(); the daemon process then ends.
Cleanup == pc = "idle" /\ ProcessEnds

\* The daemon dies without a cleanup.
DaemonDies == pc # "down" /\ ProcessEnds

-----------------------------------------------------------------------------
(***************************************************************************)
(* sr_plugin_health_check_cb(), on a timer of the daemon.                  *)
(***************************************************************************)
HealthCheckRead ==
  /\ pc = "idle"
  /\ vpp_pid_now' \in GetVppPid
  /\ pc' = "hc_compare"
  /\ UNCHANGED <<vppVars, running, starts, subscribed, conn, om, boot, todo,
                 vpp_pid_start, raced>>

\* "VPP has not crashed"
HealthCheckOk ==
  /\ pc = "hc_compare" /\ vpp_pid_now = vpp_pid_start
  /\ pc' = "idle"
  /\ UNCHANGED <<vppVars, running, starts, subscribed, conn, om, boot, todo,
                 vpp_pid_start, vpp_pid_now, raced>>

HealthCheckDisconnect ==
  /\ pc = "hc_compare" /\ vpp_pid_now # vpp_pid_start
  /\ conn' = 0
  /\ pc' = "hc_connect"
  /\ UNCHANGED <<vppVars, running, starts, subscribed, om, boot, todo,
                 vpp_pid_start, vpp_pid_now, raced>>

\* mutant: the replay is forgotten
HealthCheckConnectNoReplay ==
  /\ pc = "hc_connect" /\ vppPid # 0
  /\ conn' = vppPid
  /\ todo' = {}
  /\ pc' = "hc_replay"
  /\ UNCHANGED <<vppVars, running, starts, subscribed, om, boot,
                 vpp_pid_start, vpp_pid_now, raced>>

\* while (HW::connect() != true); then OM::replay() walks the VOM database.
HealthCheckConnect ==
  /\ pc = "hc_connect" /\ vppPid # 0
  /\ conn' = vppPid
  /\ todo' = om
  /\ pc' = "hc_replay"
  /\ UNCHANGED <<vppVars, running, starts, subscribed, om, boot,
                 vpp_pid_start, vpp_pid_now, raced>>

\* One object of the replay; lost when its VPP process is gone.  OM::replay()
\* reports no outcome: a VPP that is there is taken to accept what it or its
\* predecessor has accepted before.
ReplayObject(o) ==
  /\ pc = "hc_replay" /\ o \in todo
  /\ todo' = todo \ {o}
  /\ vppObjs' = IF conn = vppPid THEN vppObjs \cup {o} ELSE vppObjs
  /\ UNCHANGED <<vppPid, spawned, running, pc, starts, subscribed, conn, om,
                 boot, vpp_pid_start, vpp_pid_now, raced>>

\* mutant: the pid is read again instead of using the one read first
ReplayDoneFreshPid ==
  /\ pc = "hc_replay" /\ todo = {}
  /\ vpp_pid_start' \in GetVppPid
  /\ pc' = "idle"
  /\ UNCHANGED <<vppVars, running, starts, subscribed, conn, om, boot, todo,
                 vpp_pid_now, raced>>

\* vpp_pid_start = vpp_pid_now: the pid read before connecting.
ReplayDone ==
  /\ pc = "hc_replay" /\ todo = {}
  /\ vpp_pid_start' = vpp_pid_now
  /\ pc' = "idle"
  /\ UNCHANGED <<vppVars, running, starts, subscribed, conn, om, boot, todo,
                 vpp_pid_now, raced>>

-----------------------------------------------------------------------------
(***************************************************************************)
(* Configuration callbacks, seen from here: an OM::write() that returns OK *)
(* leaves the object in VOM and in VPP and the commit is accepted; one     *)
(* that fails rejects the commit.  OM::remove() drops the owner's          *)
(* reference, so an object also held by "boot" stays, and its result is    *)
(* not looked at: the commit is accepted whether or not VPP was reached.   *)
(***************************************************************************)
WriteObject(o) ==
  /\ subscribed /\ o \notin running
  /\ conn = vppPid /\ vppPid # 0
  /\ om' = om \cup {o}
  /\ vppObjs' = vppObjs \cup {o}
  /\ running' = running \cup {o}
  /\ UNCHANGED <<vppPid, spawned, pc, starts, subscribed, conn, boot, todo,
                 vpp_pid_start, vpp_pid_now, raced>>

RemoveObject(o) ==
  /\ subscribed /\ o \in running
  /\ running' = running \ {o}
  /\ IF o \in boot
       THEN UNCHANGED <<om, todo, vppObjs>>
       ELSE /\ om' = om \ {o}
            /\ todo' = todo \ {o}
            /\ vppObjs' = IF conn = vppPid THEN vppObjs \ {o} ELSE vppObjs
  /\ UNCHANGED <<vppPid, spawned, pc, starts, subscribed, conn, boot,
                 vpp_pid_start, vpp_pid_now, raced>>

-----------------------------------------------------------------------------
InitStep == InitConnect \/ Populate \/ PopulateFails \/ Subscribe \/ InitGetPid

HealthCheckStep ==
  \/ HealthCheckRead \/ HealthCheckOk \/ HealthCheckDisconnect
  \/ HealthCheckConnect \/ (\E o \in Objects : ReplayObject(o)) \/ ReplayDone

Next ==
  \/ VppStart \/ VppCrash
  \/ Start \/ Retry \/ Cleanup \/ DaemonDies
  \/ InitStep \/ HealthCheckStep
  \/ \E o \in Objects : WriteObject(o) \/ RemoveObject(o)

Spec == Init /\ [][Next]_vars

(***************************************************************************)
(* VPP and the daemon are services that are started again; the daemon's    *)
(* own code runs, and its timer keeps calling the health check.  Crashes   *)
(* and configuration requests are never promised.                          *)
(***************************************************************************)
Fairness ==
  /\ WF_vars(VppStart) /\ WF_vars(Start) /\ WF_vars(Retry)
  /\ WF_vars(InitStep) /\ WF_vars(HealthCheckStep)

FairSpec == Spec /\ Fairness

-----------------------------------------------------------------------------
(***************************************************************************)
(* Properties                                                              *)
(***************************************************************************)

\* Types of the variables; the live VPP process is always the newest one.
TypeOK ==
  /\ spawned \in 0..MaxVpp /\ vppPid \in {0, spawned}
  /\ vppObjs \subseteq Objects /\ running \subseteq Objects
  /\ pc \in InitPcs \cup HealthPcs \cup {"down", "failed"}
  /\ starts \in 0..MaxStarts /\ subscribed \in BOOLEAN
  /\ conn \in 0..spawned
  /\ om \subseteq Objects /\ boot \subseteq Objects /\ todo \subseteq Objects
  /\ vpp_pid_start \in (0..spawned) \cup {-ESRCH, -ENOENT}
  /\ vpp_pid_now \in (0..spawned) \cup {-ESRCH, -ENOENT}
  /\ raced \in BOOLEAN

\* The health check is about to report the running VPP as not crashed.
ReportsHealthy == pc = "hc_compare" /\ vpp_pid_now = vpp_pid_start

(***************************************************************************)
(* When the health check takes its early return on the pid of the running  *)
(* VPP, the connection leads to that process and it holds every object of  *)
(* the VOM database, whatever crashes happened during earlier reconnects   *)
(* and replays: saving the pid read before connecting errs on the side of  *)
(* one more replay.  Holds unless VPP died inside the init window.         *)
(***************************************************************************)
HealthyMeansConfigured ==
  ReportsHealthy /\ vpp_pid_now = vppPid /\ ~raced
    => conn = vppPid /\ om \subseteq vppObjs

(***************************************************************************)
(* As long as the daemon has not been restarted, a healthy VPP holds all   *)
(* of the accepted configuration: nothing accepted before, during or after *)
(* a VPP crash is lost.                                                    *)
(***************************************************************************)
RunningRestored ==
  ReportsHealthy /\ vpp_pid_now = vppPid /\ ~raced /\ starts = 1
    => running \subseteq vppObjs

(***************************************************************************)
(* Once VPP and the daemon stay up, the plugin ends up connected to VPP    *)
(* for good with every object of VOM in it.  Not claimed when the daemon   *)
(* is down for good, when initialisation fails again and again, or when    *)
(* VPP died in the init window.                                            *)
(***************************************************************************)
Recovers ==
  \/ <>[](vppPid # 0 /\ conn = vppPid /\ om \subseteq vppObjs)
  \/ <>[](pc = "down") \/ []<>(pc = "failed") \/ <>[]raced

(***************************************************************************)
(* The inductive invariant behind the safety properties.                   *)
(***************************************************************************)

\* Which process the connection and the saved pids may name.  Until the pid
\* is read the connection is to the live VPP; afterwards the saved pid is
\* never newer than the connection, so an equal live pid means the same VPP.
PidsOrdered ==
  /\ pc \in (InitPcs \cup {"failed"}) \ {"connect"} => conn # 0
  /\ InitWindow /\ ~raced => conn = vppPid
  /\ pc \in {"idle", "hc_compare"} /\ ~raced => vpp_pid_start <= conn
  /\ pc = "hc_compare" => vpp_pid_now # 0
  /\ pc = "hc_replay" => vpp_pid_now <= conn

\* What the connected VPP holds at each stage.
Configured ==
  /\ pc = "connect" /\ conn = 0 => om = {}
  /\ pc \notin {"hc_connect", "hc_replay"} =>
       (conn = vppPid /\ conn # 0 /\ ~raced => om \subseteq vppObjs)
  /\ pc = "hc_replay" /\ conn = vppPid /\ conn # 0
       => om \subseteq vppObjs \cup todo

\* During the first start the VOM database holds all of RUNNING.
RunningInVom ==
  /\ pc = "down" => ~subscribed
  /\ starts = 0 => pc = "down" /\ running = {}
  /\ starts = 1 /\ pc # "down" => running \subseteq om

\* Preserved by every step of the plugin, of VPP and of the daemon, and strong
\* enough for HealthyMeansConfigured and RunningRestored.
IInv == TypeOK /\ PidsOrdered /\ Configured /\ RunningInVom

(***************************************************************************)
(* Claims of the code's comments that the code does not keep.              *)
(***************************************************************************)

\* sc_plugins.c:171 "VPP has not crashed", at the early return, for the
\* process the plugin is connected to.  A second crash after a health check
\* that began while VPP was down compares -ESRCH with -ESRCH.
NotCrashed == ReportsHealthy /\ ~raced => vpp_pid_now = conn

\* sc_plugins.c:183-185 "so that VPP state matches sysrepo RUNNING DS", at the
\* end of the replay.  A daemon started after a VPP crash has an empty VOM
\* database, and replays that.
ReplayRestoresRunning ==
  pc = "hc_replay" /\ todo = {} /\ conn = vppPid /\ ~raced
    => running \subseteq vppObjs
=============================================================================
