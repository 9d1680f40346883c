-------------------------- MODULE ScPluginsProofs --------------------------
(***************************************************************************)
(* Proofs about ScPlugins for every set of objects and every bound: the    *)
(* type invariant, and the two properties that make the health check's     *)
(* early return trustworthy.  IInv is proved inductive part by part: each  *)
(* lemma below preserves one conjunct, action by action, from the ones     *)
(* before it.                                                              *)
(***************************************************************************)
EXTENDS ScPlugins, TLAPS

\* Every step keeps the types and the order of the process numbers.
LEMMA TypeStep ==
  ASSUME TypeOK, Next
  PROVE  TypeOK'
PROOF
<1> USE BoundsAssumption DEF TypeOK, InitPcs, HealthPcs, vppVars, pluginVars,
        ESRCH, ENOENT
<1>1. CASE VppStart
  BY <1>1 DEF VppStart
<1>2. CASE VppCrash
  BY <1>2 DEF VppCrash
<1>3. CASE Start
  <2>1. subscribed' \in BOOLEAN /\ raced' \in BOOLEAN
    BY <1>3, Zenon DEF Start, TypeOK
  <2>2. QED
    BY <1>3, <2>1 DEF Start
<1>4. CASE Retry
  BY <1>4 DEF Retry
<1>5. CASE Cleanup
  <2>1. subscribed' \in BOOLEAN /\ raced' \in BOOLEAN
    BY <1>5, Zenon DEF Cleanup, TypeOK, ProcessEnds
  <2>2. QED
    BY <1>5, <2>1 DEF Cleanup, ProcessEnds
<1>6. CASE DaemonDies
  <2>1. subscribed' \in BOOLEAN /\ raced' \in BOOLEAN
    BY <1>6, Zenon DEF DaemonDies, TypeOK, ProcessEnds
  <2>2. QED
    BY <1>6, <2>1 DEF DaemonDies, ProcessEnds
<1>7. CASE InitConnect
  BY <1>7 DEF InitConnect
<1>8. CASE Populate
  BY <1>8 DEF Populate
<1>9. CASE PopulateFails
  <2>1. subscribed' \in BOOLEAN /\ raced' \in BOOLEAN
    BY <1>9, Zenon DEF PopulateFails, TypeOK, ProcessEnds
  <2>2. QED
    BY <1>9, <2>1 DEF PopulateFails, ProcessEnds
<1>10. CASE Subscribe
  BY <1>10 DEF Subscribe
<1>11. CASE InitGetPid
  BY <1>11 DEF InitGetPid, GetVppPid
<1>12. CASE HealthCheckRead
  BY <1>12 DEF HealthCheckRead, GetVppPid
<1>13. CASE HealthCheckOk
  BY <1>13 DEF HealthCheckOk
<1>14. CASE HealthCheckDisconnect
  BY <1>14 DEF HealthCheckDisconnect
<1>15. CASE HealthCheckConnect
  BY <1>15 DEF HealthCheckConnect
<1>16. CASE ReplayDone
  BY <1>16 DEF ReplayDone
<1>17. ASSUME NEW o \in Objects, ReplayObject(o)
       PROVE  TypeOK'
  BY <1>17 DEF ReplayObject
<1>18. ASSUME NEW o \in Objects, WriteObject(o)
       PROVE  TypeOK'
  BY <1>18 DEF WriteObject
<1>19. ASSUME NEW o \in Objects, RemoveObject(o)
       PROVE  TypeOK'
  BY <1>19 DEF RemoveObject
<1>20. QED
  BY <1>1, <1>2, <1>3, <1>4, <1>5, <1>6, <1>7, <1>8, <1>9, <1>10, <1>11,
      <1>12, <1>13, <1>14, <1>15, <1>16, <1>17, <1>18, <1>19 DEF Next,
      InitStep, HealthCheckStep

\* Every step keeps the saved pids no newer than the connection.
LEMMA PidsStep ==
  ASSUME TypeOK, PidsOrdered, Next
  PROVE  PidsOrdered'
PROOF
<1> USE BoundsAssumption DEF TypeOK, InitPcs, HealthPcs, vppVars, pluginVars,
        ESRCH, ENOENT, PidsOrdered, InitWindow
<1>1. CASE VppStart
  BY <1>1 DEF VppStart
<1>2. CASE VppCrash
  <2>1. ~raced' => ~raced /\ ~InitWindow
    BY <1>2, Zenon DEF VppCrash
  <2>2. raced' \in BOOLEAN
    BY <1>2, Zenon DEF VppCrash
  <2>3. QED
    BY <1>2, <2>1, <2>2 DEF VppCrash
<1>3. CASE Start
  BY <1>3 DEF Start
<1>4. CASE Retry
  BY <1>4 DEF Retry
<1>5. CASE Cleanup
  BY <1>5 DEF Cleanup, ProcessEnds
<1>6. CASE DaemonDies
  BY <1>6 DEF DaemonDies, ProcessEnds
<1>7. CASE InitConnect
  BY <1>7 DEF InitConnect
<1>8. CASE Populate
  BY <1>8 DEF Populate
<1>9. CASE PopulateFails
  BY <1>9 DEF PopulateFails, ProcessEnds
<1>10. CASE Subscribe
  BY <1>10 DEF Subscribe
<1>11. CASE InitGetPid
  BY <1>11 DEF InitGetPid, GetVppPid
<1>12. CASE HealthCheckRead
  BY <1>12 DEF HealthCheckRead, GetVppPid
<1>13. CASE HealthCheckOk
  BY <1>13 DEF HealthCheckOk
<1>14. CASE HealthCheckDisconnect
  BY <1>14 DEF HealthCheckDisconnect
<1>15. CASE HealthCheckConnect
  BY <1>15 DEF HealthCheckConnect
<1>16. CASE ReplayDone
  BY <1>16 DEF ReplayDone
<1>17. ASSUME NEW o \in Objects, ReplayObject(o)
       PROVE  PidsOrdered'
  BY <1>17 DEF ReplayObject
<1>18. ASSUME NEW o \in Objects, WriteObject(o)
       PROVE  PidsOrdered'
  BY <1>18 DEF WriteObject
<1>19. ASSUME NEW o \in Objects, RemoveObject(o)
       PROVE  PidsOrdered'
  BY <1>19 DEF RemoveObject
<1>20. QED
  BY <1>1, <1>2, <1>3, <1>4, <1>5, <1>6, <1>7, <1>8, <1>9, <1>10, <1>11,
      <1>12, <1>13, <1>14, <1>15, <1>16, <1>17, <1>18, <1>19 DEF Next,
      InitStep, HealthCheckStep

\* Every step keeps the connected VPP configured as its stage requires.
LEMMA ConfiguredStep ==
  ASSUME TypeOK, PidsOrdered, Configured, Next
  PROVE  Configured'
PROOF
<1> USE BoundsAssumption DEF TypeOK, InitPcs, HealthPcs, vppVars, pluginVars,
        ESRCH, ENOENT, PidsOrdered, InitWindow, Configured
<1>1. CASE VppStart
  BY <1>1 DEF VppStart
<1>2. CASE VppCrash
  BY <1>2 DEF VppCrash
<1>3. CASE Start
  BY <1>3 DEF Start
<1>4. CASE Retry
  BY <1>4 DEF Retry
<1>5. CASE Cleanup
  BY <1>5 DEF Cleanup, ProcessEnds
<1>6. CASE DaemonDies
  BY <1>6 DEF DaemonDies, ProcessEnds
<1>7. CASE InitConnect
  BY <1>7 DEF InitConnect
<1>8. CASE Populate
  BY <1>8 DEF Populate
<1>9. CASE PopulateFails
  BY <1>9 DEF PopulateFails, ProcessEnds
<1>10. CASE Subscribe
  BY <1>10 DEF Subscribe
<1>11. CASE InitGetPid
  BY <1>11 DEF InitGetPid, GetVppPid
<1>12. CASE HealthCheckRead
  BY <1>12 DEF HealthCheckRead, GetVppPid
<1>13. CASE HealthCheckOk
  BY <1>13 DEF HealthCheckOk
<1>14. CASE HealthCheckDisconnect
  BY <1>14 DEF HealthCheckDisconnect
<1>15. CASE HealthCheckConnect
  BY <1>15 DEF HealthCheckConnect
<1>16. CASE ReplayDone
  BY <1>16 DEF ReplayDone
<1>17. ASSUME NEW o \in Objects, ReplayObject(o)
       PROVE  Configured'
  BY <1>17 DEF ReplayObject
<1>18. ASSUME NEW o \in Objects, WriteObject(o)
       PROVE  Configured'
  BY <1>18 DEF WriteObject
<1>19. ASSUME NEW o \in Objects, RemoveObject(o)
       PROVE  Configured'
  BY <1>19 DEF RemoveObject
<1>20. QED
  BY <1>1, <1>2, <1>3, <1>4, <1>5, <1>6, <1>7, <1>8, <1>9, <1>10, <1>11,
      <1>12, <1>13, <1>14, <1>15, <1>16, <1>17, <1>18, <1>19 DEF Next,
      InitStep, HealthCheckStep

\* Every step keeps RUNNING inside the VOM database during the first start.
LEMMA RunningStep ==
  ASSUME TypeOK, RunningInVom, Next
  PROVE  RunningInVom'
PROOF
<1> USE BoundsAssumption DEF TypeOK, InitPcs, HealthPcs, vppVars, pluginVars,
        RunningInVom
<1>1. CASE VppStart
  BY <1>1 DEF VppStart
<1>2. CASE VppCrash
  BY <1>2 DEF VppCrash
<1>3. CASE Start
  BY <1>3 DEF Start
<1>4. CASE Retry
  BY <1>4 DEF Retry
<1>5. CASE Cleanup
  BY <1>5 DEF Cleanup, ProcessEnds
<1>6. CASE DaemonDies
  BY <1>6 DEF DaemonDies, ProcessEnds
<1>7. CASE InitConnect
  BY <1>7 DEF InitConnect
<1>8. CASE Populate
  BY <1>8 DEF Populate
<1>9. CASE PopulateFails
  BY <1>9 DEF PopulateFails, ProcessEnds
<1>10. CASE Subscribe
  BY <1>10 DEF Subscribe
<1>11. CASE InitGetPid
  BY <1>11 DEF InitGetPid, GetVppPid
<1>12. CASE HealthCheckRead
  BY <1>12 DEF HealthCheckRead, GetVppPid
<1>13. CASE HealthCheckOk
  BY <1>13 DEF HealthCheckOk
<1>14. CASE HealthCheckDisconnect
  BY <1>14 DEF HealthCheckDisconnect
<1>15. CASE HealthCheckConnect
  BY <1>15 DEF HealthCheckConnect
<1>16. CASE ReplayDone
  BY <1>16 DEF ReplayDone
<1>17. ASSUME NEW o \in Objects, ReplayObject(o)
       PROVE  RunningInVom'
  BY <1>17 DEF ReplayObject
<1>18. ASSUME NEW o \in Objects, WriteObject(o)
       PROVE  RunningInVom'
  BY <1>18 DEF WriteObject
<1>19. ASSUME NEW o \in Objects, RemoveObject(o)
       PROVE  RunningInVom'
  BY <1>19 DEF RemoveObject
<1>20. QED
  BY <1>1, <1>2, <1>3, <1>4, <1>5, <1>6, <1>7, <1>8, <1>9, <1>10, <1>11,
      <1>12, <1>13, <1>14, <1>15, <1>16, <1>17, <1>18, <1>19 DEF Next,
      InitStep, HealthCheckStep

\* The initial state satisfies the inductive invariant.
LEMMA InitIInv == Init => IInv
PROOF
<1> SUFFICES ASSUME Init PROVE IInv
  OBVIOUS
<1>1. raced = FALSE /\ raced \in BOOLEAN /\ subscribed \in BOOLEAN
  BY Zenon DEF Init
<1>2. TypeOK
  BY <1>1, BoundsAssumption DEF Init, TypeOK, InitPcs, HealthPcs
<1>3. PidsOrdered
  BY DEF Init, PidsOrdered, InitWindow, InitPcs
<1>4. Configured /\ RunningInVom
  BY DEF Init, Configured, RunningInVom
<1>5. QED
  BY <1>2, <1>3, <1>4 DEF IInv

\* The inductive invariant holds in every reachable state.
THEOREM Invariance == Spec => []IInv
PROOF
<1>1. IInv /\ [Next]_vars => IInv'
  <2> SUFFICES ASSUME IInv, [Next]_vars PROVE IInv'
    OBVIOUS
  <2>1. CASE Next
    BY <2>1, TypeStep, PidsStep, ConfiguredStep, RunningStep DEF IInv
  <2>2. CASE UNCHANGED vars
    BY <2>2 DEF vars, vppVars, pluginVars, IInv, TypeOK, PidsOrdered,
       Configured, RunningInVom, InitWindow
  <2>3. QED
    BY <2>1, <2>2
<1>2. QED
  BY InitIInv, <1>1, PTL DEF Spec

\* Type correctness, for every Objects, MaxVpp and MaxStarts.
THEOREM TypeCorrect == Spec => []TypeOK
PROOF
<1>1. IInv => TypeOK
  BY DEF IInv
<1>2. QED
  BY Invariance, <1>1, PTL

\* The health check's early return on the pid of the running VPP: the saved
\* pid is no newer than the connection, and the connection no newer than the
\* running VPP, so all three are equal.
LEMMA HealthyFromIInv == IInv => HealthyMeansConfigured
PROOF
<1> SUFFICES ASSUME IInv, ReportsHealthy, vpp_pid_now = vppPid, ~raced
             PROVE  conn = vppPid /\ om \subseteq vppObjs
  BY DEF HealthyMeansConfigured
<1>1. vpp_pid_start <= conn /\ vppPid # 0
  BY DEF IInv, PidsOrdered, ReportsHealthy
<1>2. conn = vppPid
  BY <1>1 DEF IInv, TypeOK, ReportsHealthy
<1>3. QED
  BY <1>1, <1>2 DEF IInv, Configured, ReportsHealthy

\* sr_plugin_health_check_cb() returns early only over a configured VPP.
THEOREM HealthySound == Spec => []HealthyMeansConfigured
  BY Invariance, HealthyFromIInv, PTL

\* No configuration accepted since the daemon's first start is lost by VPP
\* crashes the health check has dealt with.
THEOREM RunningRestoredSound == Spec => []RunningRestored
PROOF
<1>1. IInv => RunningRestored
  <2> SUFFICES ASSUME IInv PROVE RunningRestored
    OBVIOUS
  <2>1. HealthyMeansConfigured
    BY HealthyFromIInv
  <2>2. QED
    BY <2>1 DEF HealthyMeansConfigured, RunningRestored, ReportsHealthy,
       IInv, RunningInVom
<1>2. QED
  BY Invariance, <1>1, PTL
=============================================================================
