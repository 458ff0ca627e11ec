----------------------------- MODULE BatchProofs -----------------------------
(***************************************************************************)
(* Proofs about BatchSetIp, for every number of cameras, pairs and workers *)
(* and every timing.                                                       *)
(***************************************************************************)
EXTENDS BatchProperties, TLAPS

USE DEF cameras, caller, settings, time, jobs, history

-----------------------------------------------------------------------------
(* Which steps touch what. *)

\* The cameras are touched by the write, the reboot and their own steps only.
LEMMA CameraSteps ==
  ASSUME [Next]_vars
  PROVE  \/ UNCHANGED <<cameras, written>>
         \/ PutAcknowledged \/ Environment
         \/ \E o \in Outcomes : PutFails(o) \/ Reboot(o)
BY Zenon DEF Next, Caller, Job, Tick, ProbeSubmit, GetConfig, ReturnUnverified,
   StartPool, ReturnVerified, Collect, Dequeue, DeadlinePassed, ProbeNew,
   NewOpen, ProbeOld, OldOpen, OldClosed, JobRaises, vars

\* The caller's own state changes in the caller's steps only.
LEMMA CallerSteps ==
  ASSUME [Next]_vars
  PROVE  Caller \/ UNCHANGED <<caller, acked>>
BY Zenon DEF Next, Job, Tick, Dequeue, DeadlinePassed, ProbeNew, NewOpen,
   ProbeOld, OldOpen, OldClosed, JobRaises, Environment, SetClock, Restarts, BootsUp,
   LateWrite, vars

\* The pool changes when it is started, in its jobs, when a result is
\* collected and when time passes or the clock is set.
LEMMA JobSteps ==
  ASSUME [Next]_vars
  PROVE  \/ UNCHANGED <<time, jobs>>
         \/ StartPool \/ Tick \/ SetClock \/ \E i \in Pairs : Collect(i) \/ Job(i)
BY Zenon DEF Next, Caller, ProbeSubmit, GetConfig, PutAcknowledged, PutFails,
   Reboot, ReturnUnverified, ReturnVerified, Environment, SetClock, Restarts, BootsUp,
   LateWrite, vars

\* Whether probes get lost and who is in DHCP mode is settled before the call.
LEMMA SettingsStay ==
  ASSUME [Next]_vars
  PROVE  lossy' = lossy /\ dhcp' = dhcp
BY CallerSteps, Zenon
DEF Caller, ProbeSubmit, GetConfig, PutAcknowledged, PutFails, Reboot,
    ReturnUnverified, StartPool, ReturnVerified, Collect, vars

-----------------------------------------------------------------------------
(* Types. *)

\* Every step keeps the types of the cameras and of what travels to them.
LEMMA CamerasType == TypeOK /\ [Next]_vars => CamerasOK'
<1> SUFFICES ASSUME TypeOK, [Next]_vars PROVE CamerasOK'
  OBVIOUS
<1> USE BatchAssumption DEF TypeOK, CamerasOK, CallerOK
<1>1. ASSUME NEW i \in Pairs, NEW d \in Devices, Write(i, d)
      PROVE  /\ addr' \in [Devices -> Addresses]
             /\ conf' \in [Devices -> Addresses]
             /\ written' \subseteq Pairs \X Devices
  BY <1>1 DEF Write
<1>2. ASSUME NEW d \in Devices, GoDown(d)
      PROVE  up' \in [Devices -> BOOLEAN] /\ inflight' \subseteq Pairs \X Devices
  BY <1>2 DEF GoDown
<1>3. CASE UNCHANGED <<cameras, written>>
  BY <1>3
<1>4. CASE PutAcknowledged
  BY <1>1, <1>4 DEF PutAcknowledged, Answering
<1>5. ASSUME NEW o \in Outcomes, PutFails(o) PROVE CamerasOK'
  <2>1. cur \in Pairs /\ UNCHANGED up
    BY <1>5 DEF PutFails
  <2>2. CASE UNCHANGED <<addr, conf, inflight, written>>
    BY <2>1, <2>2
  <2>3. ASSUME NEW d \in Devices, Write(cur, d), UNCHANGED inflight
        PROVE  CamerasOK'
    BY <1>1, <2>1, <2>3
  <2>4. ASSUME NEW d \in Devices, inflight' = inflight \cup {<<cur, d>>},
               UNCHANGED <<addr, conf, written>>
        PROVE  CamerasOK'
    BY <2>1, <2>4
  <2>5. QED
    BY <1>5, <2>2, <2>3, <2>4 DEF PutFails, Answering
<1>6. ASSUME NEW o \in Outcomes, Reboot(o) PROVE CamerasOK'
  BY <1>2, <1>6 DEF Reboot, Answering
<1>7. CASE Environment
  <2>1. ASSUME NEW d \in Devices, Restarts(d) PROVE CamerasOK'
    BY <1>2, <2>1 DEF Restarts
  <2>2. ASSUME NEW d \in Devices, BootsUp(d) PROVE CamerasOK'
    BY <2>2 DEF BootsUp
  <2>3. ASSUME NEW i \in Pairs, NEW d \in Devices, LateWrite(i, d)
        PROVE  CamerasOK'
    BY <1>1, <2>3 DEF LateWrite
  <2>4. QED
    BY <1>3, <1>7, <2>1, <2>2, <2>3 DEF Environment, SetClock
<1>8. QED
  BY <1>3, <1>4, <1>5, <1>6, <1>7, CameraSteps

\* An entry of the report is well formed, whatever is reported.
LEMMA EntryType ==
  ASSUME NEW s \in Statuses, NEW e \in BOOLEAN, NEW r \in Rules \cup {None}
  PROVE  [status |-> s, error |-> e, rule |-> r] \in Entry
BY Zenon DEF Entry

\* The report an entry is added to keeps its type.
LEMMA ReportType ==
  ASSUME CallerOK, pc \in {"probe", "get", "put", "reboot"},
         NEW s \in Statuses, NEW e \in BOOLEAN, Report(s, e)
  PROVE  /\ report' \in [Pairs -> Entry]
         /\ cur' \in 1 .. N + 1 /\ pc' \in {"start", "probe"}
         /\ pc' = "probe" => cur' \in Pairs
<1>1. report' \in [Pairs -> Entry]
  BY EntryType DEF Report, CallerOK
<1>2. N \in Nat /\ cur \in 1 .. N
  BY BatchAssumption DEF CallerOK, Pairs
<1>3. cur' = cur + 1 /\ pc' = (IF cur = N THEN "start" ELSE "probe")
  BY DEF Report
<1>4. QED
  BY <1>1, <1>2, <1>3 DEF Pairs

\* Every step keeps the types of the caller's state.
LEMMA CallerType == TypeOK /\ [Next]_vars => CallerOK'
<1> SUFFICES ASSUME TypeOK, [Next]_vars PROVE CallerOK'
  OBVIOUS
<1>0. CallerOK /\ JobsOK
  BY DEF TypeOK
<1>1. CASE UNCHANGED <<caller, acked>>
  BY <1>0, <1>1 DEF CallerOK
<1>2. CASE UNCHANGED <<settings, acked, report, cur>>
           /\ pc' \in {"start", "collect", "returned", "raised"}
  BY <1>0, <1>2 DEF CallerOK
<1>3. CASE UNCHANGED <<settings, acked, report, cur>>
           /\ cur \in Pairs /\ pc' \in {"get", "put"}
  BY <1>0, <1>3 DEF CallerOK
<1>4. ASSUME pc \in {"probe", "get", "put", "reboot"},
             NEW s \in Statuses, NEW e \in BOOLEAN, Report(s, e),
             UNCHANGED <<settings, acked>>
      PROVE  CallerOK'
  BY <1>0, <1>4, ReportType DEF CallerOK
<1>5. CASE ProbeSubmit
  BY <1>0, <1>2, <1>3, <1>4, <1>5 DEF ProbeSubmit, CallerOK, Statuses
<1>6. CASE GetConfig
  BY <1>0, <1>3, <1>4, <1>6 DEF GetConfig, CallerOK, Statuses
<1>7. CASE PutAcknowledged
  BY <1>0, <1>7 DEF PutAcknowledged, Answering, CallerOK
<1>8. ASSUME NEW o \in Outcomes, PutFails(o) PROVE CallerOK'
  BY <1>4, <1>8 DEF PutFails, Raised, Statuses
<1>9. ASSUME NEW o \in Outcomes, Reboot(o) PROVE CallerOK'
  BY <1>4, <1>9 DEF Reboot, RebootStatus, Statuses
<1>10. CASE ReturnUnverified \/ StartPool \/ ReturnVerified
  BY <1>2, <1>10 DEF ReturnUnverified, StartPool, ReturnVerified
<1>11. ASSUME NEW i \in Pairs, Collect(i) PROVE CallerOK'
  <2>1. verdict[i] \in Rules \cup {"raised", None}
    BY <1>0 DEF JobsOK
  <2>2. report' \in [Pairs -> Entry]
    BY <1>0, <1>11, <2>1, EntryType DEF Collect, CallerOK, Statuses, Rules
  <2>3. QED
    BY <1>0, <1>11, <2>2 DEF Collect, CallerOK
<1>12. QED
  BY <1>1, <1>5, <1>6, <1>7, <1>8, <1>9, <1>10, <1>11, CallerSteps DEF Caller

\* Every step keeps the types of the jobs' state.
LEMMA JobsType == TypeOK /\ [Next]_vars => JobsOK'
<1> SUFFICES ASSUME TypeOK, [Next]_vars PROVE JobsOK'
  OBVIOUS
<1> USE BatchAssumption DEF TypeOK, JobsOK, Running, TimeOrNone
<1>1. CASE UNCHANGED <<time, jobs>>
  BY <1>1
<1>2. CASE StartPool
  BY <1>2 DEF StartPool
<1>3. CASE Tick \/ SetClock
  BY <1>3 DEF Tick, SetClock
<1>4. ASSUME NEW i \in Pairs, Collect(i) \/ Job(i) PROVE JobsOK'
  <2>0. ASSUME NEW s, BeginProbe(i, s) PROVE until' \in [Pairs -> Nat]
    <3>1. ASSUME NEW t \in 0 .. ProbeTimeout PROVE clock + t \in Nat
      OBVIOUS
    <3>2. QED
      BY <2>0, <3>1 DEF BeginProbe
  <2>1. CASE Collect(i)
    BY <2>1 DEF Collect
  <2>2. CASE Dequeue(i)
    BY <2>2 DEF Dequeue
  <2>3. CASE DeadlinePassed(i) \/ NewOpen(i) \/ JobRaises(i)
    BY <2>3 DEF DeadlinePassed, NewOpen, JobRaises, Finish, Rules
  <2>4. CASE ProbeNew(i)
    BY <2>0, <2>4 DEF ProbeNew, BeginProbe
  <2>5. CASE ProbeOld(i)
    BY <2>0, <2>5 DEF ProbeOld, BeginProbe, Seen
  <2>6. CASE OldOpen(i)
    BY <2>6 DEF OldOpen, Sleep
  <2>7. CASE OldClosed(i)
    BY <2>7 DEF OldClosed, Now, Sleep, Finish, Rules
  <2>8. QED
    BY <1>4, <2>1, <2>2, <2>3, <2>4, <2>5, <2>6, <2>7 DEF Job
<1>5. QED
  BY <1>1, <1>2, <1>3, <1>4, JobSteps

\* Type correctness of batch_set_ip.
THEOREM BatchTypeOK == Spec => []TypeOK
<1>1. Init => TypeOK
  <2> SUFFICES ASSUME Init PROVE TypeOK
    OBVIOUS
  <2>1. CamerasOK
    BY BatchAssumption DEF Init, CamerasOK
  <2>2. CallerOK
    <3>1. report \in [Pairs -> Entry]
      BY EntryType DEF Init, Statuses
    <3>2. verify \in BOOLEAN /\ workers \in WorkerCounts /\ lossy \in Losses
          /\ dhcp \in DhcpSets
      BY Zenon DEF Init
    <3>3. N \in Nat /\ cur = 1 /\ pc = (IF N = 0 THEN "start" ELSE "probe")
      BY BatchAssumption DEF Init
    <3>4. /\ cur \in 1 .. N + 1 /\ pc \in {"probe", "start"}
          /\ pc = "probe" => cur \in Pairs
      BY <3>3 DEF Pairs
    <3>5. acked \in [Pairs -> Devices \cup {None}]
      BY DEF Init
    <3>6. QED
      BY <3>1, <3>2, <3>4, <3>5 DEF CallerOK
  <2>3. JobsOK
    BY DEF Init, JobsOK, TimeOrNone
  <2>4. QED
    BY <2>1, <2>2, <2>3 DEF TypeOK
<1>2. TypeOK /\ [Next]_vars => TypeOK'
  BY CamerasType, CallerType, JobsType DEF TypeOK
<1>3. QED
  BY <1>1, <1>2, PTL DEF Spec

-----------------------------------------------------------------------------
(* A submitted pair was acknowledged. *)

\* Pairs that are submitted, have a job, or are at their reboot.
Submitted(i) ==
  \/ report[i].status \in {"SUBMITTED", "OK", "FAIL_VERIFY"}
  \/ stage[i] # "none"
  \/ pc = "reboot" /\ i = cur

AckInv == \A i \in Pairs : Submitted(i) => Acknowledged(i)

\* An acknowledged write stays one: the history only grows.
LEMMA AcknowledgedStable ==
  ASSUME TypeOK, [Next]_vars, NEW i \in Pairs, Acknowledged(i)
  PROVE  Acknowledged(i)'
<1> USE DEF Acknowledged
<1>1. CASE PutAcknowledged
  <2>1. PICK d \in Devices : acked' = [acked EXCEPT ![cur] = d] /\ Write(cur, d)
    BY <1>1 DEF PutAcknowledged, Answering
  <2>2. d # None /\ acked \in [Pairs -> Devices \cup {None}]
    BY BatchAssumption DEF TypeOK, CallerOK
  <2>3. QED
    BY <2>1, <2>2 DEF Write
<1>2. CASE UNCHANGED <<cameras, written>> /\ ~PutAcknowledged
  BY <1>2, CallerSteps DEF Caller, ProbeSubmit, GetConfig, PutFails, Reboot,
     ReturnUnverified, StartPool, ReturnVerified, Collect
<1>3. CASE Environment
  BY <1>3 DEF Environment, SetClock, Restarts, BootsUp, LateWrite, Write
<1>4. ASSUME NEW o \in Outcomes, PutFails(o) \/ Reboot(o)
      PROVE  Acknowledged(i)'
  BY <1>4 DEF PutFails, Reboot, Write
<1>5. QED
  BY <1>1, <1>2, <1>3, <1>4, CameraSteps

\* Every step keeps it: an entry is SUBMITTED by an acknowledged write only.
LEMMA StepAck == TypeOK /\ AckInv /\ [Next]_vars => AckInv'
<1> SUFFICES ASSUME TypeOK, AckInv, [Next]_vars,
                    NEW i \in Pairs, Submitted(i)'
             PROVE  Acknowledged(i)'
  BY DEF AckInv
<1>0. CASE Submitted(i)
  BY <1>0, AcknowledgedStable DEF AckInv
<1> USE DEF TypeOK, CallerOK, JobsOK, Submitted
<1>1. ASSUME pc \in {"probe", "get", "put", "reboot"}, UNCHANGED stage,
             NEW s \in {"SKIP_UNREACHABLE", "FAIL_SUBMIT"}, NEW e, Report(s, e)
      PROVE  Submitted(i)
  BY <1>1 DEF Report
<1>2. CASE ProbeSubmit \/ GetConfig
  BY <1>0, <1>1, <1>2 DEF ProbeSubmit, GetConfig
<1>3. CASE PutAcknowledged
  <2>1. PICK d \in Devices :
           acked' = [acked EXCEPT ![cur] = d] /\ <<cur, d>> \in written'
    BY <1>3 DEF PutAcknowledged, Answering, Write
  <2>2. QED
    BY <1>0, <1>3, <2>1, BatchAssumption DEF PutAcknowledged, Acknowledged
<1>4. ASSUME NEW o \in Outcomes, PutFails(o) PROVE Submitted(i)
  BY <1>1, <1>4 DEF PutFails, Raised
<1>5. ASSUME NEW o \in Outcomes, Reboot(o) PROVE Submitted(i)
  BY <1>5 DEF Reboot, Report
<1>6. CASE StartPool
  BY <1>0, <1>6 DEF StartPool, With
<1>7. CASE ReturnUnverified \/ ReturnVerified
  BY <1>0, <1>7 DEF ReturnUnverified, ReturnVerified
<1>8. ASSUME NEW j \in Pairs, Collect(j) PROVE Submitted(i)
  BY <1>8 DEF Collect
<1>9. ASSUME NEW j \in Pairs, Job(j) PROVE Submitted(i)
  <2>1. stage[j] # "none"
    BY <1>9 DEF Job, Dequeue, MayStart, DeadlinePassed, ProbeNew, NewOpen,
       ProbeOld, OldOpen, OldClosed, JobRaises, Due
  <2>2. UNCHANGED <<report, pc, cur>> /\ \A k \in Pairs : k # j => stage'[k] = stage[k]
    BY <1>9 DEF Job, Dequeue, DeadlinePassed, ProbeNew, NewOpen,
       ProbeOld, OldOpen, OldClosed, JobRaises, Finish, Sleep, BeginProbe
  <2>3. QED
    BY <2>1, <2>2
<1>10. CASE Tick \/ Environment \/ UNCHANGED vars
  BY <1>0, <1>10 DEF Tick, Environment, SetClock, Restarts, BootsUp, LateWrite, vars
<1>11. QED
  BY <1>0, <1>2, <1>3, <1>4, <1>5, <1>6, <1>7, <1>8, <1>9, <1>10
  DEF Next, Caller

\* It holds throughout.
LEMMA AckInvariant == Spec => []AckInv
<1>1. Init => AckInv
  BY DEF Init, AckInv, Submitted
<1>2. QED
  BY <1>1, StepAck, BatchTypeOK, PTL DEF Spec

\* No pair is reported submitted, or verified, without an acknowledged write
\* (batch.py:114-123 with client.py:319-328).
THEOREM BatchSubmittedWasAcknowledged == Spec => []SubmittedWasAcknowledged
<1>1. AckInv => SubmittedWasAcknowledged
  BY DEF AckInv, Submitted, SubmittedWasAcknowledged
<1>2. QED
  BY <1>1, AckInvariant, PTL

-----------------------------------------------------------------------------
(* Fresh plans: the cameras a pair can reach and what they store. *)

\* An address camera d may use or store: its own or one written to it.
Placed(x, d) == x = Home[d] \/ \E i \in Pairs : <<i, d>> \in written /\ x = New[i]

\* Only the camera that lives at old_ip gets the write of a pair, so each
\* camera gets one write at the most and stores it from then on.
FreshInv ==
  /\ \A d \in Devices : Placed(addr[d], d) /\ Placed(conf[d], d)
  /\ \A i \in Pairs, d \in Devices :
       <<i, d>> \in written \cup inflight => Home[d] = Old[i]
  /\ \A i \in Pairs, d \in Devices : <<i, d>> \in written => conf[d] = New[i]

FreshWhenPlanned == FreshPlan => FreshInv

\* Whoever answers at the old address of a pair is the camera that lives there.
LEMMA OldResponder ==
  ASSUME FreshPlan, FreshInv, NEW i \in Pairs, NEW d \in Answering(Old[i])
  PROVE  d \in Devices /\ Home[d] = Old[i]
<1>1. d \in Devices /\ addr[d] = Old[i]
  BY DEF Answering
<1>2. Placed(addr[d], d)
  BY <1>1 DEF FreshInv
<1>3. \A j \in Pairs : New[j] # Old[i]
  BY Zenon DEF FreshPlan
<1>4. QED
  BY <1>1, <1>2, <1>3 DEF Placed

\* A write of a pair leaves every camera where the plan lets it be.
LEMMA WriteFresh ==
  ASSUME TypeOK, FreshPlan, FreshInv, NEW i \in Pairs, NEW d \in Devices,
         Home[d] = Old[i], Write(i, d), inflight' \subseteq inflight
  PROVE  FreshInv'
<1>0. /\ addr \in [Devices -> Addresses] /\ conf \in [Devices -> Addresses]
      /\ written' = written \cup {<<i, d>>}
      /\ conf' = [conf EXCEPT ![d] = New[i]]
      /\ addr' = addr \/ addr' = [addr EXCEPT ![d] = New[i]]
  BY DEF Write, TypeOK, CamerasOK
<1>1. \A j \in Pairs : <<j, d>> \in written => j = i
  <2>1. \A j \in Pairs : Old[j] = Old[i] => j = i
    BY BatchAssumption DEF FreshPlan, Injective
  <2>2. QED
    BY <2>1 DEF FreshInv
<1>2. ASSUME NEW x \in Devices PROVE Placed(addr[x], x)' /\ Placed(conf[x], x)'
  <2>1. Placed(addr[x], x) /\ Placed(conf[x], x)
    BY DEF FreshInv
  <2>2. CASE x = d
    BY <1>0, <2>1, <2>2 DEF Placed
  <2>3. CASE x # d
    BY <1>0, <2>1, <2>3 DEF Placed
  <2>4. QED
    BY <2>2, <2>3
<1>3. ASSUME NEW j \in Pairs, NEW x \in Devices
      PROVE  /\ <<j, x>> \in written' \cup inflight' => Home[x] = Old[j]
             /\ <<j, x>> \in written' => conf'[x] = New[j]
  BY <1>0, <1>1 DEF FreshInv
<1>4. QED
  BY <1>2, <1>3 DEF FreshInv

\* Every step keeps the cameras at their homes or at the addresses of their pairs.
LEMMA StepFresh == FreshPlan /\ TypeOK /\ FreshInv /\ [Next]_vars => FreshInv'
<1> SUFFICES ASSUME FreshPlan, TypeOK, FreshInv, [Next]_vars PROVE FreshInv'
  OBVIOUS
<1>1. CASE UNCHANGED <<addr, conf, written>> /\ inflight' \subseteq inflight
  BY <1>1 DEF FreshInv, Placed
<1>2. ASSUME NEW i \in Pairs, NEW d \in Devices, inflight' = inflight \cup {<<i, d>>},
             Home[d] = Old[i], UNCHANGED <<addr, conf, written>>
      PROVE  FreshInv'
  BY <1>2 DEF FreshInv, Placed
<1>3. CASE PutAcknowledged
  BY <1>3, OldResponder, WriteFresh DEF PutAcknowledged, TypeOK, CallerOK
<1>4. ASSUME NEW o \in Outcomes, PutFails(o) PROVE FreshInv'
  BY <1>1, <1>2, <1>4, OldResponder, WriteFresh DEF PutFails, TypeOK, CallerOK
<1>5. ASSUME NEW o \in Outcomes, Reboot(o) PROVE FreshInv'
  BY <1>1, <1>5 DEF Reboot, GoDown
<1>6. CASE Environment
  <2>1. ASSUME NEW d \in Devices, Restarts(d) PROVE FreshInv'
    BY <1>1, <2>1 DEF Restarts, GoDown
  <2>2. ASSUME NEW d \in Devices, BootsUp(d) PROVE FreshInv'
    BY <2>2 DEF BootsUp, FreshInv, Placed, TypeOK, CamerasOK
  <2>3. ASSUME NEW i \in Pairs, NEW d \in Devices, LateWrite(i, d)
        PROVE  FreshInv'
    BY <2>3, WriteFresh DEF LateWrite, FreshInv
  <2>4. QED
    BY <1>1, <1>6, <2>1, <2>2, <2>3 DEF Environment, SetClock
<1>7. QED
  BY <1>1, <1>3, <1>4, <1>5, <1>6, CameraSteps

\* It holds throughout, under a fresh plan.
LEMMA FreshInvariant == Spec => []FreshWhenPlanned
<1>1. Init => FreshWhenPlanned
  BY DEF Init, FreshInv, Placed, FreshWhenPlanned
<1>2. TypeOK /\ FreshWhenPlanned /\ [Next]_vars => FreshWhenPlanned'
  BY StepFresh DEF FreshPlan, Injective, FreshWhenPlanned
<1>3. QED
  BY <1>1, <1>2, BatchTypeOK, PTL DEF Spec

\* Even with lost probes an OK pair's camera stores the new address
\* (batch.py:122, 139, 166).
THEOREM BatchOkMeansStored == Spec => []OkMeansStored
<1>1. TypeOK /\ AckInv /\ FreshWhenPlanned => OkMeansStored
  BY DEF OkMeansStored, AckInv, Submitted, Acknowledged, FreshInv, HasStored,
     FreshWhenPlanned, TypeOK, CallerOK
<1>2. QED
  BY <1>1, FreshInvariant, AckInvariant, BatchTypeOK, PTL

-----------------------------------------------------------------------------
(* Fresh plans without loss: what the verification may conclude. *)

\* The camera of an acknowledged pair has moved as soon as nobody answers at
\* its old address, and a camera that answers at a new address has moved there.
LEMMA SilentOldHasMoved ==
  ASSUME FreshPlan, FreshInv, NEW i \in Pairs, acked[i] \in Devices,
         Acknowledged(i), Answering(Old[i]) = {}
  PROVE  HasMoved(i)
<1>1. PICK d \in Devices : d = acked[i]
  OBVIOUS
<1>2. <<i, d>> \in written /\ Home[d] = Old[i] /\ conf[d] = New[i]
  BY <1>1 DEF Acknowledged, FreshInv
<1>3. ASSUME up[d] PROVE addr[d] = New[i]
  <2>1. addr[d] # Old[i]
    BY <1>3 DEF Answering
  <2>2. PICK j \in Pairs : <<j, d>> \in written /\ addr[d] = New[j]
    BY <1>2, <2>1 DEF FreshInv, Placed
  <2>3. New[j] = New[i]
    BY <1>2, <2>2 DEF FreshInv
  <2>4. QED
    BY <2>2, <2>3
<1>4. QED
  BY <1>2, <1>3 DEF HasMoved

\* Under a fresh plan, what answers at a new address is the camera that moved there.
LEMMA NewResponderHasMoved ==
  ASSUME FreshPlan, FreshInv, NEW i \in Pairs, NEW d \in Answering(New[i])
  PROVE  HasMoved(i)
<1>1. d \in Devices /\ addr[d] = New[i]
  BY DEF Answering
<1>2. New[i] # Home[d] /\ \A j \in Pairs : New[j] = New[i] => j = i
  BY <1>1, BatchAssumption DEF FreshPlan, Injective
<1>3. <<i, d>> \in written
  BY <1>1, <1>2 DEF FreshInv, Placed
<1>4. QED
  BY <1>1, <1>3 DEF FreshInv, HasMoved

\* Once moved, a camera stays moved: it can only restart into the new address.
LEMMA HasMovedStable ==
  ASSUME FreshPlan, TypeOK, FreshInv, [Next]_vars, NEW i \in Pairs, HasMoved(i)
  PROVE  HasMoved(i)'
<1>1. PICK d \in Devices : /\ Home[d] = Old[i] /\ conf[d] = New[i]
                           /\ up[d] /\ d \notin dhcp => addr[d] = New[i]
  BY DEF HasMoved
<1> USE DEF TypeOK, CamerasOK, CallerOK
<1> SUFFICES conf'[d] = New[i] /\ (up'[d] /\ d \notin dhcp => addr'[d] = New[i])
  BY <1>1, SettingsStay DEF HasMoved
<1>2. ASSUME NEW j \in Pairs, NEW x \in Devices, Home[x] = Old[j], Write(j, x),
             UNCHANGED up
      PROVE  conf'[d] = New[i] /\ (up'[d] /\ d \notin dhcp => addr'[d] = New[i])
  <2>1. x = d => j = i
    <3>1. \A k \in Pairs : Old[k] = Old[i] => k = i
      BY BatchAssumption DEF FreshPlan, Injective
    <3>2. QED
      BY <1>1, <1>2, <3>1
  <2>2. CASE x = d
    BY <1>1, <1>2, <2>1, <2>2 DEF Write
  <2>3. CASE x # d
    BY <1>1, <1>2, <2>3 DEF Write
  <2>4. QED
    BY <2>2, <2>3
<1>3. CASE UNCHANGED <<cameras, written>>
  BY <1>1, <1>3
<1>4. CASE PutAcknowledged
  BY <1>2, <1>4, OldResponder DEF PutAcknowledged
<1>5. ASSUME NEW o \in Outcomes, PutFails(o)
      PROVE  conf'[d] = New[i] /\ (up'[d] /\ d \notin dhcp => addr'[d] = New[i])
  BY <1>1, <1>2, <1>5, OldResponder DEF PutFails
<1>6. ASSUME NEW o \in Outcomes, Reboot(o)
      PROVE  conf'[d] = New[i] /\ (up'[d] /\ d \notin dhcp => addr'[d] = New[i])
  BY <1>1, <1>6 DEF Reboot, GoDown
<1>7. CASE Environment
  <2>1. ASSUME NEW x \in Devices, Restarts(x) \/ BootsUp(x)
        PROVE  conf'[d] = New[i] /\ (up'[d] /\ d \notin dhcp => addr'[d] = New[i])
    BY <1>1, <2>1 DEF Restarts, BootsUp, GoDown
  <2>2. ASSUME NEW j \in Pairs, NEW x \in Devices, LateWrite(j, x)
        PROVE  conf'[d] = New[i] /\ (up'[d] /\ d \notin dhcp => addr'[d] = New[i])
    BY <1>2, <2>2 DEF LateWrite, FreshInv
  <2>3. QED
    BY <1>3, <1>7, <2>1, <2>2 DEF Environment, SetClock
<1>8. QED
  BY <1>3, <1>4, <1>5, <1>6, <1>7, CameraSteps

\* Pairs whose job has seen new_ip answer or old_ip silent, or was judged so.
Concluded(i) ==
  \/ stage[i] \in {"found", "closed"} \/ closedSince[i] # None
  \/ verdict[i] \in {"new_open", "old_closed_window"}
  \/ report[i].status = "OK"

MovedInv == FreshPlan /\ ~lossy => \A i \in Pairs : Concluded(i) => HasMoved(i)

\* Every step keeps it, in a network that loses no probe.
LEMMA StepMoved ==
  TypeOK /\ AckInv /\ FreshWhenPlanned /\ MovedInv /\ [Next]_vars => MovedInv'
<1> SUFFICES ASSUME TypeOK, AckInv, FreshPlan, FreshInv, ~lossy, MovedInv,
                    [Next]_vars, NEW i \in Pairs, Concluded(i)'
             PROVE  HasMoved(i)'
  BY SettingsStay DEF MovedInv, FreshPlan, Injective, FreshWhenPlanned
<1>0. Concluded(i) \/ HasMoved(i) => HasMoved(i)'
  BY HasMovedStable DEF MovedInv
<1> USE DEF TypeOK, CallerOK, JobsOK, Concluded
<1>1. CASE UNCHANGED <<caller, jobs>>
  BY <1>0, <1>1
<1>2. ASSUME pc \in {"probe", "get", "put", "reboot"}, UNCHANGED jobs,
             NEW s \in {"SKIP_UNREACHABLE", "FAIL_SUBMIT", "SUBMITTED"}, NEW e,
             Report(s, e)
      PROVE  Concluded(i)
  BY <1>2 DEF Report
<1>3. CASE ProbeSubmit \/ GetConfig
  BY <1>0, <1>2, <1>3 DEF ProbeSubmit, GetConfig
<1>4. CASE PutAcknowledged \/ ReturnUnverified \/ ReturnVerified \/ Tick
  BY <1>0, <1>4 DEF PutAcknowledged, ReturnUnverified, ReturnVerified, Tick
<1>5. ASSUME NEW o \in Outcomes, PutFails(o) \/ Reboot(o) PROVE Concluded(i)
  BY <1>2, <1>5 DEF PutFails, Raised, Reboot, RebootStatus
<1>6. CASE StartPool
  BY <1>0, <1>6 DEF StartPool
<1>7. ASSUME NEW j \in Pairs, Collect(j) PROVE Concluded(i)
  BY <1>7 DEF Collect
<1>8. ASSUME NEW j \in Pairs, Job(j) PROVE HasMoved(i)'
  <2>1. CASE i # j
    <3>1. /\ stage'[i] = stage[i] /\ closedSince'[i] = closedSince[i]
          /\ verdict'[i] = verdict[i] /\ report' = report
      BY <1>8, <2>1 DEF Job, Dequeue, DeadlinePassed, ProbeNew, NewOpen,
         ProbeOld, OldOpen, OldClosed, JobRaises, Finish, Sleep, BeginProbe
    <3>2. QED
      BY <1>0, <3>1
  <2>2. CASE i = j
    <3>1. CASE Dequeue(i) \/ DeadlinePassed(i) \/ NewOpen(i) \/ OldOpen(i)
                 \/ JobRaises(i)
      BY <1>0, <3>1 DEF Dequeue, DeadlinePassed, NewOpen, OldOpen, JobRaises,
         Finish, Sleep, Due
    <3>2. CASE ProbeNew(i)
      BY <1>0, <3>2, NewResponderHasMoved
      DEF ProbeNew, ProbeOpen, BeginProbe
    <3>3. CASE ProbeOld(i)
      <4>1. CASE ProbeClosed(Old[i])
        <5>1. acked[i] \in Devices /\ Acknowledged(i)
          BY <3>3 DEF ProbeOld, Due, AckInv, Submitted, Acknowledged
        <5>2. QED
          BY <1>0, <4>1, <5>1, SilentOldHasMoved DEF ProbeClosed
      <4>2. CASE ~ProbeClosed(Old[i])
        BY <1>0, <3>3, <4>2 DEF ProbeOld, BeginProbe
      <4>3. QED
        BY <4>1, <4>2
    <3>4. CASE OldClosed(i)
      BY <1>0, <3>4 DEF OldClosed, Due
    <3>5. QED
      BY <1>8, <2>2, <3>1, <3>2, <3>3, <3>4 DEF Job
  <2>3. QED
    BY <2>1, <2>2
<1>9. CASE Environment \/ UNCHANGED vars
  BY <1>1, <1>9 DEF Environment, SetClock, Restarts, BootsUp, LateWrite, vars
<1>10. QED
  BY <1>0, <1>3, <1>4, <1>5, <1>6, <1>7, <1>8, <1>9 DEF Next, Caller

\* Without loss an OK pair's camera has left its old address for the new one,
\* now and ever after (batch.py:49-62, 165-167).
THEOREM BatchOkMeansMoved == Spec => []OkMeansMoved
<1>1. Init => MovedInv
  BY BatchAssumption DEF Rules, Init, MovedInv, Concluded
<1>2. MovedInv => OkMeansMoved
  BY DEF MovedInv, Concluded, OkMeansMoved
<1>3. TypeOK /\ AckInv /\ FreshWhenPlanned /\ MovedInv /\ [Next]_vars => MovedInv'
  BY StepMoved
<1>4. Spec => []MovedInv
  BY <1>1, <1>3, FreshInvariant, AckInvariant, BatchTypeOK, PTL DEF Spec
<1>5. QED
  BY <1>2, <1>4, PTL

\* A pair whose write was acknowledged is at its reboot, or reported as
\* something else than skipped.
AckShown ==
  \A i \in Pairs : acked[i] # None =>
    \/ i = cur /\ pc = "reboot"
    \/ /\ i < cur
       /\ report[i].status \in {"FAIL_SUBMIT", "SUBMITTED", "OK", "FAIL_VERIFY"}

\* Every step keeps the entry of an acknowledged write one of those it may get.
LEMMA StepAckShown == TypeOK /\ AckShown /\ [Next]_vars => AckShown'
<1> SUFFICES ASSUME TypeOK, AckShown, [Next]_vars, NEW i \in Pairs, acked'[i] # None
             PROVE  \/ i = cur' /\ pc' = "reboot"
                    \/ /\ i < cur'
                       /\ report'[i].status \in
                            {"FAIL_SUBMIT", "SUBMITTED", "OK", "FAIL_VERIFY"}
  BY DEF AckShown
<1> USE DEF TypeOK, CallerOK, AckShown
<1>0. N \in Nat /\ cur \in Nat /\ i \in Nat /\ cur + 1 > cur
  BY BatchAssumption DEF Pairs
<1>1. CASE ProbeSubmit \/ GetConfig
  BY <1>0, <1>1 DEF ProbeSubmit, GetConfig, Report, history
<1>2. CASE PutAcknowledged
  BY <1>0, <1>2 DEF PutAcknowledged
<1>3. ASSUME NEW o \in Outcomes, PutFails(o)
      PROVE  i < cur' /\ report'[i] = report[i] /\ acked[i] # None /\ i < cur
  BY <1>0, <1>3 DEF PutFails, Report
<1>4. ASSUME NEW o \in Outcomes, Reboot(o)
      PROVE  i < cur' /\ report'[i].status \in
                            {"FAIL_SUBMIT", "SUBMITTED", "OK", "FAIL_VERIFY"}
  BY <1>0, <1>4 DEF Reboot, RebootStatus, Report, history
<1>5. CASE ReturnUnverified \/ StartPool \/ ReturnVerified
  BY <1>5 DEF ReturnUnverified, StartPool, ReturnVerified, history
<1>6. ASSUME NEW j \in Pairs, Collect(j)
      PROVE  i < cur' /\ report'[i].status \in
                            {"FAIL_SUBMIT", "SUBMITTED", "OK", "FAIL_VERIFY"}
  <2>1. acked[i] # None /\ pc # "reboot" /\ cur' = cur
    BY <1>6 DEF Collect, history
  <2>2. CASE j = i
    BY <1>6, <2>1, <2>2 DEF Collect
  <2>3. CASE j # i
    BY <1>6, <2>1, <2>3 DEF Collect
  <2>4. QED
    BY <2>2, <2>3
<1>7. CASE UNCHANGED <<caller, acked>>
  BY <1>7 DEF caller
<1>8. QED
  BY <1>1, <1>2, <1>3, <1>4, <1>5, <1>6, <1>7, CallerSteps DEF Caller

\* When the command line reports success, without loss, every camera that
\* acknowledged its new address has moved (cli.py:58).
THEOREM BatchExitZeroMeansMoved == Spec => []ExitZeroMeansMoved
<1>1. Init => AckShown
  BY DEF Init, AckShown
<1>2. AckShown /\ OkMeansMoved => ExitZeroMeansMoved
  <2> SUFFICES ASSUME AckShown, OkMeansMoved, FreshPlan, ~lossy, ExitZero,
                      NEW i \in Pairs, acked[i] # None
               PROVE  HasMoved(i)
    BY DEF ExitZeroMeansMoved
  <2>1. report[i].status = "OK"
    BY DEF AckShown, ExitZero
  <2>2. QED
    BY <2>1 DEF OkMeansMoved
<1>3. QED
  BY <1>1, <1>2, StepAckShown, BatchTypeOK, BatchOkMeansMoved, PTL DEF Spec

\* The reboot goes to the camera that stored this pair's address (batch.py:121).
THEOREM BatchRebootsOnlyTheWritten == Spec => RebootsOnlyTheWritten
<1>1. TypeOK /\ AckInv /\ FreshWhenPlanned /\ [Next]_vars =>
        RebootHitsTheWritten
  <2> SUFFICES ASSUME TypeOK, AckInv, FreshPlan, FreshInv, [Next]_vars,
                      pc = "reboot", pc' # "reboot",
                      NEW d \in Devices, up[d], ~up'[d]
               PROVE  Home[d] = Old[cur] /\ conf[d] = New[cur]
    BY DEF RebootHitsTheWritten, FreshWhenPlanned
  <2> USE DEF TypeOK, CamerasOK, CallerOK
  <2>1. PICK o \in Outcomes : Reboot(o)
    BY CameraSteps DEF PutAcknowledged, PutFails, Environment, SetClock, Restarts,
       BootsUp, LateWrite
  <2>2. d \in Answering(Old[cur]) /\ cur \in Pairs
    BY <2>1 DEF Reboot, GoDown, Answering
  <2>3. Home[d] = Old[cur]
    BY <2>2, OldResponder
  <2>4. Acknowledged(cur) /\ acked[cur] \in Devices
    BY <2>2 DEF AckInv, Submitted, Acknowledged
  <2>5. Home[acked[cur]] = Old[cur] /\ conf[acked[cur]] = New[cur]
    BY <2>2, <2>4 DEF FreshInv, Acknowledged
  <2>6. acked[cur] = d
    BY <2>3, <2>4, <2>5, BatchAssumption DEF FreshPlan, Injective
  <2>7. QED
    BY <2>3, <2>5, <2>6
<1>2. QED
  BY <1>1, FreshInvariant, AckInvariant, BatchTypeOK, PTL
  DEF Spec, RebootsOnlyTheWritten

-----------------------------------------------------------------------------
(* The report. *)

Submitting == {"probe", "get", "put", "reboot"}
Unfinished == Running \cup {"queued", "done"}

\* Where the call is determines which pairs have a status, which are judged
\* and which have a job.
PhaseOf(i) ==
  /\ pc \in Submitting => (report[i].status = "PENDING" <=> i >= cur)
  /\ pc \in {"start", "collect"} => report[i].status # "PENDING"
  /\ pc \notin {"collect", "returned"} =>
       stage[i] = "none" /\ report[i].status \notin {"OK", "FAIL_VERIFY"}
  /\ pc = "returned" => stage[i] \in {"none", "collected"}
  /\ pc = "collect" =>
       /\ stage[i] = "none" =>
            report[i].status \in {"SKIP_UNREACHABLE", "FAIL_SUBMIT"}
       /\ stage[i] \in Unfinished => report[i].status = "SUBMITTED"
       /\ stage[i] = "collected" => report[i].status \in {"OK", "FAIL_VERIFY"}

PhaseInv == \A i \in Pairs : PhaseOf(i)

\* Every step keeps a job's stage and its entry in the report together.
LEMMA StepPhase == TypeOK /\ PhaseInv /\ [Next]_vars => PhaseInv'
<1> SUFFICES ASSUME TypeOK, PhaseInv, [Next]_vars, NEW i \in Pairs
             PROVE  PhaseOf(i)'
  BY DEF PhaseInv
<1> USE DEF TypeOK, CallerOK, JobsOK, PhaseOf, Submitting
<1>0. PhaseOf(i) /\ N \in Nat /\ i \in 1 .. N
  BY BatchAssumption DEF PhaseInv, Pairs
<1>1. ASSUME pc \in Submitting, UNCHANGED stage,
             NEW s \in {"SKIP_UNREACHABLE", "FAIL_SUBMIT", "SUBMITTED"}, NEW e,
             Report(s, e)
      PROVE  PhaseOf(i)'
  <2>1. /\ cur \in 1 .. N /\ cur' = cur + 1
        /\ pc' = (IF cur = N THEN "start" ELSE "probe")
        /\ report'[i].status = (IF i = cur THEN s ELSE report[i].status)
    BY <1>1 DEF Report, Pairs
  <2>2. QED
    BY <1>0, <1>1, <2>1
<1>2. CASE ProbeSubmit \/ GetConfig
  BY <1>0, <1>1, <1>2 DEF ProbeSubmit, GetConfig
<1>3. CASE PutAcknowledged
  BY <1>0, <1>3 DEF PutAcknowledged
<1>4. ASSUME NEW o \in Outcomes, PutFails(o) \/ Reboot(o) PROVE PhaseOf(i)'
  BY <1>1, <1>4 DEF PutFails, Raised, Reboot, RebootStatus
<1>5. CASE ReturnUnverified
  BY <1>0, <1>5 DEF ReturnUnverified
<1>6. CASE StartPool
  <2>1. report[i] \in Entry
    OBVIOUS
  <2>2. QED
    BY <1>0, <1>6, <2>1 DEF StartPool, With, Entry, Statuses, Unfinished, Running
<1>7. CASE ReturnVerified
  BY <1>0, <1>7 DEF ReturnVerified
<1>8. ASSUME NEW j \in Pairs, Collect(j) PROVE PhaseOf(i)'
  BY <1>0, <1>8 DEF Collect, Unfinished, Running
<1>9. ASSUME NEW j \in Pairs, Job(j) PROVE PhaseOf(i)'
  <2>1. UNCHANGED <<pc, cur, report>>
    BY <1>9 DEF Job, Dequeue, DeadlinePassed, ProbeNew, NewOpen, ProbeOld,
       OldOpen, OldClosed, JobRaises
  <2>2. stage[j] \in Unfinished /\ stage'[j] \in Unfinished
    BY <1>9 DEF Job, Dequeue, MayStart, DeadlinePassed, ProbeNew, NewOpen,
       ProbeOld, OldOpen, OldClosed, JobRaises, Due, Finish, Sleep, BeginProbe,
       Unfinished, Running
  <2>3. i # j => stage'[i] = stage[i]
    BY <1>9 DEF Job, Dequeue, DeadlinePassed, ProbeNew, NewOpen, ProbeOld,
       OldOpen, OldClosed, JobRaises, Finish, Sleep, BeginProbe
  <2>4. stage[j] # "none" /\ stage[j] # "collected" /\ stage'[j] # "none"
        /\ stage'[j] # "collected"
    BY <2>2 DEF Unfinished, Running
  <2>5. PhaseOf(j)
    BY DEF PhaseInv
  <2>6. QED
    BY <1>0, <2>1, <2>2, <2>3, <2>4, <2>5
<1>10. CASE Tick \/ Environment \/ UNCHANGED vars
  BY <1>0, <1>10 DEF Tick, Environment, SetClock, Restarts, BootsUp, LateWrite, vars
<1>11. QED
  BY <1>2, <1>3, <1>4, <1>5, <1>6, <1>7, <1>8, <1>9, <1>10 DEF Next, Caller

\* It holds throughout.
LEMMA PhaseInvariant == Spec => []PhaseInv
<1>1. Init => PhaseInv
  BY BatchAssumption DEF Init, PhaseInv, PhaseOf, Submitting, Pairs
<1>2. QED
  BY <1>1, StepPhase, BatchTypeOK, PTL DEF Spec

\* The report of batch_set_ip is the one BatchReport promises: filled in order,
\* judged only when complete, judged in full when returned.
THEOREM BatchImplementsReport == Spec => ImplementsReport
<1> DEFINE statuses == [i \in Pairs |-> report[i].status]
<1>1. Init => Promise!Init
  BY DEF Init, Promise!Init, Promise!Pairs, Pairs, Phase
<1>2. TypeOK /\ PhaseInv /\ [Next]_vars => [Promise!Next]_(Promise!vars)
  <2> SUFFICES ASSUME TypeOK, PhaseInv, [Next]_vars
               PROVE  [Promise!Next]_(Promise!vars)
    OBVIOUS
  <2> USE DEF TypeOK, CallerOK, JobsOK
  <2>0. /\ Promise!Pairs = Pairs /\ Promise!Pairs = 1 .. N /\ N \in Nat
        /\ \A i \in Pairs : PhaseOf(i)
    BY BatchAssumption DEF Promise!Pairs, Pairs, PhaseInv
  <2>1. CASE UNCHANGED <<report, Phase>>
    BY <2>1 DEF Promise!vars
  <2>2. ASSUME pc \in Submitting,
               NEW s \in {"SKIP_UNREACHABLE", "FAIL_SUBMIT", "SUBMITTED"},
               NEW e, Report(s, e)
        PROVE  Promise!Next
    <3>1. cur \in Pairs /\ Phase = "working" /\ Phase' = "working"
      BY <2>2 DEF Report, Submitting, Phase
    <3>2. PICK i \in Pairs : i = cur
      BY <3>1
    <3>3. statuses' = [statuses EXCEPT ![i] = s]
      BY <2>2, <3>2 DEF Report
    <3>4. statuses[i] = "PENDING" /\ \A j \in 1 .. (i - 1) : statuses[j] # "PENDING"
      <4>1. \A j \in Pairs : report[j].status = "PENDING" <=> j >= i
        BY <2>0, <2>2, <3>2 DEF PhaseOf
      <4>2. i \in Int /\ \A j \in 1 .. (i - 1) : j \in Pairs /\ ~(j >= i)
        BY <2>0
      <4>3. i >= i
        BY <4>2
      <4>4. QED
        BY <4>1, <4>2, <4>3
    <3>5. Promise!Submit(i)
      BY <3>1, <3>3, <3>4 DEF Promise!Submit, Promise!Submissions
    <3>6. QED
      BY <2>0, <3>5 DEF Promise!Next
  <2>3. ASSUME pc \in Submitting \cup {"start"}, pc' = "raised", UNCHANGED report
        PROVE  Promise!Next
    BY <2>0, <2>3 DEF PhaseOf, Submitting, Phase, Promise!Next, Promise!Raise,
       Promise!Judged, Promise!With
  <2>4. CASE ProbeSubmit \/ GetConfig
    BY <2>1, <2>2, <2>3, <2>4 DEF ProbeSubmit, GetConfig, Submitting, Phase
  <2>5. CASE PutAcknowledged
    BY <2>1, <2>5 DEF PutAcknowledged, Phase
  <2>6. ASSUME NEW o \in Outcomes, PutFails(o) \/ Reboot(o) PROVE Promise!Next
    BY <2>2, <2>6 DEF PutFails, Raised, Reboot, RebootStatus, Submitting
  <2>7. CASE ReturnUnverified
    BY <2>0, <2>7 DEF ReturnUnverified, PhaseOf, Submitting, Phase, Promise!Next,
       Promise!Return, Promise!Judged, Promise!With
  <2>8. CASE StartPool
    BY <2>1, <2>3, <2>8 DEF StartPool, Phase
  <2>9. CASE ReturnVerified
    BY <2>0, <2>9 DEF ReturnVerified, PhaseOf, Phase, Promise!Next,
       Promise!Return, Promise!Judged, Promise!With
  <2>10. ASSUME NEW j \in Pairs, Collect(j) PROVE Promise!Next
    <3>1. PICK s \in {"OK", "FAIL_VERIFY"} : statuses' = [statuses EXCEPT ![j] = s]
      BY <2>10 DEF Collect
    <3>2. /\ pc = "collect" /\ Phase = "working" /\ Phase' = "working"
          /\ stage[j] = "done"
      BY <2>10 DEF Collect, Phase
    <3>3. statuses[j] = "SUBMITTED" /\ \A i \in Pairs : statuses[i] # "PENDING"
      BY <2>0, <3>2 DEF PhaseOf, Unfinished
    <3>4. Promise!Judge(j)
      BY <2>0, <3>1, <3>2, <3>3 DEF Promise!Judge, Promise!With, Promise!Verdicts
    <3>5. QED
      BY <2>0, <3>4 DEF Promise!Next
  <2>11. ASSUME NEW j \in Pairs, Job(j) PROVE UNCHANGED <<report, Phase>>
    BY <2>11 DEF Job, Dequeue, DeadlinePassed, ProbeNew, NewOpen, ProbeOld,
       OldOpen, OldClosed, JobRaises, Phase
  <2>12. CASE Tick \/ Environment \/ UNCHANGED vars
    BY <2>1, <2>12 DEF Tick, Environment, SetClock, Restarts, BootsUp, LateWrite, vars, Phase
  <2>13. QED
    BY <2>1, <2>4, <2>5, <2>6, <2>7, <2>8, <2>9, <2>10, <2>11, <2>12
    DEF Next, Caller
<1>3. QED
  BY <1>1, <1>2, PhaseInvariant, BatchTypeOK, PTL
  DEF Spec, Promise!Spec, ImplementsReport

-----------------------------------------------------------------------------
(* Time. *)

\* How the clock was set, as two lengths of time of which one is zero; both
\* only grow, in SetClock alone.
LEMMA ClockSetting ==
  ASSUME TypeOK, TypeOK'
  PROVE  /\ skew \in Int /\ Forward \in Nat /\ Setback \in Nat
         /\ skew = Forward - Setback
         /\ skew' = skew => Setback' = Setback
         /\ SetClock => Setback' \in Nat /\ Setback' >= Setback
<1>1. Skews \subseteq Int
  BY BatchAssumption
<1>2. skew \in Skews \cup {0} /\ skew' \in Skews \cup {0}
  BY Zenon DEF TypeOK, JobsOK
<1>3. skew \in Int /\ skew' \in Int
  BY <1>1, <1>2
<1>4. SetClock => skew = 0
  BY DEF SetClock
<1>5. Forward \in Nat /\ Setback \in Nat /\ skew = Forward - Setback
  BY <1>3 DEF Forward, Setback
<1>6. Setback' \in Nat
  <2>1. PICK k \in Int : k = skew'
    BY <1>3
  <2>2. Setback' = IF k < 0 THEN 0 - k ELSE 0
    BY <2>1, Zenon DEF Setback
  <2>3. QED
    BY <2>2
<1>7. skew' = skew => Setback' = Setback
  BY DEF Setback
<1>8. skew = 0 => Setback = 0
  BY DEF Setback
<1>9. QED
  BY <1>3, <1>4, <1>5, <1>6, <1>7, <1>8

\* A job that waits is never late, and how far beyond the deadline it can wait
\* depends on how much of its loop is left.
TimeInv ==
  /\ clock < VerifyDeadline + Setback + Loop
  /\ \A i \in Pairs : stage[i] \in Running =>
       /\ clock <= until[i]
       /\ until[i] < VerifyDeadline + Setback + Loop
       /\ stage[i] \in {"found", "old"} => until[i] < VerifyDeadline + Setback + ProbeTimeout
       /\ stage[i] \in {"open", "closed"} =>
            until[i] < VerifyDeadline + Setback + 2 * ProbeTimeout

\* Every step keeps it: time passes only up to the next instant of a job.
LEMMA StepTime == TypeOK /\ TypeOK' /\ TimeInv /\ [Next]_vars => TimeInv'
<1> SUFFICES ASSUME TypeOK, TypeOK', TimeInv, [Next]_vars PROVE TimeInv'
  OBVIOUS
<1>s. /\ Setback \in Nat /\ Forward \in Nat /\ skew \in Int
      /\ skew = Forward - Setback
      /\ skew' = skew => Setback' = Setback
      /\ SetClock => Setback' \in Nat /\ Setback' >= Setback
  BY ClockSetting
<1> USE DEF TypeOK, JobsOK, TimeInv, Loop, Running
<1>0. /\ VerifyDeadline \in Nat /\ ProbeTimeout \in Nat /\ Poll \in Nat \ {0}
      /\ clock \in Nat
  BY BatchAssumption
<1>1. CASE UNCHANGED <<time, jobs>>
  BY <1>s, <1>1
<1>2. CASE StartPool
  BY <1>s, <1>2 DEF StartPool
<1>3. CASE Tick
  <2>1. PICK j \in Pairs : stage[j] \in Running
    BY <1>3 DEF Tick, Busy
  <2>2. \A i \in Pairs : stage[i] \in Running => clock + 1 <= until[i]
    BY <1>0, <1>3 DEF Tick, Busy
  <2>3. QED
    BY <1>s, <1>0, <1>3, <2>1, <2>2 DEF Tick
<1>4. ASSUME NEW i \in Pairs, Collect(i) \/ Job(i) PROVE TimeInv'
  <2>0. /\ clock' = clock /\ skew' = skew
        /\ \A j \in Pairs : j # i => stage'[j] = stage[j] /\ until'[j] = until[j]
    BY <1>4 DEF Collect, Job, Dequeue, DeadlinePassed, ProbeNew, NewOpen,
       ProbeOld, OldOpen, OldClosed, JobRaises, Finish, Sleep, BeginProbe
  <2> SUFFICES ASSUME stage'[i] \in Running
               PROVE  /\ clock <= until'[i]
                      /\ until'[i] < VerifyDeadline + Setback + Loop
                      /\ stage'[i] \in {"found", "old"} =>
                           until'[i] < VerifyDeadline + Setback + ProbeTimeout
                      /\ stage'[i] \in {"open", "closed"} =>
                           until'[i] < VerifyDeadline + Setback + 2 * ProbeTimeout
    BY <1>s, <2>0
  <2>1. ASSUME NEW s, BeginProbe(i, s)
        PROVE  /\ stage'[i] = s
               /\ until'[i] \in Nat /\ clock <= until'[i]
               /\ until'[i] <= clock + ProbeTimeout
    BY <1>0, <2>1 DEF BeginProbe
  <2>2. CASE Dequeue(i)
    BY <1>s, <1>0, <2>2 DEF Dequeue
  <2>3. CASE ProbeNew(i)
    BY <1>s, <1>0, <2>1, <2>3 DEF ProbeNew, Now
  <2>4. CASE ProbeOld(i)
    <3>1. PICK s \in {"open", "closed"} : BeginProbe(i, s)
      BY <2>4 DEF ProbeOld
    <3>2. stage[i] = "old" /\ clock' = clock /\ skew' = skew
      BY <2>4 DEF ProbeOld, Due
    <3>3. QED
      BY <1>s, <1>0, <2>1, <3>1, <3>2
  <2>5. CASE OldOpen(i)
    BY <1>s, <1>0, <2>5 DEF OldOpen, Sleep, Due
  <2>6. CASE OldClosed(i)
    BY <1>s, <1>0, <2>6 DEF OldClosed, Sleep, Due, Finish
  <2>7. CASE Collect(i) \/ DeadlinePassed(i) \/ NewOpen(i) \/ JobRaises(i)
    BY <2>7 DEF Collect, DeadlinePassed, NewOpen, JobRaises, Finish
  <2>8. QED
    BY <1>4, <2>2, <2>3, <2>4, <2>5, <2>6, <2>7 DEF Job
<1>5. CASE SetClock
  BY <1>s, <1>0, <1>5 DEF SetClock
<1>6. QED
  BY <1>1, <1>2, <1>3, <1>4, <1>5, JobSteps

\* Verification ends less than one loop after the shared deadline, which moves
\* only by as much as the clock is set back, however many jobs share the workers (batch.py:50-62, 143-156).
THEOREM BatchVerifyEndsInTime == Spec => []VerifyEndsInTime
<1>1. Init => TimeInv
  BY BatchAssumption DEF Init, TimeInv, Loop, Running, Setback
<1>2. TimeInv => VerifyEndsInTime
  BY DEF TimeInv, VerifyEndsInTime
<1>3. QED
  BY <1>1, <1>2, StepTime, BatchTypeOK, PTL DEF Spec

\* The window does not start before the first of the failed probes that are
\* going on, except between a success and the reset it causes.
WindowInv ==
  \A i \in Pairs :
    /\ silentSince[i] # None => silentSince[i] <= clock
    /\ stage[i] = "closed" => silentSince[i] # None
    /\ closedSince[i] # None /\ stage[i] # "open" =>
         silentSince[i] # None /\ silentSince[i] <= closedSince[i] + Setback

\* Every step keeps what a window has seen.
LEMMA StepWindow ==
  TypeOK /\ TypeOK' /\ PhaseInv /\ WindowInv /\ [Next]_vars =>
    WindowInv' /\ WindowVerdictIsSilent
<1> SUFFICES ASSUME TypeOK, TypeOK', PhaseInv, WindowInv, [Next]_vars
             PROVE  WindowInv' /\ WindowVerdictIsSilent
  OBVIOUS
<1>s. /\ Setback \in Nat /\ Forward \in Nat /\ skew \in Int
      /\ skew = Forward - Setback
      /\ skew' = skew => Setback' = Setback
      /\ SetClock => Setback' \in Nat /\ Setback' >= Setback
  BY ClockSetting
<1> USE DEF TypeOK, JobsOK, WindowInv, WindowVerdictIsSilent, SilentForWindow,
            TimeOrNone
<1>0. /\ Window \in Nat /\ clock \in Nat /\ None \notin Int
      /\ None # "old_closed_window"
  BY BatchAssumption DEF Rules
<1>v. ASSUME verdict' = verdict PROVE WindowVerdictIsSilent
  BY <1>0, <1>v
<1>1. CASE UNCHANGED <<time, jobs>>
  BY <1>s, <1>v, <1>1
<1>2. CASE StartPool
  <2>1. \A i \in Pairs : stage[i] = "none"
    BY <1>2 DEF StartPool, PhaseInv, PhaseOf
  <2>2. QED
    BY <1>s, <1>0, <1>v, <1>2, <2>1 DEF StartPool
<1>3. CASE Tick
  BY <1>s, <1>0, <1>v, <1>3 DEF Tick
<1>4. ASSUME NEW i \in Pairs, Collect(i)
      PROVE  WindowInv' /\ WindowVerdictIsSilent
  <2>1. /\ stage[i] = "done" /\ stage' = [stage EXCEPT ![i] = "collected"]
        /\ clock' = clock /\ skew' = skew /\ closedSince' = closedSince
        /\ silentSince' = silentSince /\ verdict' = verdict
    BY <1>4 DEF Collect
  <2>2. QED
    BY <1>s, <1>0, <1>v, <2>1
<1>5. ASSUME NEW i \in Pairs, Job(i) PROVE WindowInv' /\ WindowVerdictIsSilent
  <2>1. CASE Dequeue(i) \/ ProbeNew(i)
    BY <1>s, <1>0, <1>v, <2>1 DEF Dequeue, MayStart, ProbeNew, BeginProbe, Due
  <2>2. CASE DeadlinePassed(i) \/ NewOpen(i) \/ JobRaises(i)
    <3>1. PICK r \in {"deadline", "new_open", "raised"} : Finish(i, r)
      BY <2>2 DEF DeadlinePassed, NewOpen, JobRaises
    <3>2. /\ stage[i] # "open" /\ clock' = clock /\ skew' = skew
          /\ closedSince' = closedSince /\ silentSince' = silentSince
      BY <2>2 DEF DeadlinePassed, NewOpen, JobRaises, Due
    <3>3. WindowInv'
      BY <1>s, <1>0, <3>1, <3>2 DEF Finish
    <3>4. WindowVerdictIsSilent
      BY <1>0, <3>1 DEF Finish
    <3>5. QED
      BY <3>3, <3>4
  <2>3. CASE ProbeOld(i)
    BY <1>s, <1>0, <1>v, <2>3 DEF ProbeOld, BeginProbe, Seen, Due
  <2>4. CASE OldOpen(i)
    BY <1>s, <1>0, <1>v, <2>4 DEF OldOpen, Sleep, Due
  <2>5. CASE OldClosed(i)
    BY <1>s, <1>0, <2>5 DEF OldClosed, Now, Finish, Sleep, Due
  <2>6. QED
    BY <1>5, <2>1, <2>2, <2>3, <2>4, <2>5 DEF Job
<1>6. CASE SetClock
  BY <1>s, <1>0, <1>v, <1>6 DEF SetClock
<1>7. QED
  BY <1>1, <1>2, <1>3, <1>4, <1>5, <1>6, JobSteps

\* The window rule fires only when old_ip has been silent for a window: the first
\* of its failed probes is that old, and none since was successful (batch.py:53-60).
THEOREM BatchWindowNeedsSilence == Spec => WindowNeedsSilence
<1>1. Init => WindowInv
  BY DEF Init, WindowInv
<1>2. QED
  BY <1>1, StepWindow, PhaseInvariant, BatchTypeOK, PTL DEF Spec, WindowNeedsSilence
=============================================================================
