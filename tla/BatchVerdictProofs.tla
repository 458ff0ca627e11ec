-------------------------- MODULE BatchVerdictProofs --------------------------
(***************************************************************************)
(* More proofs about BatchSetIp, for every number of cameras, pairs and    *)
(* workers and every timing: what a pair that was skipped, or failed by    *)
(* the deadline, has behind it.                                            *)
(***************************************************************************)
EXTENDS BatchProofs, FiniteSetTheorems, WellFoundedInduction

USE DEF cameras, caller, settings, time, jobs, history

-----------------------------------------------------------------------------
(* Skipped pairs. *)

\* No write of pair i was carried out or is on its way.
Untouched(i) == \A d \in Devices : <<i, d>> \notin written \cup inflight

\* The pairs that phase 1 has yet to write, and those it has skipped at the
\* first probe.
SkipOf(i) ==
  \/ pc \in {"probe", "get", "put"} /\ i >= cur
  \/ pc = "reboot" /\ i > cur
  \/ report[i].status = "SKIP_UNREACHABLE" /\ ~report[i].error
SkipInv == \A i \in Pairs : SkipOf(i) => Untouched(i)

\* Only the write of the current pair touches a pair; a late one was on its way.
LEMMA UntouchedStays ==
  ASSUME TypeOK, [Next]_vars, NEW i \in Pairs, Untouched(i),
         pc # "put" \/ i # cur \/ UNCHANGED <<pc, cur>>
  PROVE  Untouched(i)'
<1> USE DEF Untouched
<1>1. CASE PutAcknowledged
  <2>1. i # cur
    BY <1>1 DEF PutAcknowledged
  <2>2. QED
    BY <1>1, <2>1 DEF PutAcknowledged, Write, Answering
<1>2. CASE Environment
  BY <1>2 DEF Environment, SetClock, Restarts, BootsUp, GoDown, LateWrite, Write
<1>3. ASSUME NEW o \in Outcomes, PutFails(o) PROVE Untouched(i)'
  <2>1. i # cur
    <3>1. cur \in Int
      BY BatchAssumption DEF TypeOK, CallerOK
    <3>2. pc = "put" /\ cur' = cur + 1
      BY <1>3 DEF PutFails, Report
    <3>3. QED
      BY <3>1, <3>2
  <2>2. CASE UNCHANGED <<inflight, written>>
    BY <2>2
  <2>3. ASSUME NEW d \in Devices, Write(cur, d), UNCHANGED inflight
        PROVE  Untouched(i)'
    BY <2>1, <2>3 DEF Write
  <2>4. ASSUME NEW d \in Devices, inflight' = inflight \cup {<<cur, d>>},
               UNCHANGED written
        PROVE  Untouched(i)'
    BY <2>1, <2>4
  <2>5. QED
    BY <1>3, <2>2, <2>3, <2>4 DEF PutFails, Answering
<1>4. ASSUME NEW o \in Outcomes, Reboot(o) PROVE Untouched(i)'
  BY <1>4 DEF Reboot, GoDown
<1>5. CASE UNCHANGED <<cameras, written>>
  BY <1>5
<1>6. QED
  BY <1>1, <1>2, <1>3, <1>4, <1>5, CameraSteps

\* Every step keeps it: an entry without an error text is of a camera left alone.
LEMMA StepSkip == TypeOK /\ PhaseInv /\ SkipInv /\ [Next]_vars => SkipInv'
<1> SUFFICES ASSUME TypeOK, PhaseInv, SkipInv, [Next]_vars, NEW i \in Pairs, SkipOf(i)'
             PROVE  Untouched(i)'
  BY DEF SkipInv
<1> USE DEF TypeOK, CallerOK, SkipOf
<1>0. /\ N \in Nat /\ i \in 1 .. N /\ cur \in Int
      /\ report \in [Pairs -> Entry] /\ PhaseOf(i)
  BY BatchAssumption DEF Pairs, PhaseInv
<1>1. SUFFICES SkipOf(i) /\ (pc # "put" \/ i # cur \/ UNCHANGED <<pc, cur>>)
  BY UntouchedStays DEF SkipInv
<1>r. ASSUME NEW s, NEW e, Report(s, e), pc \in {"probe", "get", "put", "reboot"},
             pc \in {"put", "reboot"} => (s = "SKIP_UNREACHABLE" => e)
      PROVE  SkipOf(i) /\ (pc # "put" \/ i # cur \/ UNCHANGED <<pc, cur>>)
  <2>0. cur' = cur + 1 /\ pc' # "reboot"
    BY <1>r DEF Report
  <2>1. CASE i = cur
    <3>1. report'[i] = [status |-> s, error |-> e, rule |-> None]
      BY <1>0, <1>r, <2>1 DEF Report
    <3>2. s = "SKIP_UNREACHABLE" /\ ~e
      BY <1>0, <2>0, <2>1, <3>1
    <3>3. pc \in {"probe", "get"}
      BY <1>r, <3>2
    <3>4. QED
      BY <1>0, <2>1, <3>3
  <2>2. CASE i # cur
    <3>1. report'[i] = report[i]
      BY <1>0, <1>r, <2>2 DEF Report
    <3>2. i > cur \/ (report[i].status = "SKIP_UNREACHABLE" /\ ~report[i].error)
      BY <1>0, <2>0, <2>2, <3>1
    <3>3. QED
      BY <1>0, <1>r, <2>2, <3>2
  <2>3. QED
    BY <2>1, <2>2
<1>2. CASE ProbeSubmit \/ GetConfig
  BY <1>0, <1>r, <1>2 DEF ProbeSubmit, GetConfig
<1>3. CASE PutAcknowledged
  <2>1. /\ pc = "put" /\ pc' = "reboot" /\ UNCHANGED <<cur, report>>
    BY <1>3 DEF PutAcknowledged
  <2>2. i > cur \/ (report[i].status = "SKIP_UNREACHABLE" /\ ~report[i].error)
    BY <2>1
  <2>3. i # cur
    BY <1>0, <2>1, <2>2 DEF PhaseOf, Submitting
  <2>4. QED
    BY <1>0, <2>1, <2>2, <2>3
<1>4. ASSUME NEW o \in Outcomes, PutFails(o)
      PROVE  SkipOf(i) /\ (pc # "put" \/ i # cur \/ UNCHANGED <<pc, cur>>)
  BY <1>r, <1>4 DEF PutFails
<1>5. ASSUME NEW o \in Outcomes, Reboot(o)
      PROVE  SkipOf(i) /\ (pc # "put" \/ i # cur \/ UNCHANGED <<pc, cur>>)
  <2>1. RebootStatus(o) # "SKIP_UNREACHABLE"
    BY DEF RebootStatus
  <2>2. QED
    BY <1>r, <1>5, <2>1 DEF Reboot
<1>6. CASE ReturnUnverified \/ StartPool \/ ReturnVerified
  BY <1>6 DEF ReturnUnverified, StartPool, ReturnVerified
<1>7. ASSUME NEW j \in Pairs, Collect(j)
      PROVE  SkipOf(i) /\ (pc # "put" \/ i # cur \/ UNCHANGED <<pc, cur>>)
  <2>1. j # i
    BY <1>0, <1>7 DEF Collect
  <2>2. report'[i] = report[i] /\ UNCHANGED <<pc, cur>>
    BY <1>0, <1>7, <2>1 DEF Collect
  <2>3. pc # "put"
    BY <1>7 DEF Collect
  <2>4. QED
    BY <2>2, <2>3
<1>8. CASE UNCHANGED <<caller, acked>>
  BY <1>8
<1>9. QED
  BY <1>2, <1>3, <1>4, <1>5, <1>6, <1>7, <1>8, CallerSteps DEF Caller

\* A pair that was skipped without an error is as it was, and stays so: its
\* camera was not written to, not even by a write that is late (batch.py:97-131).
THEOREM BatchSilentSkipTouchedNothing == Spec => []SilentSkipTouchedNothing
<1>1. Init => SkipInv
  BY DEF Init, SkipInv, Untouched
<1>2. SkipInv => SilentSkipTouchedNothing
  BY DEF SkipInv, SkipOf, Untouched, SilentSkipTouchedNothing
<1>3. QED
  BY <1>1, <1>2, StepSkip, PhaseInvariant, BatchTypeOK, PTL DEF Spec

-----------------------------------------------------------------------------
(* Pairs failed by the deadline. *)

\* In a non-empty set of pairs one comes first.
LEMMA FirstPair ==
  ASSUME NEW S \in SUBSET Pairs, S # {}
  PROVE  \E i \in S : \A j \in S : i <= j
<1>1. S \subseteq Nat
  BY BatchAssumption DEF Pairs
<1>2. PICK i \in S : \A j \in S : ~ (<<j, i>> \in OpToRel(<, Nat))
  BY <1>1, NatLessThanWellFounded, WFMin
<1>3. \A j \in S : ~ (j < i)
  BY <1>1, <1>2 DEF OpToRel
<1>4. QED
  BY <1>1, <1>3

\* With a worker for each pair the first queued job can always start.
LEMMA WorkerIsFree ==
  ASSUME TypeOK, EnoughWorkers, NEW i \in Pairs, stage[i] = "queued"
  PROVE  \E j \in Pairs : MayStart(j)
<1> DEFINE Queued == {j \in Pairs : stage[j] = "queued"}
<1>1. PICK j \in Queued : \A k \in Queued : j <= k
  <2>1. Queued \in SUBSET Pairs /\ Queued # {}
    OBVIOUS
  <2>2. QED
    BY <2>1, FirstPair
<1>2. N \in Nat /\ j \in 1 .. N /\ workers \in Int /\ Pairs = 1 .. N
  BY BatchAssumption DEF Pairs, TypeOK, CallerOK
<1>3. \A k \in 1 .. (j - 1) : stage[k] # "queued"
  BY <1>1, <1>2
<1>4. Cardinality(Busy) < workers
  <2>1. IsFiniteSet(Pairs) /\ Cardinality(Pairs) = N
    BY <1>2, FS_Interval
  <2>2. IsFiniteSet(Pairs \ {j}) /\ Cardinality(Pairs \ {j}) = N - 1
    BY <1>2, <2>1, FS_RemoveElement
  <2>3. Busy \in SUBSET (Pairs \ {j})
    BY <1>1 DEF Busy, Running
  <2>4. IsFiniteSet(Busy) /\ Cardinality(Busy) <= N - 1
    BY <2>2, <2>3, FS_Subset
  <2>5. Cardinality(Busy) \in Nat
    BY <2>4, FS_CardinalityType
  <2>6. QED
    BY <1>2, <2>4, <2>5 DEF EnoughWorkers
<1>5. QED
  BY <1>1, <1>3, <1>4 DEF MayStart

\* How old the last probe of new_ip is where job i has got to: a loop at the
\* most, since the job began at once.
AgeOf(i) ==
  /\ pc \in Submitting \cup {"start"} \/ stage[i] = "queued" => clock = 0
  /\ stage[i] \in {"none", "queued"} => lastNew[i] = None
  /\ verdict[i] # None => stage[i] \in {"done", "collected"}
  /\ stage[i] = "top" =>
       IF lastNew[i] = None THEN until[i] = 0 ELSE until[i] <= lastNew[i] + Loop
  /\ stage[i] \in {"found", "old"} =>
       lastNew[i] # None /\ until[i] <= lastNew[i] + ProbeTimeout
  /\ stage[i] \in {"open", "closed"} =>
       lastNew[i] # None /\ until[i] <= lastNew[i] + 2 * ProbeTimeout
  /\ verdict[i] = "deadline" /\ VerifyDeadline > Forward =>
       lastNew[i] # None /\ lastNew[i] + Loop >= VerifyDeadline - Forward
AgeInv == EnoughWorkers => \A i \in Pairs : AgeOf(i)

\* Setting the clock forward is the only way it gets ahead.
LEMMA ForwardGrows ==
  ASSUME TypeOK, TypeOK'
  PROVE  /\ skew' = skew => Forward' = Forward
         /\ SetClock => Forward' \in Nat /\ Forward' >= Forward
<1>1. skew \in Int /\ skew' \in Int
  <2>1. Skews \subseteq Int
    BY BatchAssumption
  <2>2. skew \in Skews \cup {0} /\ skew' \in Skews \cup {0}
    BY Zenon DEF TypeOK, JobsOK
  <2>3. QED
    BY <2>1, <2>2
<1>2. skew' = skew => Forward' = Forward
  BY DEF Forward
<1>3. SetClock => skew = 0 /\ Forward = 0
  BY DEF SetClock, Forward
<1>4. Forward' \in Nat
  <2>1. PICK k \in Int : k = skew'
    BY <1>1
  <2>2. Forward' = IF k > 0 THEN k ELSE 0
    BY <2>1, Zenon DEF Forward
  <2>3. QED
    BY <2>2
<1>5. QED
  BY <1>2, <1>3, <1>4

\* Every step keeps it: a job with a worker is never late.
LEMMA StepAge ==
  TypeOK /\ TypeOK' /\ PhaseInv /\ TimeInv /\ AgeInv /\ [Next]_vars => AgeInv'
<1> SUFFICES ASSUME TypeOK, TypeOK', PhaseInv, TimeInv, AgeInv, [Next]_vars,
                    EnoughWorkers', NEW x \in Pairs
             PROVE  AgeOf(x)'
  BY DEF AgeInv
<1>w. workers' = workers
  BY CallerSteps, Zenon
  DEF Caller, ProbeSubmit, GetConfig, PutAcknowledged, PutFails, Reboot,
      ReturnUnverified, StartPool, ReturnVerified, Collect, vars
<1>a. EnoughWorkers /\ \A i \in Pairs : AgeOf(i)
  BY <1>w DEF AgeInv, EnoughWorkers
<1>f. /\ Forward \in Nat /\ skew = Forward - Setback /\ Setback \in Nat /\ skew \in Int
      /\ skew' = skew => Forward' = Forward
      /\ SetClock => Forward' \in Nat /\ Forward' >= Forward
  BY ClockSetting, ForwardGrows
<1> USE DEF TypeOK, JobsOK, AgeOf, Loop, TimeOrNone
<1>0. /\ VerifyDeadline \in Nat /\ ProbeTimeout \in Nat /\ Poll \in Nat \ {0}
      /\ clock \in Nat /\ None \notin Int /\ None \notin Rules
      /\ x \in Pairs /\ AgeOf(x)
  BY <1>a, BatchAssumption
<1>p. pc' \in Submitting \cup {"start"} => pc \in Submitting \cup {"start"}
  BY CallerSteps
  DEF Caller, ProbeSubmit, GetConfig, PutAcknowledged, PutFails, Reboot, Report,
      ReturnUnverified, StartPool, ReturnVerified, Collect, Submitting
<1>1. CASE UNCHANGED <<time, jobs>>
  BY <1>f, <1>0, <1>p, <1>1
<1>2. CASE StartPool
  <2>1. stage[x] = "none" /\ clock = 0
    BY <1>0, <1>2 DEF StartPool, PhaseInv, PhaseOf
  <2>2. stage'[x] \in {"none", "queued"}
    BY <1>2, <2>1 DEF StartPool
  <2>3. UNCHANGED <<time, until, closedSince, verdict, lastNew, silentSince>>
    BY <1>2 DEF StartPool
  <2>4. QED
    BY <1>f, <1>0, <2>1, <2>2, <2>3
<1>3. CASE Tick
  <2>1. pc = "collect" /\ pc' = pc
    <3>1. PICK j \in Pairs : stage[j] \in Running
      BY <1>3 DEF Tick, Busy
    <3>2. PhaseOf(j)
      BY DEF PhaseInv
    <3>3. QED
      BY <1>3, <3>1, <3>2 DEF Tick, PhaseOf, Running
  <2>2. stage[x] # "queued"
    BY <1>3, <1>a, WorkerIsFree DEF Tick
  <2>3. skew' = skew /\ UNCHANGED jobs
    BY <1>3 DEF Tick
  <2>4. QED
    BY <1>f, <1>0, <2>1, <2>2, <2>3 DEF Submitting
<1>4. ASSUME NEW i \in Pairs, Collect(i) \/ Job(i) PROVE AgeOf(x)'
  <2>1. clock' = clock /\ skew' = skew
    BY <1>4 DEF Collect, Job, Dequeue, DeadlinePassed, ProbeNew, NewOpen,
       ProbeOld, OldOpen, OldClosed, JobRaises
  <2>2. CASE x # i
    <3>1. /\ stage'[x] = stage[x] /\ until'[x] = until[x]
          /\ verdict'[x] = verdict[x] /\ lastNew'[x] = lastNew[x]
      BY <1>4, <2>2 DEF Collect, Job, Dequeue, DeadlinePassed, ProbeNew, NewOpen,
         ProbeOld, OldOpen, OldClosed, JobRaises, Finish, Sleep, BeginProbe
    <3>2. QED
      BY <1>f, <1>0, <1>p, <2>1, <3>1
  <2>3. CASE x = i
    <3> USE <1>f, <1>0, <1>4, <2>1, <2>3
    <3>1. ASSUME NEW s, BeginProbe(i, s)
          PROVE  /\ stage'[i] = s
                 /\ until'[i] \in Nat /\ until'[i] <= clock + ProbeTimeout
      BY <3>1 DEF BeginProbe
    <3>t. stage[i] \in Running => clock <= until[i]
      BY DEF TimeInv
    <3>2. CASE Dequeue(i)
      BY <1>p, <3>2 DEF Dequeue, MayStart
    <3>3. CASE DeadlinePassed(i)
      <4>1. clock >= VerifyDeadline - Forward /\ until[i] <= clock
            /\ stage[i] = "top"
        BY <3>3 DEF DeadlinePassed, Due, Now
      <4>2. VerifyDeadline > Forward =>
              lastNew[i] # None /\ lastNew[i] + Loop >= VerifyDeadline - Forward
        BY <3>t, <4>1 DEF Running
      <4>3. /\ stage'[i] = "done" /\ lastNew'[i] = lastNew[i]
            /\ UNCHANGED pc
        BY <3>3 DEF DeadlinePassed, Finish
      <4>4. QED
        BY <1>p, <4>1, <4>2, <4>3
    <3>4. CASE ProbeNew(i)
      <4>1. /\ stage'[i] \in {"found", "old"} /\ until'[i] \in Nat
            /\ until'[i] <= clock + ProbeTimeout
        BY <3>1, <3>4 DEF ProbeNew
      <4>2. /\ lastNew'[i] = clock /\ verdict' = verdict /\ stage[i] = "top"
            /\ pc' = pc
        BY <3>4 DEF ProbeNew, Due
      <4>3. QED
        BY <1>p, <4>1, <4>2 DEF Rules
    <3>5. CASE NewOpen(i) \/ JobRaises(i)
      BY <3>5 DEF NewOpen, JobRaises, Finish, Due, Rules
    <3>6. CASE ProbeOld(i)
      <4>1. /\ stage'[i] \in {"open", "closed"} /\ until'[i] \in Nat
            /\ until'[i] <= clock + ProbeTimeout
        BY <3>1, <3>6 DEF ProbeOld
      <4>2. /\ lastNew' = lastNew /\ verdict' = verdict /\ stage[i] = "old"
            /\ pc' = pc /\ until[i] <= clock
        BY <3>6 DEF ProbeOld, Due
      <4>3. clock <= lastNew[i] + ProbeTimeout
        BY <3>t, <4>2 DEF Running
      <4>4. QED
        BY <4>1, <4>2, <4>3
    <3>7. CASE OldOpen(i)
      BY <3>t, <3>7 DEF OldOpen, Sleep, Due, Running
    <3>8. CASE OldClosed(i)
      BY <3>t, <3>8 DEF OldClosed, Sleep, Due, Running, Finish
    <3>9. CASE Collect(i)
      BY <3>9 DEF Collect
    <3>10. QED
      BY <3>2, <3>3, <3>4, <3>5, <3>6, <3>7, <3>8, <3>9 DEF Job
  <2>4. QED
    BY <2>2, <2>3
<1>5. CASE SetClock
  BY <1>f, <1>0, <1>5 DEF SetClock
<1>6. QED
  BY <1>1, <1>2, <1>3, <1>4, <1>5, JobSteps

\* With a worker for each pair, none is failed by the deadline on old news: its
\* last probe of new_ip began less than one loop before (batch.py:50-62, 143).
THEOREM BatchDeadlineVerdictIsFresh == Spec => []DeadlineVerdictIsFresh
<1>1. Init => AgeInv
  BY BatchAssumption DEF Init, AgeInv, AgeOf, Rules
<1>2. Init => TimeInv
  BY BatchAssumption DEF Init, TimeInv, Loop, Running, Setback
<1>3. AgeInv => DeadlineVerdictIsFresh
  BY DEF AgeInv, AgeOf, DeadlineVerdictIsFresh
<1>4. QED
  BY <1>1, <1>2, <1>3, StepAge, StepTime, PhaseInvariant, BatchTypeOK, PTL DEF Spec
=============================================================================
