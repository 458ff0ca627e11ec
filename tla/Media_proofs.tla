----------------------------- MODULE Media_proofs -----------------------------
(***************************************************************************)
(* Proofs about Media, for every set of budgets, every number of phases    *)
(* from six on and every limit on the image: that a snapshot cleans up,    *)
(* how far it outlives its budget, and which frame "auto" returns, when.   *)
(* While the request runs its own inductive invariant holds, by the lemmas *)
(* of IsapiRequest_proofs; the rest is what the operation makes of it.     *)
(***************************************************************************)
EXTENDS Media, TLAPS

RP == INSTANCE IsapiRequest_proofs WITH
        Timeouts <- Budgets \cup {PhaseTimeout(b) : b \in Budgets}

USE DEF arguments, requestVars, sealed, mediaVars

\* A phase is a positive time, and the phases of a budget that is long enough
\* to be cut make it up.
LEMMA PhaseOfBudget ==
  ASSUME NEW b \in Budgets
  PROVE  /\ b \in Nat \ {0} /\ PhaseTimeout(b) \in Nat \ {0}
         /\ TimeoutPhases <= b => 6 * PhaseTimeout(b) <= b
         /\ b < TimeoutPhases => PhaseTimeout(b) = 1
<1>1. /\ b \in Nat \ {0} /\ TimeoutPhases \in Nat /\ TimeoutPhases >= 6
      /\ b < TimeoutPhases \/ b % TimeoutPhases = 0
  BY MediaAssumption
<1>2. CASE b < TimeoutPhases
  BY <1>1, <1>2 DEF PhaseTimeout
<1>3. CASE b >= TimeoutPhases
  <2>1. PICK k \in Int : k = b \div TimeoutPhases
    BY <1>1
  <2>2. b = TimeoutPhases * k
    BY <1>1, <1>3, <2>1
  <2>3. k > 0
    BY <1>1, <2>2
  <2>4. TimeoutPhases * k >= 6 * k
    BY <1>1, <2>3
  <2>5. QED
    BY <1>1, <1>3, <2>1, <2>2, <2>3, <2>4 DEF PhaseTimeout
<1>4. QED
  BY <1>1, <1>2, <1>3

\* What IsapiRequest assumes of its constants holds of the values they are given
\* here, so the theorems of IsapiRequest_proofs hold of this request.
LEMMA RequestParameters ==
  /\ Budgets \cup {PhaseTimeout(b) : b \in Budgets} \subseteq Nat \ {0}
  /\ Budgets \subseteq Nat
  /\ NoDeadline \notin Nat
BY PhaseOfBudget, MediaAssumption

\* The request of Media is the one that those theorems are about.
LEMMA SameTypes ==
  (Request!TypeOK <=> RP!TypeOK) /\ (Request!TypeOK' <=> RP!TypeOK')
BY DEF Request!TypeOK, Request!FlagsOK, Request!ValuesOK, Request!Attempts,
   Request!Outcomes, RP!TypeOK, RP!FlagsOK, RP!ValuesOK, RP!Attempts, RP!Outcomes

\* The request starts as the instance that is proved about does.
LEMMA SameInit == Request!Init <=> RP!Init
BY DEF Request!Init, RP!Init

\* The request takes the steps of the instance that is proved about.
LEMMA SameSteps ==
  /\ Request!Client => RP!Client
  /\ Request!Library => RP!Library
  /\ Request!DeviceExecutes => RP!DeviceExecutes
<1>1. Request!Client => RP!Client
  BY DEF Request!Client, Request!DeadlineExpired, Request!Call,
     Request!FallBackToBasic, Request!BothRefused, Request!RaiseForStatus,
     Request!ReturnResponse, Request!Finish, Request!Expired,
     Request!RequestTimeout, Request!arguments,
     RP!Client, RP!DeadlineExpired, RP!Call, RP!FallBackToBasic, RP!BothRefused,
     RP!RaiseForStatus, RP!ReturnResponse, RP!Finish, RP!Expired,
     RP!RequestTimeout, RP!arguments
<1>2. Request!Library => RP!Library
  BY DEF Request!Library, Request!Connect, Request!ConnectFails,
     Request!Challenged, Request!NoAnswer, Request!BodyBreaks, Request!Answered,
     Request!Elapse, Request!Finish, Request!arguments,
     RP!Library, RP!Connect, RP!ConnectFails, RP!Challenged, RP!NoAnswer,
     RP!BodyBreaks, RP!Answered, RP!Elapse, RP!Finish, RP!arguments
<1>3. Request!DeviceExecutes => RP!DeviceExecutes
  BY DEF Request!DeviceExecutes, Request!arguments, RP!DeviceExecutes, RP!arguments
<1>4. QED
  BY <1>1, <1>2, <1>3

\* So its next-state relation is that of the instance.
LEMMA SameNext == Request!Next => RP!Next
BY SameSteps DEF Request!Next, RP!Next

-----------------------------------------------------------------------------
(* The inductive invariant. *)

\* What becomes of the arguments, and which phases an operation goes through.
CourseInv ==
  /\ IF op = "snapshot"
       THEN budget \in Budgets /\ configured = PhaseTimeout(budget)
       ELSE budget = NoDeadline /\ configured \in Budgets
  /\ phase = "body" => op = "snapshot"
  /\ phase = "ffmpeg" => op \in {"auto", "fixed"}
  /\ phase # "done" <=> result = "pending"
  /\ granted <= configured

\* The invariant of the request, while it runs.
RequestInv ==
  phase = "request" =>
    extra = 0 /\ RP!DeviceInv /\ RP!OpenInv /\ RP!TimeInv

\* The body begins before the deadline and is read on only before it.
BodyInv ==
  /\ SnapshotCleansUp /\ SnapshotOverrun
  /\ phase = "body" => Elapsed < Timeout

\* The stream of a listing that is asked for.
Best ==
  /\ listing \in [Streams -> SUBSET Said] /\ Available(listing) # {}
  /\ chosen = Prefer(Available(listing))

\* ffmpeg is started before the timeout, for the best stream listed.
FrameInv ==
  /\ phase = "ffmpeg" => Elapsed <= Timeout
  /\ op = "auto" /\ (phase = "ffmpeg" \/ result = "ok") => Best
  /\ op = "auto" /\ result = "ok" => Elapsed <= Timeout

MediaInv == TypeOK /\ CourseInv /\ RequestInv /\ BodyInv /\ FrameInv

\* The budgets, as numbers.
LEMMA Numbers ==
  ASSUME TypeOK, CourseInv
  PROVE  /\ configured \in Nat \ {0} /\ clock \in Nat /\ extra \in Nat
         /\ Timeout \in Nat \ {0} /\ granted \in Nat /\ granted <= configured
         /\ DripReads * configured \in Nat
         /\ op = "snapshot" =>
              /\ budget # NoDeadline /\ budget \in Nat
              /\ TimeoutPhases <= budget => 6 * configured <= budget
<1>1. /\ clock \in Nat /\ extra \in Nat /\ granted \in Nat /\ granted <= configured
  BY DEF TypeOK, CourseInv, Request!TypeOK, Request!ValuesOK
<1>2. configured \in Nat \ {0} /\ DripReads \in Nat /\ NoDeadline \notin Nat
  BY PhaseOfBudget, MediaAssumption DEF CourseInv
<1>3. DripReads * configured \in Nat
  BY <1>2
<1>4. QED
  BY <1>1, <1>2, <1>3, PhaseOfBudget, MediaAssumption DEF CourseInv, Timeout

\* The invariant holds when the operation is called.
LEMMA InitMedia == Init => MediaInv
<1> SUFFICES ASSUME Init PROVE MediaInv
  OBVIOUS
<1>1. RP!Init
  BY SameInit DEF Init
<1>2. RP!Invariant
  BY <1>1, RequestParameters, RP!InitInvariant
<1>3. CourseInv
  BY <1>1, MediaAssumption, PhaseOfBudget
  DEF Init, CourseInv, Operations, RP!Init
<1>4. TypeOK
  BY <1>2, SameTypes, MediaAssumption
  DEF Init, TypeOK, RP!Invariant, Operations, Streams
<1>5. RequestInv
  BY <1>2 DEF Init, RequestInv, RP!Invariant
<1>6. BodyInv
  BY <1>1, <1>3, <1>4, Numbers, MediaAssumption
  DEF Init, BodyInv, SnapshotCleansUp, SnapshotOverrun, Elapsed, Timeout, RP!Init
<1>7. FrameInv
  BY <1>1, <1>3, <1>4, Numbers
  DEF Init, FrameInv, Elapsed, Timeout, RP!Init
<1>8. QED
  BY <1>3, <1>4, <1>5, <1>6, <1>7 DEF MediaInv

\* A step of the request keeps the request's invariant, and its arguments.
LEMMA RequestKeeps ==
  ASSUME RP!TypeOK, Request!Next
  PROVE  /\ RP!TypeOK' /\ UNCHANGED arguments
         /\ RP!DeviceInv /\ RP!OpenInv /\ RP!TimeInv =>
              RP!DeviceInv' /\ RP!OpenInv' /\ RP!TimeInv'
<1>1. [RP!Next]_RP!vars
  BY SameNext
<1>2. UNCHANGED arguments
  BY Zenon DEF Request!Next, Request!Client, Request!Library,
     Request!DeadlineExpired, Request!Call, Request!FallBackToBasic,
     Request!BothRefused, Request!RaiseForStatus, Request!ReturnResponse,
     Request!Connect, Request!ConnectFails, Request!DeviceExecutes,
     Request!Challenged, Request!Answered, Request!NoAnswer, Request!BodyBreaks,
     Request!arguments
<1>3. QED
  BY <1>1, <1>2, RequestParameters, RP!StepType, RP!StepDevice, RP!StepOpen,
     RP!StepTime

\* What leaves the request alone, but for closing its response.
LEMMA Closing ==
  ASSUME TypeOK, UNCHANGED <<sealed, op>>, open' = open \/ open' = {}
  PROVE  Request!TypeOK' /\ UNCHANGED <<granted, Timeout>>
BY DEF TypeOK, Request!TypeOK, Request!FlagsOK, Request!ValuesOK, Timeout

\* Four granted phases, in terms of the configured one and of the budget.
LEMMA FourPhases ==
  ASSUME NEW c \in Nat, NEW g \in Nat, NEW k \in Nat, c <= 4 * g, g <= k
  PROVE  c <= 6 * k /\ \A b \in Nat : g <= b => c <= b + 3 * k
OBVIOUS

\* Nothing has passed since the request ended.
LEMMA NoTimeAfter == ASSUME NEW c \in Nat PROVE c + 0 = c
OBVIOUS

\* A step of the request keeps the invariant, by the request's own.
LEMMA StepRequest == MediaInv /\ RequestStep => MediaInv'
<1> SUFFICES ASSUME MediaInv, RequestStep PROVE MediaInv'
  OBVIOUS
<1> USE DEF MediaInv
<1>0. /\ phase = "request" /\ Request!Next
      /\ UNCHANGED <<op, phase, extra, size, listing, chosen, result, configured,
                     budget, stream>>
      /\ RP!TypeOK' /\ RP!DeviceInv' /\ RP!OpenInv' /\ RP!TimeInv'
      /\ extra = 0 /\ result = "pending"
  BY RequestKeeps, SameTypes DEF RequestStep, RequestInv, TypeOK, CourseInv
<1>1. TypeOK'
  BY <1>0, SameTypes DEF TypeOK
<1>2. CourseInv'
  BY <1>0 DEF CourseInv, RP!TimeInv
<1>3. RequestInv'
  BY <1>0 DEF RequestInv
<1>4. BodyInv'
  <2>1. clock' \in Nat /\ granted' \in Nat /\ attempt' \in {"digest", "basic"}
    BY <1>0 DEF RP!TypeOK, RP!ValuesOK, RP!Attempts
  <2>2. granted' <= configured
    BY <1>0 DEF RP!TimeInv
  <2>3. configured \in Nat \ {0} /\ (budget # NoDeadline => budget \in Nat)
    BY Numbers DEF CourseInv
  <2>4. /\ attempt' = "digest" =>
             clock' <= 4 * granted' /\ (budget # NoDeadline => granted' <= budget)
        /\ attempt' = "basic" =>
             /\ clock' <= 6 * configured
             /\ budget # NoDeadline => clock' <= budget + 3 * configured
    BY <1>0 DEF RP!TimeInv
  <2>5. /\ clock' <= 6 * configured
        /\ budget # NoDeadline => clock' <= budget + 3 * configured
    <3>1. CASE attempt' = "digest"
      <4>1. clock' <= 6 * configured
        BY <2>1, <2>2, <2>3, <2>4, <3>1, FourPhases
      <4>2. ASSUME budget # NoDeadline PROVE clock' <= budget + 3 * configured
        BY <2>1, <2>2, <2>3, <2>4, <3>1, <4>2, FourPhases
      <4>3. QED
        BY <4>1, <4>2
    <3>2. QED
      BY <2>1, <2>4, <3>1
  <2>6. SnapshotOverrun'
    <3>1. ASSUME op = "snapshot" PROVE SnapshotOverrun'
      <4>1. /\ DripReads * configured \in Nat \ {0} /\ budget \in Nat
            /\ budget # NoDeadline
            /\ TimeoutPhases <= budget => 6 * configured <= budget
        BY <3>1, <2>3, Numbers, MediaAssumption
      <4>2. Elapsed' = clock' /\ Timeout' = budget
        <5>1. Elapsed' = clock'
          <6>1. extra' = 0
            BY <1>0
          <6>2. QED
            BY <2>1, <6>1, NoTimeAfter DEF Elapsed
        <5>2. op' = "snapshot" /\ budget' = budget
          BY <1>0, <3>1
        <5>3. QED
          BY <5>1, <5>2 DEF Timeout
      <4>3. QED
        <5>1. CASE TimeoutPhases <= budget
          <6>1. clock' < budget + DripReads * configured
            BY <2>1, <2>3, <2>5, <4>1, <5>1
          <6>2. QED
            BY <1>0, <4>2, <5>1, <6>1 DEF SnapshotOverrun
        <5>2. CASE ~ (TimeoutPhases <= budget)
          <6>1. clock' < budget + DripReads * configured + 3 * configured
            BY <2>1, <2>3, <2>5, <4>1
          <6>2. QED
            BY <1>0, <4>2, <5>2, <6>1 DEF SnapshotOverrun
        <5>3. QED
          BY <5>1, <5>2
    <3>2. QED
      BY <1>0, <3>1 DEF SnapshotOverrun
  <2>7. QED
    BY <1>0, <2>6 DEF BodyInv, SnapshotCleansUp
<1>5. FrameInv'
  BY <1>0 DEF FrameInv
<1>6. QED
  BY <1>1, <1>2, <1>3, <1>4, <1>5

\* So does a request that is carried out late.
LEMMA StepLate == MediaInv /\ LateStep => MediaInv'
<1> SUFFICES ASSUME MediaInv, LateStep PROVE MediaInv'
  OBVIOUS
<1> USE DEF MediaInv
<1>0. /\ phase # "request"
      /\ UNCHANGED <<op, phase, extra, size, listing, chosen, result, configured,
                     budget, stream, granted, open, clock>>
      /\ RP!TypeOK'
  BY RequestKeeps, SameTypes, Zenon
  DEF LateStep, TypeOK, Request!Next, Request!DeviceExecutes
<1>1. TypeOK'
  BY <1>0, SameTypes DEF TypeOK
<1>2. QED
  BY <1>0, <1>1
  DEF CourseInv, RequestInv, BodyInv, FrameInv, SnapshotCleansUp, SnapshotOverrun,
      Elapsed, Timeout, Best, Available

\* A wait for a chunk, in terms of the configured timeout.
LEMMA WaitBound ==
  ASSUME NEW r \in Nat \ {0}, NEW g \in Nat, NEW k \in Nat, g <= k
  PROVE  r * g \in Nat /\ r * g <= r * k
OBVIOUS

\* What the client makes of a request that has ended.
LEMMA StepClient == MediaInv /\ Client => MediaInv'
<1> SUFFICES ASSUME MediaInv, Client PROVE MediaInv'
  OBVIOUS
<1> USE DEF MediaInv
<1>0. /\ UNCHANGED <<configured, budget, stream, attempt, exchange, stage, granted,
                     status, clock, outcome, travelling, executions, op>>
      /\ open' = open \/ (open' = {} /\ op = "snapshot")
  BY Zenon DEF Client, RequestRaised, BeginBody, EndOfBody, Inventory, Ffmpeg, Chunk,
     Finish, CourseInv
<1>t. Request!TypeOK' /\ UNCHANGED Timeout
  BY <1>0, Closing
<1>n. /\ configured \in Nat \ {0} /\ clock \in Nat /\ extra \in Nat
      /\ Timeout \in Nat \ {0} /\ granted \in Nat /\ granted <= configured
      /\ DripReads * configured \in Nat /\ size \in Nat
  BY Numbers DEF TypeOK
<1>1. CASE RequestRaised
  <2>1. /\ phase = "request" /\ stage = "done" /\ outcome # "ok" /\ open = {}
        /\ phase' = "done" /\ result' = outcome /\ open' = open
        /\ UNCHANGED <<extra, size, listing, chosen>>
    BY <1>1 DEF RequestRaised, Finish, RequestInv, RP!OpenInv, RP!NothingLeftOpen
  <2>2. outcome \in Outcomes /\ outcome # "pending"
    BY <2>1 DEF RequestInv, RP!DeviceInv, TypeOK, Request!TypeOK, Request!ValuesOK,
       Request!Outcomes, Outcomes
  <2>3. TypeOK' /\ CourseInv' /\ RequestInv'
    BY <1>0, <1>t, <2>1, <2>2 DEF TypeOK, CourseInv, RequestInv, Results
  <2>4. BodyInv' /\ FrameInv'
    BY <1>0, <1>t, <2>1
    DEF BodyInv, FrameInv, SnapshotCleansUp, SnapshotOverrun, Elapsed
  <2>5. QED
    BY <2>3, <2>4
<1>2. CASE BeginBody
  <2>1. /\ op = "snapshot" /\ phase = "request"
        /\ UNCHANGED <<extra, size, listing, chosen>>
        /\ \/ phase' = "done" /\ result' = "unreachable" /\ open' = {}
           \/ ~ (Elapsed >= Timeout) /\ phase' = "body" /\ result' = result /\ open' = open
    BY <1>2 DEF BeginBody, Finish
  <2>2. TypeOK' /\ CourseInv' /\ RequestInv'
    BY <1>0, <1>t, <2>1 DEF TypeOK, CourseInv, RequestInv, Results, Outcomes
  <2>3. BodyInv'
    <3>1. SnapshotCleansUp' /\ SnapshotOverrun'
      BY <1>0, <1>t, <2>1
      DEF BodyInv, SnapshotCleansUp, SnapshotOverrun, Elapsed
    <3>2. phase' = "body" => Elapsed < Timeout
      BY <1>n, <2>1 DEF Elapsed
    <3>3. Elapsed' = Elapsed /\ Timeout' = Timeout
      BY <1>0, <1>t, <2>1 DEF Elapsed
    <3>4. QED
      BY <3>1, <3>2, <3>3 DEF BodyInv
  <2>4. FrameInv'
    BY <1>0, <2>1 DEF FrameInv
  <2>5. QED
    BY <2>2, <2>3, <2>4
<1>r. ASSUME Wait(DripReads), phase = "body", op = "snapshot"
      PROVE  /\ extra' \in Nat /\ Elapsed' \in Nat /\ Elapsed' = clock + extra'
             /\ SnapshotOverrun'
  <2>1. DripReads * granted \in Nat /\ DripReads * granted <= DripReads * configured
    BY <1>n, MediaAssumption, WaitBound
  <2>2. PICK d \in Nat : d <= DripReads * configured /\ extra' = extra + d
    BY <1>n, <1>r, <2>1 DEF Wait
  <2>3. Elapsed < Timeout
    BY <1>r DEF BodyInv
  <2>4. Elapsed' = clock + extra' /\ extra' \in Nat /\ Elapsed' = Elapsed + d
    BY <1>0, <1>n, <2>2 DEF Elapsed
  <2>5. /\ Elapsed \in Nat /\ Elapsed' < Timeout + DripReads * configured
        /\ Elapsed' < Timeout + DripReads * configured + 3 * configured
    BY <1>n, <2>2, <2>3, <2>4 DEF Elapsed
  <2>6. UNCHANGED <<configured, budget, op, Timeout>>
    BY <1>0, <1>t
  <2>7. SnapshotOverrun'
    BY <2>5, <2>6 DEF SnapshotOverrun
  <2>8. QED
    BY <2>2, <2>4, <2>5, <2>7
<1>3. CASE EndOfBody
  <2>1. /\ phase = "body" /\ op = "snapshot" /\ open' = {}
        /\ phase' = "done" /\ result' \in {"ok", "error", "other"} /\ Wait(DripReads)
        /\ UNCHANGED <<size, listing, chosen>>
    BY <1>3 DEF EndOfBody, Finish, CourseInv
  <2>2. TypeOK' /\ CourseInv' /\ RequestInv'
    BY <1>0, <1>r, <1>t, <2>1 DEF TypeOK, CourseInv, RequestInv, Results, Outcomes
  <2>3. BodyInv' /\ FrameInv'
    BY <1>0, <1>r, <2>1 DEF BodyInv, FrameInv, SnapshotCleansUp
  <2>4. QED
    BY <2>2, <2>3
<1>4. ASSUME NEW n \in ChunkSizes, Chunk(n) PROVE MediaInv'
  <2>1. /\ phase = "body" /\ op = "snapshot" /\ Wait(DripReads)
        /\ UNCHANGED <<listing, chosen>>
        /\ \/ phase' = "done" /\ result' \in {"error", "unreachable"} /\ open' = {}
           \/ /\ phase' = phase /\ result' = result
              /\ ~ (clock + extra' >= Timeout)
        /\ size' = size \/ (size' = size + n /\ size + n <= MaxImage)
    BY <1>4 DEF Chunk, Finish, CourseInv
  <2>2. size' \in Nat /\ (size <= MaxImage => size' <= MaxImage)
    BY <1>n, <2>1, MediaAssumption
  <2>3. TypeOK' /\ CourseInv' /\ RequestInv'
    BY <1>0, <1>r, <1>t, <2>1, <2>2 DEF TypeOK, CourseInv, RequestInv, Results, Outcomes
  <2>4. phase' = "body" => Elapsed' < Timeout'
    BY <1>n, <1>r, <1>t, <2>1
  <2>5. BodyInv' /\ FrameInv'
    BY <1>0, <1>r, <2>1, <2>2, <2>4 DEF BodyInv, FrameInv, SnapshotCleansUp
  <2>6. QED
    BY <2>3, <2>5
<1>5. CASE Inventory
  <2> DEFINE
        Ended == /\ phase' = "done" /\ result' \in {"error", "parse", "unreachable"}
                 /\ listing' \in [Streams -> SUBSET Said] \cup {None}
                 /\ chosen' \in Streams \cup {None}
        Started == /\ phase' = "ffmpeg" /\ result' = result
                   /\ Best' /\ Elapsed < Timeout
  <2>1. /\ phase = "request" /\ op = "auto" /\ UNCHANGED <<extra, size, open>>
    BY <1>5 DEF Inventory
  <2>2. Ended \/ Started
    <3>1. CASE UNCHANGED <<listing, chosen>> /\ Finish("parse")
      BY <3>1 DEF Finish, TypeOK
    <3>2. ASSUME NEW rows \in [Streams -> SUBSET Said], listing' = rows,
                 Available(rows) = {}, Finish("error"), UNCHANGED chosen
          PROVE  Ended
      BY <3>2 DEF Finish, TypeOK
    <3>3. ASSUME NEW rows \in [Streams -> SUBSET Said], listing' = rows,
                 Available(rows) # {}, chosen' = Prefer(Available(rows)), StartFfmpeg
          PROVE  Ended \/ Started
      <4>1. Best'
        BY <3>3 DEF Best
      <4>2. chosen' \in Streams
        BY <3>3 DEF Prefer, Streams
      <4>3. CASE Finish("unreachable")
        BY <3>3, <4>2, <4>3 DEF Finish
      <4>4. CASE ~ (Elapsed >= Timeout) /\ phase' = "ffmpeg" /\ UNCHANGED result
        BY <1>n, <4>1, <4>4 DEF Elapsed
      <4>5. QED
        BY <3>3, <4>3, <4>4 DEF StartFfmpeg
    <3>4. QED
      BY <1>5, <3>1, <3>2, <3>3 DEF Inventory
  <2>3. TypeOK' /\ CourseInv' /\ RequestInv'
    BY <1>0, <1>t, <2>1, <2>2
    DEF TypeOK, CourseInv, RequestInv, Results, Outcomes, Best, Prefer, Streams
  <2>4. Elapsed' = Elapsed /\ Timeout' = Timeout /\ (Elapsed < Timeout => Elapsed <= Timeout)
    BY <1>0, <1>n, <1>t, <2>1 DEF Elapsed
  <2>5. BodyInv' /\ FrameInv'
    BY <1>0, <2>1, <2>2, <2>4
    DEF BodyInv, FrameInv, SnapshotCleansUp, SnapshotOverrun
  <2>6. QED
    BY <2>3, <2>5
<1>6. CASE Ffmpeg
  <2>1. PICK d \in 0 .. (Timeout - Elapsed) : extra' = extra + d
    BY <1>6 DEF Ffmpeg
  <2>2. /\ phase = "ffmpeg" /\ phase' = "done" /\ UNCHANGED <<open, size, listing, chosen>>
        /\ op # "snapshot" /\ result' \in {"ok", "unreachable", "error"}
    BY <1>6 DEF Ffmpeg, Finish, CourseInv
  <2>3. extra' \in Nat /\ clock + extra' <= Timeout
    BY <1>n, <2>1 DEF Elapsed
  <2>4. TypeOK' /\ CourseInv' /\ RequestInv'
    BY <1>0, <1>t, <2>2, <2>3 DEF TypeOK, CourseInv, RequestInv, Results, Outcomes
  <2>5. Elapsed' <= Timeout'
    BY <1>0, <1>t, <2>3 DEF Elapsed
  <2>6. BodyInv' /\ FrameInv'
    BY <1>0, <2>2, <2>5
    DEF BodyInv, FrameInv, SnapshotCleansUp, SnapshotOverrun, Best, Available
  <2>7. QED
    BY <2>4, <2>6
<1>7. QED
  BY <1>1, <1>2, <1>3, <1>4, <1>5, <1>6 DEF Client

\* The inductive invariant of snapshot and snapshot_rtsp.
THEOREM MediaInvariant == Spec => []MediaInv
<1>1. MediaInv /\ UNCHANGED vars => MediaInv'
  BY DEF MediaInv, vars, TypeOK, CourseInv, RequestInv, BodyInv, FrameInv,
     SnapshotCleansUp, SnapshotOverrun, Elapsed, Timeout, Best, Available,
     Request!TypeOK, Request!FlagsOK, Request!ValuesOK,
     RP!DeviceInv, RP!OpenInv, RP!NothingLeftOpen, RP!TimeInv
<1>2. MediaInv /\ [Next]_vars => MediaInv'
  BY <1>1, StepRequest, StepLate, StepClient DEF Next
<1>3. QED
  BY InitMedia, <1>2, PTL DEF Spec

\* Type correctness of snapshot and snapshot_rtsp, the request included.
THEOREM MediaTypeOK == Spec => []TypeOK
<1>1. MediaInv => TypeOK
  BY DEF MediaInv
<1>2. QED
  BY <1>1, MediaInvariant, PTL

\* A snapshot never keeps more than the maximum, and however it ends no
\* streamed response stays open (client.py:663-682).
THEOREM MediaSnapshotCleansUp == Spec => []SnapshotCleansUp
<1>1. MediaInv => SnapshotCleansUp
  BY DEF MediaInv, BodyInv
<1>2. QED
  BY <1>1, MediaInvariant, PTL

\* Cut in six phases or more, a snapshot's budget is outlived by the reads of one
\* chunk at the most; one that is too short to be cut, by three phases besides
\* (client.py:56, 646-676).
THEOREM MediaSnapshotOverrun == Spec => []SnapshotOverrun
<1>1. MediaInv => SnapshotOverrun
  BY DEF MediaInv, BodyInv
<1>2. QED
  BY <1>1, MediaInvariant, PTL

\* A frame of stream "auto" is in time, and of the best stream the device
\* advertised (client.py:597-637, 722-725).
THEOREM MediaFrameIsBestInTime == Spec => []FrameIsBestInTime
<1>1. ASSUME MediaInv, op = "auto", result = "ok"
      PROVE  /\ listing[chosen] \notin SUBSET {"disabled"}
             /\ chosen = "main" => listing["sub"] \in SUBSET {"disabled"}
  <2>1. Best
    BY <1>1 DEF MediaInv, FrameInv
  <2>2. \A s \in Streams : s \in Available(listing) <=> listing[s] \notin SUBSET {"disabled"}
    BY DEF Available
  <2>3. Available(listing) \subseteq {"sub", "main"}
    BY DEF Available, Streams
  <2>4. chosen \in Available(listing) /\ (chosen = "main" => "sub" \notin Available(listing))
    BY <2>1, <2>3 DEF Best, Prefer
  <2>5. QED
    BY <2>2, <2>4 DEF Streams, Available
<1>2. MediaInv => FrameIsBestInTime
  BY <1>1 DEF FrameIsBestInTime, MediaInv, FrameInv
<1>3. QED
  BY <1>2, MediaInvariant, PTL

-----------------------------------------------------------------------------
(* The request inside of the operation. *)

\* What is known of the device stays known after the request has ended, and
\* every step is one the request's contract allows, or none of it.
LEMMA StepOfContract ==
  MediaInv /\ RP!DeviceInv /\ [Next]_vars =>
    RP!DeviceInv' /\ [Request!Contract!Next]_(Request!Contract!vars)
<1> SUFFICES ASSUME MediaInv, RP!DeviceInv, [Next]_vars
             PROVE  RP!DeviceInv' /\ [Request!Contract!Next]_(Request!Contract!vars)
  OBVIOUS
<1>1. RP!TypeOK
  BY SameTypes DEF MediaInv, TypeOK
<1>2. CASE Request!Next
  <2>1. [RP!Next]_RP!vars
    BY <1>2, SameNext
  <2>2. RP!DeviceInv' /\ [RP!Contract!Next]_(RP!Contract!vars)
    BY <1>1, <2>1, RequestParameters, RP!StepDevice, RP!StepContract
  <2>3. QED
    BY <2>2
    DEF RP!Contract!Next, RP!Contract!vars, RP!Contract!Execute, RP!Contract!End,
        RP!Contract!Outcomes, RP!Contract!Consistent,
        Request!Contract!Next, Request!Contract!vars, Request!Contract!Execute,
        Request!Contract!End, Request!Contract!Outcomes, Request!Contract!Consistent
<1>3. CASE UNCHANGED <<stage, status, outcome, travelling, executions>>
  BY <1>3 DEF RP!DeviceInv, Request!Contract!vars
<1>4. Client \/ UNCHANGED vars => UNCHANGED <<stage, status, outcome, travelling, executions>>
  BY Zenon DEF Client, RequestRaised, BeginBody, EndOfBody, Inventory, Ffmpeg, Chunk, vars
<1>5. RequestStep \/ LateStep => Request!Next
  BY DEF RequestStep, LateStep, Request!Next
<1>6. QED
  BY <1>2, <1>3, <1>4, <1>5 DEF Next

\* Whatever becomes of the operation, its request keeps the contract, also when
\* it is carried out after the operation has ended (client.py:597, 654).
THEOREM MediaKeepsContract == Spec => Request!ImplementsContract
<1>1. Init => RP!DeviceInv /\ Request!Contract!Init
  <2>1. Request!Init => RP!DeviceInv
    BY RequestParameters, SameInit, RP!InitInvariant DEF RP!Invariant
  <2>2. Request!Init => Request!Contract!Init
    BY DEF Request!Init, Request!Contract!Init
  <2>3. QED
    BY <2>1, <2>2 DEF Init
<1>2. QED
  BY <1>1, StepOfContract, MediaInvariant, PTL
  DEF Spec, Request!Contract!Spec, Request!ImplementsContract

-----------------------------------------------------------------------------
(* That an operation ends, but for fairness. *)

\* The steps an operation may still take: those of its request, then one for
\* each unit of the image that there is still room for.
StepsLeft ==
  CASE phase = "request" -> RP!StepsLeft + MaxImage + 2
    [] phase = "body" -> (MaxImage - size) + 1
    [] phase = "ffmpeg" -> 1
    [] phase = "done" -> 0

Steps == Client \/ (RequestStep /\ (Request!Client \/ Request!Library))

\* It goes down with every step but those of the device.
LEMMA StepLeft ==
  MediaInv /\ [Next]_vars =>
    /\ StepsLeft \in 0 .. MaxImage + 14
    /\ Steps => StepsLeft' < StepsLeft
    /\ ~Steps => StepsLeft' = StepsLeft
<1> SUFFICES ASSUME MediaInv, [Next]_vars
             PROVE  /\ StepsLeft \in 0 .. MaxImage + 14
                    /\ Steps => StepsLeft' < StepsLeft
                    /\ ~Steps => StepsLeft' = StepsLeft
  OBVIOUS
<1>0. /\ MaxImage \in Nat /\ size \in Nat /\ size <= MaxImage
      /\ phase \in {"request", "body", "ffmpeg", "done"}
  BY MediaAssumption DEF MediaInv, TypeOK, BodyInv, SnapshotCleansUp
<1>1. RP!TypeOK
  BY SameTypes DEF MediaInv, TypeOK
<1>2. RP!StepsLeft \in 0 .. 12
  BY <1>1 DEF RP!StepsLeft, RP!TypeOK, RP!ValuesOK, RP!Attempts
<1>3. StepsLeft \in 0 .. MaxImage + 14
  BY <1>0, <1>2 DEF StepsLeft
<1>4. ASSUME Client PROVE StepsLeft' < StepsLeft
  <2>1. CASE phase = "request"
    <3>1. /\ phase' \in {"body", "ffmpeg", "done"} /\ size' = size
      BY <1>4, <2>1 DEF Client, RequestRaised, BeginBody, EndOfBody, Inventory,
         StartFfmpeg, Ffmpeg, Chunk, Finish
    <3>2. QED
      BY <1>0, <1>2, <2>1, <3>1 DEF StepsLeft
  <2>2. CASE phase = "body"
    <3>1. \/ phase' = "done"
          \/ phase' = "body" /\ \E n \in ChunkSizes : size' = size + n /\ size' <= MaxImage
      BY <1>4, <2>2 DEF Client, RequestRaised, BeginBody, EndOfBody, Inventory,
         Ffmpeg, Chunk, Finish
    <3>2. QED
      BY <1>0, <2>2, <3>1, MediaAssumption DEF StepsLeft
  <2>3. CASE phase = "ffmpeg"
    <3>1. phase' = "done"
      BY <1>4, <2>3 DEF Client, RequestRaised, BeginBody, EndOfBody, Inventory,
         Ffmpeg, Chunk, Finish
    <3>2. QED
      BY <2>3, <3>1 DEF StepsLeft
  <2>4. CASE phase = "done"
    BY <1>4, <2>4 DEF Client, RequestRaised, BeginBody, EndOfBody, Inventory,
       Ffmpeg, Chunk
  <2>5. QED
    BY <1>0, <2>1, <2>2, <2>3, <2>4
<1>5. ASSUME RequestStep, Request!Client \/ Request!Library
      PROVE  StepsLeft' < StepsLeft
  <2>1. phase = "request" /\ phase' = "request" /\ [RP!Next]_RP!vars
    BY <1>5, SameNext DEF RequestStep
  <2>2. RP!StepsLeft' \in 0 .. 12 /\ RP!StepsLeft' < RP!StepsLeft
    BY <1>1, <1>5, <2>1, SameSteps, RequestParameters, RP!StepLeft
  <2>3. QED
    BY <1>0, <1>2, <2>1, <2>2 DEF StepsLeft
<1>6. ASSUME ~Steps PROVE StepsLeft' = StepsLeft
  <2>1. /\ UNCHANGED <<phase, size, stage, attempt, exchange>>
    BY <1>6 DEF Steps, Next, RequestStep, LateStep, Request!Next,
       Request!DeviceExecutes, vars
  <2>2. RP!StepsLeft' = RP!StepsLeft
    BY <1>1, <2>1 DEF RP!StepsLeft, RP!TypeOK, RP!ValuesOK, RP!Attempts
  <2>3. QED
    BY <1>0, <2>1, <2>2 DEF StepsLeft
<1>7. QED
  BY <1>3, <1>4, <1>5, <1>6 DEF Steps

\* No operation takes more steps than its request and the units of an image
\* that is not too large, even when the device sends for ever and sends at
\* once (client.py:663-682).
THEOREM MediaStepsCountDown ==
  Spec => /\ [](StepsLeft \in 0 .. MaxImage + 14)
          /\ [][Steps => StepsLeft' < StepsLeft]_vars
          /\ [][~Steps => StepsLeft' = StepsLeft]_vars
<1>1. MediaInv /\ [Next]_vars =>
        /\ StepsLeft \in 0 .. MaxImage + 14
        /\ [Steps => StepsLeft' < StepsLeft]_vars
        /\ [~Steps => StepsLeft' = StepsLeft]_vars
  BY StepLeft
<1>2. QED
  BY <1>1, MediaInvariant, PTL DEF Spec
=============================================================================
