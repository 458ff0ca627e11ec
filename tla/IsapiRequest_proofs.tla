------------------------- MODULE IsapiRequest_proofs -------------------------
(***************************************************************************)
(* Proofs about IsapiRequest, for every set of timeouts and budgets: what  *)
(* a call leaves behind on the device and in the client, how long it may   *)
(* take, and that it keeps RequestContract.                                *)
(***************************************************************************)
EXTENDS IsapiRequest, TLAPS

USE DEF Attempts, arguments

\* What is known of the device at each stage: before a request is sent and
\* after a 401 nothing was carried out; while a read is pending the request is
\* either undecided or carried out; only an unanswered call leaves one behind.
DeviceInv ==
  /\ executions <= 1 /\ (travelling => executions = 0)
  /\ stage \in {"call", "connect"} => executions = 0 /\ ~travelling
  /\ stage = "read" => (travelling <=> executions = 0)
  /\ stage = "reply" =>
       /\ ~travelling /\ status # "none"
       /\ status = "401" => executions = 0
       /\ status = "2xx" => executions = 1
  /\ stage # "done" <=> outcome = "pending"
  /\ outcome = "auth" => executions = 0
  /\ outcome = "ok" => executions = 1
  /\ stage = "done" /\ travelling => outcome = "unreachable"

\* The one open response is the one under examination or the one returned.
OpenInv ==
  /\ stage \in {"call", "connect", "read"} => open = {}
  /\ stage = "reply" => open = {attempt}
  /\ NothingLeftOpen

\* How many granted phases the Digest attempt has used, and where the Basic
\* attempt stands relative to what was left when it was granted its timeout.
TimeInv ==
  /\ granted <= configured
  /\ attempt = "digest" =>
       /\ budget # NoDeadline => granted <= budget
       /\ stage = "call" => clock = 0
       /\ stage = "connect" /\ exchange = 1 => clock = 0
       /\ stage = "read" /\ exchange = 1 => clock <= granted
       /\ stage = "connect" /\ exchange = 2 => clock <= 2 * granted
       /\ stage = "read" /\ exchange = 2 => clock <= 3 * granted
       /\ clock <= 4 * granted
  /\ attempt = "basic" =>
       /\ stage = "call" => clock <= 4 * configured
       /\ stage = "connect" => clock <= 4 * configured
       /\ stage = "read" => clock <= 5 * configured
       /\ clock <= 6 * configured
       /\ budget # NoDeadline =>
            /\ stage = "connect" => clock + granted <= budget
            /\ stage = "read" => clock <= budget
            /\ clock <= budget + 3 * configured

Invariant == TypeOK /\ DeviceInv /\ OpenInv /\ TimeInv

\* The invariant holds when _request is entered.
LEMMA InitInvariant == Init => Invariant
<1> SUFFICES ASSUME Init PROVE Invariant
  OBVIOUS
<1>1. FlagsOK
  BY Zenon DEF Init, FlagsOK
<1>2. ValuesOK
  BY DEF Init, ValuesOK
<1>3. DeviceInv /\ OpenInv
  BY DEF Init, DeviceInv, OpenInv, NothingLeftOpen
<1>4. TimeInv
  BY RequestAssumption DEF Init, TimeInv
<1>5. QED
  BY <1>1, <1>2, <1>3, <1>4 DEF Invariant, TypeOK

\* No step of the client, the library or the device breaks the types.
LEMMA StepType == TypeOK /\ [Next]_vars => TypeOK'
<1> SUFFICES ASSUME TypeOK, [Next]_vars PROVE TypeOK'
  OBVIOUS
<1>0. configured \in Nat /\ (budget # NoDeadline => budget \in Nat)
  BY RequestAssumption DEF TypeOK, ValuesOK
<1>1. FlagsOK'
  BY Zenon DEF Next, Client, Library, DeviceExecutes, DeadlineExpired, Call,
     FallBackToBasic, BothRefused, RaiseForStatus, ReturnResponse, Finish,
     Connect, ConnectFails, Challenged, NoAnswer, BodyBreaks, Answered,
     TypeOK, FlagsOK, vars
<1>2. ValuesOK'
  <2> USE DEF TypeOK, ValuesOK, Outcomes, Finish
  <2>0. ASSUME Elapse PROVE clock' \in Nat
    BY <2>0 DEF Elapse
  <2>1. CASE DeadlineExpired
    BY <2>1 DEF DeadlineExpired
  <2>2. CASE Call
    <3>1. granted' \in Nat
      BY <1>0, <2>2 DEF Call, RequestTimeout, Expired
    <3>2. QED
      BY <2>2, <3>1 DEF Call
  <2>3. CASE FallBackToBasic
    BY <2>3 DEF FallBackToBasic
  <2>4. CASE BothRefused \/ RaiseForStatus \/ ReturnResponse
    BY <2>4 DEF BothRefused, RaiseForStatus, ReturnResponse
  <2>5. CASE Connect \/ ConnectFails \/ NoAnswer \/ BodyBreaks
    BY <2>0, <2>5 DEF Connect, ConnectFails, NoAnswer, BodyBreaks
  <2>6. CASE Challenged
    BY <2>0, <2>6 DEF Challenged
  <2>7. ASSUME NEW s \in {"2xx", "401", "failure"}, Answered(s) PROVE ValuesOK'
    BY <2>0, <2>7 DEF Answered
  <2>8. CASE DeviceExecutes
    BY <2>8 DEF DeviceExecutes
  <2>9. CASE UNCHANGED vars
    BY <2>9 DEF vars
  <2>10. QED
    BY <2>1, <2>2, <2>3, <2>4, <2>5, <2>6, <2>7, <2>8, <2>9
    DEF Next, Client, Library
<1>3. QED
  BY <1>1, <1>2 DEF TypeOK

\* Nor what is known of the device.
LEMMA StepDevice == TypeOK /\ DeviceInv /\ [Next]_vars => DeviceInv'
<1> SUFFICES ASSUME TypeOK, DeviceInv, [Next]_vars PROVE DeviceInv'
  OBVIOUS
<1> USE DEF TypeOK, ValuesOK, FlagsOK, DeviceInv, Outcomes
<1>1. CASE Client
  BY <1>1 DEF Client, DeadlineExpired, Call, FallBackToBasic, BothRefused,
     RaiseForStatus, ReturnResponse, Finish
<1>2. CASE Library
  BY <1>2 DEF Library, Connect, ConnectFails, Challenged, NoAnswer,
     BodyBreaks, Answered, Finish
<1>3. CASE DeviceExecutes
  BY <1>3 DEF DeviceExecutes
<1>4. CASE UNCHANGED vars
  BY <1>4 DEF vars
<1>5. QED
  BY <1>1, <1>2, <1>3, <1>4 DEF Next

\* Nor which responses are open.
LEMMA StepOpen == TypeOK /\ DeviceInv /\ OpenInv /\ [Next]_vars => OpenInv'
<1> SUFFICES ASSUME TypeOK, DeviceInv, OpenInv, [Next]_vars PROVE OpenInv'
  OBVIOUS
<1> USE DEF TypeOK, ValuesOK, FlagsOK, DeviceInv, OpenInv, NothingLeftOpen
<1>1. CASE Client
  BY <1>1 DEF Client, DeadlineExpired, Call, FallBackToBasic, BothRefused,
     RaiseForStatus, ReturnResponse, Finish
<1>2. CASE Library
  BY <1>2 DEF Library, Connect, ConnectFails, Challenged, NoAnswer,
     BodyBreaks, Answered, Finish
<1>3. CASE DeviceExecutes
  BY <1>3 DEF DeviceExecutes
<1>4. CASE UNCHANGED vars
  BY <1>4 DEF vars
<1>5. QED
  BY <1>1, <1>2, <1>3, <1>4 DEF Next

\* Nor the time accounting.
LEMMA StepTime == TypeOK /\ TimeInv /\ [Next]_vars => TimeInv'
<1> SUFFICES ASSUME TypeOK, TimeInv, [Next]_vars PROVE TimeInv'
  OBVIOUS
<1>0. configured \in Nat /\ (budget # NoDeadline => budget \in Nat)
  BY RequestAssumption DEF TypeOK, ValuesOK
<1> USE DEF TypeOK, ValuesOK, TimeInv
<1>1. CASE Client
  BY <1>0, <1>1 DEF Client, DeadlineExpired, Call, FallBackToBasic, BothRefused,
     RaiseForStatus, ReturnResponse, Finish, RequestTimeout, Expired
<1>2. CASE Library
  <2>1. ASSUME Elapse PROVE /\ clock' \in Nat /\ clock <= clock'
                            /\ clock' <= clock + granted
    BY <2>1 DEF Elapse
  <2>2. QED
    BY <1>0, <1>2, <2>1 DEF Library, Connect, ConnectFails, Challenged,
       NoAnswer, BodyBreaks, Answered, Finish
<1>3. CASE DeviceExecutes
  BY <1>3 DEF DeviceExecutes
<1>4. CASE UNCHANGED vars
  BY <1>4 DEF vars
<1>5. QED
  BY <1>1, <1>2, <1>3, <1>4 DEF Next

\* The inductive invariant of _request.
THEOREM RequestInvariant == Spec => []Invariant
<1>1. Invariant /\ [Next]_vars => Invariant'
  BY StepType, StepDevice, StepOpen, StepTime DEF Invariant
<1>2. QED
  BY InitInvariant, <1>1, PTL DEF Spec

\* Type correctness of _request's state.
THEOREM RequestTypeOK == Spec => []TypeOK
BY RequestInvariant, PTL DEF Invariant

\* Digest and Basic together make the device execute a request at most once,
\* and never when the call raised HikAuthError (client.py:181-213).
THEOREM RequestAtMostOnce == Spec => []AtMostOnce
<1>1. Invariant => AtMostOnce
  BY DEF Invariant, DeviceInv, AtMostOnce
<1>2. QED
  BY <1>1, RequestInvariant, PTL

\* No ending of the call leaks a response (client.py:197, 212, 217).
THEOREM RequestNothingLeftOpen == Spec => []NothingLeftOpen
<1>1. Invariant => NothingLeftOpen
  BY DEF Invariant, OpenInv
<1>2. QED
  BY <1>1, RequestInvariant, PTL

\* The overrun past a deadline is below three configured timeouts.
THEOREM RequestOverrunBounded == Spec => []OverrunBounded
<1>1. Invariant => OverrunBounded
  BY RequestAssumption DEF Invariant, TypeOK, ValuesOK, TimeInv, OverrunBounded, Attempts
<1>2. QED
  BY <1>1, RequestInvariant, PTL

\* Eight phases always fit the budget they were cut from (client.py:56, 653).
THEOREM RequestPhasesFitBudget == Spec => []PhasesFitBudget
<1>1. Invariant => PhasesFitBudget
  BY RequestAssumption
  DEF Invariant, TypeOK, ValuesOK, TimeInv, PhasesFitBudget, Phases, Attempts
<1>2. QED
  BY <1>1, RequestInvariant, PTL

\* How far a deadline is kept (client.py:176, 653).
THEOREM RequestDeadlineKept == Spec => []DeadlineKept
<1>1. OverrunBounded /\ PhasesFitBudget => DeadlineKept
  BY DEF DeadlineKept
<1>2. QED
  BY <1>1, RequestOverrunBounded, RequestPhasesFitBudget, PTL

\* Every step of a request is one its callers' contract allows, or none of it.
LEMMA StepContract ==
  TypeOK /\ DeviceInv /\ [Next]_vars => [Contract!Next]_(Contract!vars)
<1> SUFFICES ASSUME TypeOK, DeviceInv, [Next]_vars
             PROVE  [Contract!Next]_(Contract!vars)
  OBVIOUS
<1> USE DEF TypeOK, ValuesOK, DeviceInv, Contract!vars, Consistent
<1>1. CASE stage # "done" /\ stage' = "done" /\ outcome' \in Outcomes
           /\ executions' = executions /\ Consistent(outcome', executions = 1)
  BY <1>1 DEF Contract!Next, Contract!End, Contract!Consistent,
     Contract!Outcomes, Outcomes
<1>2. CASE UNCHANGED <<outcome, executions>>
  BY <1>2
<1>3. CASE DeviceExecutes
  BY <1>3 DEF DeviceExecutes, Contract!Next, Contract!Execute
<1>4. CASE Client
  BY <1>1, <1>2, <1>4 DEF Client, DeadlineExpired, Call, FallBackToBasic,
     BothRefused, RaiseForStatus, ReturnResponse, Finish, Outcomes
<1>5. CASE Library
  BY <1>1, <1>2, <1>5 DEF Library, Connect, ConnectFails, Challenged,
     NoAnswer, BodyBreaks, Answered, Finish, Outcomes
<1>6. CASE UNCHANGED vars
  BY <1>2, <1>6 DEF vars
<1>7. QED
  BY <1>3, <1>4, <1>5, <1>6 DEF Next

\* _request keeps the contract its callers rely on.
THEOREM RequestRefines == Spec => ImplementsContract
<1>1. Init => Contract!Init
  BY DEF Init, Contract!Init
<1>2. Invariant => TypeOK /\ DeviceInv
  BY DEF Invariant
<1>3. QED
  BY <1>1, <1>2, StepContract, RequestInvariant, PTL
  DEF Spec, Contract!Spec, ImplementsContract

-----------------------------------------------------------------------------
(* That a call ends, but for fairness. *)

\* The steps a call may still take: six of an attempt that is challenged, and
\* another six after the fallback.
StepsLeft ==
  IF stage = "done" THEN 0
  ELSE (IF attempt = "digest" THEN 6 ELSE 0)
       + (CASE stage = "call" -> 6
            [] stage = "connect" -> IF exchange = 1 THEN 5 ELSE 3
            [] stage = "read" -> IF exchange = 1 THEN 4 ELSE 2
            [] stage = "reply" -> 1)

\* It goes down with every step of the client and of the library, and the
\* device has no part in it.
LEMMA StepLeft ==
  TypeOK /\ [Next]_vars =>
    /\ StepsLeft \in 0 .. 12 /\ StepsLeft' \in 0 .. 12
    /\ Client \/ Library => StepsLeft' < StepsLeft
    /\ ~ (Client \/ Library) => StepsLeft' = StepsLeft
<1> SUFFICES ASSUME TypeOK, [Next]_vars
             PROVE  /\ StepsLeft \in 0 .. 12 /\ StepsLeft' \in 0 .. 12
                    /\ Client \/ Library => StepsLeft' < StepsLeft
                    /\ ~ (Client \/ Library) => StepsLeft' = StepsLeft
  OBVIOUS
<1>1. TypeOK'
  BY StepType
<1>2. StepsLeft \in 0 .. 12 /\ StepsLeft' \in 0 .. 12
  BY <1>1 DEF TypeOK, ValuesOK, StepsLeft
<1>3. CASE Client
  BY <1>3 DEF Client, DeadlineExpired, Call, FallBackToBasic, BothRefused,
     RaiseForStatus, ReturnResponse, Finish, StepsLeft, TypeOK, ValuesOK
<1>4. CASE Library
  BY <1>4 DEF Library, Connect, ConnectFails, Challenged, NoAnswer, BodyBreaks,
     Answered, Finish, StepsLeft, TypeOK, ValuesOK
<1>5. ASSUME DeviceExecutes \/ UNCHANGED vars PROVE StepsLeft' = StepsLeft
  BY <1>5 DEF DeviceExecutes, vars, StepsLeft, TypeOK, ValuesOK
<1>6. QED
  BY <1>2, <1>3, <1>4, <1>5 DEF Next

\* No call of _request takes more than twelve steps, whatever the device does:
\* two attempts of two exchanges at the most (client.py:176-214).
THEOREM RequestStepsCountDown ==
  Spec => /\ [](StepsLeft \in 0 .. 12)
          /\ [][Client \/ Library => StepsLeft' < StepsLeft]_vars
          /\ [][~ (Client \/ Library) => StepsLeft' = StepsLeft]_vars
<1>1. TypeOK /\ [Next]_vars =>
        /\ StepsLeft \in 0 .. 12
        /\ [Client \/ Library => StepsLeft' < StepsLeft]_vars
        /\ [~ (Client \/ Library) => StepsLeft' = StepsLeft]_vars
  BY StepLeft
<1>2. QED
  BY <1>1, RequestTypeOK, PTL DEF Spec
=============================================================================
