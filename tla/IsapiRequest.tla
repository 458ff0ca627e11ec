---------------------------- MODULE IsapiRequest ----------------------------
(***************************************************************************)
(* One call of IsapiClient._request: a Digest attempt, on a 401 one Basic  *)
(* attempt, and the translation of every ending into a response or an      *)
(* exception.  Each attempt is one call of the HTTP library, made of one   *)
(* exchange (Basic) or up to two (Digest: the second answers a challenge); *)
(* an exchange is a connect phase and a read phase, each limited by the    *)
(* timeout that the attempt was granted.  The device and the network are   *)
(* the environment: they may refuse, answer, stay silent, break the        *)
(* connection, or carry a request out after the client gave up on it.      *)
(***************************************************************************)
EXTENDS Integers, RequestOutcomes

CONSTANTS
  Timeouts,    \* values of "timeout or self.timeout"
  Budgets,     \* values of "deadline - now" at the call
  NoDeadline   \* deadline=None

ASSUME RequestAssumption ==
  /\ Timeouts \subseteq Nat \ {0}
  /\ Budgets \subseteq Nat
  /\ NoDeadline \notin Nat

VARIABLES
  configured, budget, stream,  \* the arguments: fixed for the call
  attempt,      \* "digest" or "basic"
  exchange,     \* 1 or 2: HTTP exchange within the attempt
  stage,        \* "call", "connect", "read", "reply", "done"
  granted,      \* the timeout handed to the HTTP library for this attempt
  status,       \* class of the response being examined
  open,         \* attempts whose response object has not been closed
  clock,        \* time since the call began
  outcome,      \* "pending" or one of Outcomes
  travelling,   \* the request is on its way or in the device, undecided
  executions    \* how often the device carried it out

arguments == <<configured, budget, stream>>
vars == <<arguments, attempt, exchange, stage, granted, status, open, clock,
          outcome, travelling, executions>>

Attempts == {"digest", "basic"}

Init ==
  /\ configured \in Timeouts
  /\ budget \in Budgets \cup {NoDeadline}
  /\ stream \in BOOLEAN
  /\ attempt = "digest" /\ exchange = 1 /\ stage = "call"
  /\ granted = 0 /\ status = "none" /\ open = {} /\ clock = 0
  /\ outcome = "pending" /\ travelling = FALSE /\ executions = 0

\* A phase takes any time up to the granted timeout.
Elapse == \E d \in 0 .. granted : clock' = clock + d

\* The call ends with outcome o, returned or raised.
Finish(o) == stage' = "done" /\ outcome' = o

-----------------------------------------------------------------------------
(* The client. *)

\* Variant of Expired: the remaining time is never compared with zero.
Expired_Unchecked == FALSE

Expired == budget # NoDeadline /\ clock >= budget

\* request_timeout(): the smaller of the configured and the remaining time.
RequestTimeout ==
  IF budget = NoDeadline \/ configured <= budget - clock
    THEN configured
    ELSE budget - clock

\* Variant of DeadlineExpired: the call waits for the time it no longer has.
DeadlineExpired_Waits ==
  stage = "call" /\ Expired /\ UNCHANGED vars

DeadlineExpired ==
  /\ stage = "call" /\ Expired
  /\ Finish("unreachable")
  /\ UNCHANGED <<arguments, attempt, exchange, granted, status, open, clock,
                 travelling, executions>>

Call ==
  /\ stage = "call" /\ ~Expired
  /\ granted' = RequestTimeout
  /\ stage' = "connect" /\ exchange' = 1
  /\ UNCHANGED <<arguments, attempt, status, open, clock, outcome, travelling,
                 executions>>

\* Variants of FallBackToBasic: any failure is retried with Basic; a 401 to
\* Basic is retried again.
FallBackToBasic_AnyFailure ==
  /\ stage = "reply" /\ status \in {"401", "failure"} /\ attempt = "digest"
  /\ open' = open \ {"digest"}
  /\ attempt' = "basic" /\ stage' = "call"
  /\ UNCHANGED <<arguments, exchange, granted, status, clock, outcome,
                 travelling, executions>>

FallBackToBasic_Repeats ==
  /\ stage = "reply" /\ status = "401"
  /\ open' = open \ {attempt}
  /\ attempt' = "basic" /\ stage' = "call"
  /\ UNCHANGED <<arguments, exchange, granted, status, clock, outcome,
                 travelling, executions>>

\* The first 401: close that response and try Basic, with a fresh timeout.
FallBackToBasic ==
  /\ stage = "reply" /\ status = "401" /\ attempt = "digest"
  /\ open' = open \ {"digest"}
  /\ attempt' = "basic" /\ stage' = "call"
  /\ UNCHANGED <<arguments, exchange, granted, status, clock, outcome,
                 travelling, executions>>

\* Variant of BothRefused: the second 401 is not closed.
BothRefused_LeftOpen ==
  /\ stage = "reply" /\ status = "401" /\ attempt = "basic"
  /\ Finish("auth")
  /\ UNCHANGED <<arguments, attempt, exchange, granted, status, open, clock,
                 travelling, executions>>

BothRefused ==
  /\ stage = "reply" /\ status = "401" /\ attempt = "basic"
  /\ open' = open \ {attempt}
  /\ Finish("auth")
  /\ UNCHANGED <<arguments, attempt, exchange, granted, status, clock,
                 travelling, executions>>

RaiseForStatus ==
  /\ stage = "reply" /\ status = "failure"
  /\ open' = open \ {attempt}
  /\ Finish("http")
  /\ UNCHANGED <<arguments, attempt, exchange, granted, status, clock,
                 travelling, executions>>

ReturnResponse ==
  /\ stage = "reply" /\ status = "2xx"
  /\ Finish("ok")
  /\ UNCHANGED <<arguments, attempt, exchange, granted, status, open, clock,
                 travelling, executions>>

-----------------------------------------------------------------------------
(* The HTTP library, the network and the device. *)

Connect ==
  /\ stage = "connect" /\ Elapse
  /\ stage' = "read" /\ travelling' = TRUE
  /\ UNCHANGED <<arguments, attempt, exchange, granted, status, open, outcome,
                 executions>>

\* ConnectionError or Timeout before the request was sent.
ConnectFails ==
  /\ stage = "connect" /\ Elapse
  /\ Finish("unreachable")
  /\ UNCHANGED <<arguments, attempt, exchange, granted, status, open,
                 travelling, executions>>

\* Also after the client gave up: nothing recalls a request that was sent.
DeviceExecutes ==
  /\ travelling
  /\ travelling' = FALSE /\ executions' = executions + 1
  /\ UNCHANGED <<arguments, attempt, exchange, stage, granted, status, open,
                 clock, outcome>>

\* HTTPDigestAuth answers the challenge of the first exchange by itself.
Challenged ==
  /\ stage = "read" /\ attempt = "digest" /\ exchange = 1 /\ travelling
  /\ Elapse
  /\ travelling' = FALSE /\ exchange' = 2 /\ stage' = "connect"
  /\ UNCHANGED <<arguments, attempt, granted, status, open, outcome,
                 executions>>

\* A response arrives.  A device that has not executed may refuse or fail the
\* request, one that has executed may still answer with a failure.
Answered(s) ==
  /\ stage = "read" /\ Elapse
  /\ s = "401" => travelling
  /\ s = "2xx" => ~travelling
  /\ status' = s /\ stage' = "reply"
  /\ open' = open \cup {attempt}
  /\ travelling' = FALSE
  /\ UNCHANGED <<arguments, attempt, exchange, granted, outcome, executions>>

\* ConnectionError or Timeout after the request was sent.
NoAnswer ==
  /\ stage = "read" /\ Elapse
  /\ Finish("unreachable")
  /\ UNCHANGED <<arguments, attempt, exchange, granted, status, open,
                 travelling, executions>>

\* The library reads a body inside the call, without stream=True that of every
\* response and with it that of the challenge; a connection that breaks there
\* raises an exception that _request does not catch.
BodyBreaks ==
  /\ stage = "read" /\ Elapse
  /\ ~stream \/ (attempt = "digest" /\ exchange = 1 /\ travelling)
  /\ travelling' = FALSE
  /\ Finish("other")
  /\ UNCHANGED <<arguments, attempt, exchange, granted, status, open,
                 executions>>

-----------------------------------------------------------------------------
Client == DeadlineExpired \/ Call \/ FallBackToBasic \/ BothRefused
            \/ RaiseForStatus \/ ReturnResponse

\* Every wait of the library ends: with an answer, an error or its timeout.
Library ==
  \/ Connect \/ ConnectFails \/ Challenged \/ NoAnswer \/ BodyBreaks
  \/ \E s \in {"2xx", "401", "failure"} : Answered(s)

Next == Client \/ Library \/ DeviceExecutes

Spec == Init /\ [][Next]_vars

FairSpec == Spec /\ WF_vars(Client) /\ WF_vars(Library)

-----------------------------------------------------------------------------
(* Properties. *)

FlagsOK == stream \in BOOLEAN /\ travelling \in BOOLEAN
ValuesOK ==
  /\ configured \in Timeouts /\ budget \in Budgets \cup {NoDeadline}
  /\ attempt \in Attempts /\ exchange \in 1 .. 2
  /\ stage \in {"call", "connect", "read", "reply", "done"}
  /\ granted \in Nat /\ status \in {"none", "2xx", "401", "failure"}
  /\ open \subseteq Attempts /\ clock \in Nat
  /\ outcome \in Outcomes \cup {"pending"} /\ executions \in Nat

\* Type invariant of the variables of one _request call.
TypeOK == FlagsOK /\ ValuesOK

\* The Basic attempt never repeats work: over both attempts, and even when the
\* request is carried out after the client gave up, the device executes it once
\* at the most, and not at all when the call raised HikAuthError.
AtMostOnce == executions <= 1 /\ (outcome = "auth" => executions = 0)

\* A call that raised has closed every response it obtained; one that returned
\* leaves exactly the response of its last attempt to its caller.
NothingLeftOpen ==
  stage = "done" => open = (IF outcome = "ok" THEN {attempt} ELSE {})

\* The deadline is looked at only before an attempt, so a call can outlive it,
\* but by no more than three phases of the configured timeout.
OverrunBounded == budget # NoDeadline => clock <= budget + 3 * configured

\* A caller that cuts its budget in _SNAPSHOT_TIMEOUT_PHASES phases, as
\* snapshot() does, has its answer (or exception) before the deadline.
Phases == 8
PhasesFitBudget ==
  budget # NoDeadline /\ Phases * configured <= budget => clock < budget

\* The deadline is kept as far as a caller can count on it.
DeadlineKept == OverrunBounded /\ PhasesFitBudget

\* The contract that callers rely on.
Contract == INSTANCE RequestContract
ImplementsContract == Contract!Spec

\* Every call returns or raises, whatever the device does.
Ends == <>(stage = "done")
=============================================================================
