--------------------------- MODULE RequestContract ---------------------------
(***************************************************************************)
(* What one call of IsapiClient._request promises to its caller: the       *)
(* device carries the request out at most once; a returned response means  *)
(* it did, HikAuthError that it did not; after HikUnreachableError it may  *)
(* have, may not have, or may still do so later.                           *)
(***************************************************************************)
EXTENDS Naturals, RequestOutcomes

VARIABLES outcome,     \* "pending", then one of Outcomes
          executions   \* how often the device carried the request out

vars == <<outcome, executions>>

Init == outcome = "pending" /\ executions = 0

Execute ==
  /\ outcome \in {"pending", "unreachable"}
  /\ executions = 0
  /\ executions' = 1
  /\ UNCHANGED outcome

End(o) ==
  /\ outcome = "pending"
  /\ Consistent(o, executions = 1)
  /\ outcome' = o
  /\ UNCHANGED executions

Next == Execute \/ \E o \in Outcomes : End(o)

Spec == Init /\ [][Next]_vars
=============================================================================
