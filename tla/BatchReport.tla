----------------------------- MODULE BatchReport -----------------------------
(***************************************************************************)
(* What batch_set_ip promises about the report it returns: the pairs are   *)
(* submitted one after the other in the order given; no pair is judged     *)
(* before the last one is submitted; only submitted pairs are judged, each *)
(* once; and a report that is returned is finished, either not judged at   *)
(* all or judged in full.  The call may also raise, and then nobody gets   *)
(* the report.                                                             *)
(***************************************************************************)
EXTENDS Integers

CONSTANT N

Pairs == 1 .. N

VARIABLES report,   \* status of every pair, "PENDING" before it has one
          phase     \* "working", "returned" or "raised"

vars == <<report, phase>>

Submissions == {"SKIP_UNREACHABLE", "FAIL_SUBMIT", "SUBMITTED"}
Verdicts == {"OK", "FAIL_VERIFY"}

With(status) == {i \in Pairs : report[i] = status}
Judged == With("OK") \cup With("FAIL_VERIFY")

Init == report = [i \in Pairs |-> "PENDING"] /\ phase = "working"

Submit(i) ==
  /\ phase = "working"
  /\ report[i] = "PENDING" /\ \A j \in 1 .. (i - 1) : report[j] # "PENDING"
  /\ \E s \in Submissions : report' = [report EXCEPT ![i] = s]
  /\ UNCHANGED phase

Judge(i) ==
  /\ phase = "working"
  /\ With("PENDING") = {} /\ report[i] = "SUBMITTED"
  /\ \E s \in Verdicts : report' = [report EXCEPT ![i] = s]
  /\ UNCHANGED phase

Return ==
  /\ phase = "working"
  /\ With("PENDING") = {} /\ (Judged = {} \/ With("SUBMITTED") = {})
  /\ phase' = "returned" /\ UNCHANGED report

Raise ==
  /\ phase = "working" /\ Judged = {}
  /\ phase' = "raised" /\ UNCHANGED report

Next == Return \/ Raise \/ \E i \in Pairs : Submit(i) \/ Judge(i)

Spec == Init /\ [][Next]_vars
=============================================================================
