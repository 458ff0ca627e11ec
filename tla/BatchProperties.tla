--------------------------- MODULE BatchProperties ---------------------------
(***************************************************************************)
(* What batch_set_ip keeps true, stated about BatchSetIp, and what the     *)
(* repository says of it that the code does not keep.                      *)
(***************************************************************************)
EXTENDS BatchSetIp

TimeOrNone == Int \cup {None}

Statuses == {"PENDING", "SKIP_UNREACHABLE", "FAIL_SUBMIT", "SUBMITTED", "OK",
             "FAIL_VERIFY"}
Entry == [status : Statuses, error : BOOLEAN, rule : Rules \cup {None}]

CamerasOK ==
  /\ addr \in [Devices -> Addresses] /\ conf \in [Devices -> Addresses]
  /\ up \in [Devices -> BOOLEAN]
  /\ inflight \subseteq Pairs \X Devices /\ written \subseteq Pairs \X Devices

CallerOK ==
  /\ verify \in BOOLEAN /\ workers \in WorkerCounts /\ lossy \in Losses
  /\ dhcp \in DhcpSets
  /\ pc \in {"probe", "get", "put", "reboot", "start", "collect", "returned",
             "raised"}
  /\ cur \in 1 .. N + 1
  /\ pc \in {"probe", "get", "put", "reboot"} => cur \in Pairs
  /\ report \in [Pairs -> Entry]
  /\ acked \in [Pairs -> Devices \cup {None}]

JobsOK ==
  /\ clock \in Nat /\ skew \in Skews \cup {0} /\ until \in [Pairs -> Nat]
  /\ stage \in [Pairs -> Running \cup {"none", "queued", "done", "collected"}]
  /\ closedSince \in [Pairs -> TimeOrNone]
  /\ verdict \in [Pairs -> Rules \cup {"raised", None}]
  /\ lastNew \in [Pairs -> TimeOrNone] /\ silentSince \in [Pairs -> TimeOrNone]

\* Type invariant of batch_set_ip and the cameras it works on.
TypeOK == CamerasOK /\ CallerOK /\ JobsOK

-----------------------------------------------------------------------------
(* Phase 1. *)

Acknowledged(i) == acked[i] # None /\ <<i, acked[i]>> \in written

\* A pair counts as submitted (and is verified) only when a camera stored its
\* new address and said so: a 2xx without the acknowledgement is not enough.
SubmittedWasAcknowledged ==
  \A i \in Pairs :
    report[i].status \in {"SUBMITTED", "OK", "FAIL_VERIFY"} => Acknowledged(i)

\* SKIP_UNREACHABLE without an error means the pair was never touched, and no
\* write of it is on its way; with an error nothing of the kind is promised.
SilentSkipTouchedNothing ==
  \A i \in Pairs, d \in Devices :
    report[i].status = "SKIP_UNREACHABLE" /\ ~report[i].error =>
      <<i, d>> \notin written \cup inflight

-----------------------------------------------------------------------------
(* Phase 2. *)

\* How far the system's clock was set forward, or back.
Forward == IF skew > 0 THEN skew ELSE 0
Setback == IF skew < 0 THEN 0 - skew ELSE 0

\* The window rule needs old_ip silent for the whole window: the probe that
\* fires it is the last of a row of failed ones, with no successful one between
\* them, and the first of that row began at least the window before.  Setting
\* the clock forward cuts the window by no more than the step, setting it back
\* cuts nothing.
SilentForWindow(i) ==
  silentSince[i] # None /\ clock - silentSince[i] >= Window - Forward
WindowVerdictIsSilent ==
  \A i \in Pairs :
    verdict[i] = None /\ verdict'[i] = "old_closed_window" => SilentForWindow(i)
WindowNeedsSilence == [][WindowVerdictIsSilent]_vars

\* With a worker for every submitted pair no pair fails on old news: the last
\* probe of its new address began less than one loop before the deadline,
\* which comes as much earlier as the clock was set forward.
Loop == 2 * ProbeTimeout + Poll
EnoughWorkers == workers >= N
DeadlineVerdictIsFresh ==
  EnoughWorkers /\ VerifyDeadline > Forward =>
    \A i \in Pairs : verdict[i] = "deadline" =>
      lastNew[i] # None /\ lastNew[i] + Loop >= VerifyDeadline - Forward

\* The deadline is shared: verification ends less than one loop after it, for
\* any number of pairs and workers, queued jobs included, and later only by
\* as much as the clock was set back.
VerifyEndsInTime == clock < VerifyDeadline + Setback + Loop

-----------------------------------------------------------------------------
(* The verdicts, for a plan that moves cameras to addresses nobody has.      *)

Injective(f) == \A x, y \in DOMAIN f : f[x] = f[y] => x = y

\* One camera per address and per pair, and new addresses that are free.
FreshPlan ==
  /\ Injective(Home) /\ Injective(Old) /\ Injective(New)
  /\ \A i \in Pairs : /\ \A j \in Pairs : New[i] # Old[j]
                      /\ \A d \in Devices : New[i] # Home[d]

HasStored(i) == \E d \in Devices : Home[d] = Old[i] /\ conf[d] = New[i]

\* The camera of pair i stores the new address and, unless it is in DHCP mode,
\* does not answer elsewhere.
HasMoved(i) ==
  \E d \in Devices : /\ Home[d] = Old[i] /\ conf[d] = New[i]
                     /\ up[d] /\ d \notin dhcp => addr[d] = New[i]

\* An OK pair's camera stores its new address, even when probes get lost, the
\* clock is set or a camera is in DHCP mode.
OkMeansStored ==
  FreshPlan => \A i \in Pairs : report[i].status = "OK" => HasStored(i)

\* When closed probes can be believed, it has also left its old address, and
\* this stays so whatever happens to it afterwards.
OkMeansMoved ==
  FreshPlan /\ ~lossy =>
    \A i \in Pairs : report[i].status = "OK" => HasMoved(i)

\* "pyhik batch" reports success only when every camera that acknowledged its
\* new address has moved there: none hides among the skipped ones.
ExitZeroMeansMoved ==
  FreshPlan /\ ~lossy /\ ExitZero =>
    \A i \in Pairs : acked[i] # None => HasMoved(i)

\* batch_set_ip restarts no camera but the one that stored this pair's address.
RebootHitsTheWritten ==
  FreshPlan /\ pc = "reboot" /\ pc' # "reboot" =>
    \A d \in Devices : up[d] /\ ~up'[d] =>
      Home[d] = Old[cur] /\ conf[d] = New[cur]
RebootsOnlyTheWritten == [][RebootHitsTheWritten]_vars

-----------------------------------------------------------------------------
(* The report as a whole. *)

Phase == IF pc \in {"returned", "raised"} THEN pc ELSE "working"
Promise == INSTANCE BatchReport WITH
             report <- [i \in Pairs |-> report[i].status], phase <- Phase

\* Order of submission and judgement, and completeness, of the report.
ImplementsReport == Promise!Spec

\* The call ends, whatever the cameras do.
Ends == <>(pc \in {"returned", "raised"})

-----------------------------------------------------------------------------
(* What the repository says and the code does not keep. *)

\* batch.py:9, "new_ip:80 is open (camera is back up on its new address)".
NewOpenIsTheCamera ==
  [][\A i \in Pairs : verdict[i] = None /\ verdict'[i] = "new_open" =>
       conf[acked[i]] = New[i] /\ addr[acked[i]] = New[i]]_vars

\* client.py:273, "A lost PUT response is ambiguous: callers must rediscover
\* the device": a pair whose write was carried out unseen is looked for.
LostWriteIsRediscovered ==
  pc = "returned" /\ verify =>
    \A i \in Pairs, d \in Devices :
      report[i].status = "SKIP_UNREACHABLE" /\ <<i, d>> \in written =>
        lastNew[i] # None
=============================================================================
