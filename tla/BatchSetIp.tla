------------------------------ MODULE BatchSetIp ------------------------------
(***************************************************************************)
(* batch_set_ip (isapi/batch.py): phase 1 submits a new address to every   *)
(* camera in turn (probe, read, write, reboot), phase 2 verifies the       *)
(* submitted pairs with a pool of workers that probe the new and the old   *)
(* address until one of two rules holds or a shared deadline passes.       *)
(*                                                                         *)
(* The cameras and the network are the environment.  A camera answers at   *)
(* one address while it is up, keeps a stored configuration, and takes     *)
(* that configuration when it starts, unless it is in DHCP mode: then it   *)
(* keeps its leased address, since no dhcp=False goes with the new one.    *)
(* Requests end as the contract of _request allows (RequestOutcomes): in   *)
(* particular one that timed out may have been carried out, or be carried  *)
(* out later.                                                              *)
(*                                                                         *)
(* Deadline and window are compared on the system's clock (time.time),     *)
(* which may be set once while the pool works; waits do not notice that.   *)
(***************************************************************************)
EXTENDS Integers, FiniteSets, RequestOutcomes

CONSTANTS
  Devices, Addresses,
  N,                  \* number of pairs
  Old, New,           \* old_ip and new_ip of every pair
  Home,               \* the address each camera has at first
  WorkerCounts,       \* values of the argument workers
  VerifyDeadline,     \* verify_deadline
  Window,             \* transitional_window of _verify_one
  Poll,               \* poll_interval of _verify_one
  ProbeTimeout,       \* timeout of _tcp_open
  LiveApply,          \* may a camera take a written address at once?
  DhcpSets,           \* values of dhcp
  Skews,              \* by how much the system's clock may be set
  Losses,             \* values of lossy
  None

Pairs == 1 .. N
Rules == {"new_open", "old_closed_window", "deadline"}   \* of a verdict

ASSUME BatchAssumption ==
  /\ N \in Nat /\ WorkerCounts \subseteq Int
  /\ Home \in [Devices -> Addresses]
  /\ Old \in [Pairs -> Addresses] /\ New \in [Pairs -> Addresses]
  /\ VerifyDeadline \in Nat /\ Window \in Nat
  /\ Poll \in Nat \ {0} /\ ProbeTimeout \in Nat
  /\ LiveApply \in BOOLEAN /\ Losses \subseteq BOOLEAN
  /\ DhcpSets \subseteq SUBSET Devices /\ Skews \subseteq Int \ {0}
  /\ None \notin Int /\ None \notin Devices /\ None \notin Rules

VARIABLES
  \* the cameras
  addr, conf, up,     \* address in use, address stored, is it answering
  dhcp,               \* cameras in DHCP mode
  inflight,           \* <<pair, camera>>: writes that may yet be carried out
  \* the caller
  verify, workers,    \* arguments
  lossy,              \* may a probe of an answering camera fail?
  pc, cur,            \* where phase 1 or the return path is, at which pair
  report,             \* per pair: status, error, rule
  \* the pool: one _verify_one job per submitted pair
  clock,              \* time since the deadline was set
  skew,               \* by how much the system's clock was set since then
  stage, until,       \* per pair: what the job does, until when
  closedSince,        \* old_closed_since
  verdict,            \* rule returned by a finished job
  \* history, read by properties only
  written,            \* <<pair, camera>>: writes carried out
  acked,              \* per pair: the camera whose write was acknowledged
  lastNew,            \* when new_ip was last tried
  silentSince         \* when the first failed probe of old_ip began, of those
                      \* since the last successful one

cameras == <<addr, conf, up, inflight>>
time == <<clock, skew>>
settings == <<verify, workers, lossy, dhcp>>
caller == <<settings, pc, cur, report>>
history == <<written, acked>>
jobs == <<stage, until, closedSince, verdict, lastNew, silentSince>>
vars == <<cameras, caller, time, jobs, history>>

Running == {"top", "found", "old", "open", "closed"}   \* stages with a worker

Init ==
  /\ addr = Home /\ conf = Home /\ up \in [Devices -> BOOLEAN]
  /\ inflight = {} /\ written = {}
  /\ verify \in BOOLEAN /\ workers \in WorkerCounts /\ lossy \in Losses
  /\ dhcp \in DhcpSets
  /\ pc = (IF N = 0 THEN "start" ELSE "probe") /\ cur = 1
  /\ report = [i \in Pairs |->
                 [status |-> "PENDING", error |-> FALSE, rule |-> None]]
  /\ clock = 0 /\ skew = 0
  /\ stage = [i \in Pairs |-> "none"] /\ until = [i \in Pairs |-> 0]
  /\ closedSince = [i \in Pairs |-> None]
  /\ verdict = [i \in Pairs |-> None] /\ acked = [i \in Pairs |-> None]
  /\ lastNew = [i \in Pairs |-> None] /\ silentSince = [i \in Pairs |-> None]

-----------------------------------------------------------------------------
(* The cameras, as far as phase 1 and phase 2 can see them. *)

Answering(a) == {d \in Devices : up[d] /\ addr[d] = a}

\* _tcp_open(a): connect succeeds only where something listens; it may fail
\* anyway when the network loses packets.
ProbeOpen(a) == Answering(a) # {}
ProbeClosed(a) == lossy \/ Answering(a) = {}

\* Camera d stores the address of pair i, and may use it at once.
Write(i, d) ==
  /\ conf' = [conf EXCEPT ![d] = New[i]]
  /\ \/ UNCHANGED addr
     \/ LiveApply /\ d \notin dhcp /\ addr' = [addr EXCEPT ![d] = New[i]]
  /\ written' = written \cup {<<i, d>>}

\* A camera goes down: its unfinished requests are gone.
GoDown(d) ==
  /\ up' = [up EXCEPT ![d] = FALSE]
  /\ inflight' = {w \in inflight : w[2] # d}

\* Power loss, or a reboot command that was carried out late.
Restarts(d) ==
  /\ up[d] /\ GoDown(d)
  /\ UNCHANGED <<addr, conf, caller, time, jobs, history>>

BootsUp(d) ==
  /\ ~up[d] /\ up' = [up EXCEPT ![d] = TRUE]
  /\ addr' = (IF d \in dhcp THEN addr ELSE [addr EXCEPT ![d] = conf[d]])
  /\ UNCHANGED <<conf, inflight, caller, time, jobs, history>>

\* A write whose response the client no longer waits for is carried out.
LateWrite(i, d) ==
  /\ <<i, d>> \in inflight /\ inflight' = inflight \ {<<i, d>>}
  /\ Write(i, d)
  /\ UNCHANGED <<up, caller, time, jobs, acked>>

\* Somebody (or NTP) sets the system's clock while the pool works, once.
SetClock ==
  /\ pc = "collect" /\ skew = 0 /\ skew' \in Skews
  /\ UNCHANGED <<clock, cameras, caller, jobs, history>>

Environment ==
  \/ SetClock
  \/ \E d \in Devices : Restarts(d) \/ BootsUp(d)
  \/ \E i \in Pairs, d \in Devices : LateWrite(i, d)

-----------------------------------------------------------------------------
(* Phase 1. *)

\* Variant of Report: the last pair is taken for one more to come.
Report_OneTooMany(status, error) ==
  /\ report' = [report EXCEPT
                  ![cur] = [status |-> status, error |-> error, rule |-> None]]
  /\ pc' = (IF cur > N THEN "start" ELSE "probe")
  /\ cur' = cur + 1

\* results.append(entry), then the next pair.
Report(status, error) ==
  /\ report' = [report EXCEPT
                  ![cur] = [status |-> status, error |-> error, rule |-> None]]
  /\ pc' = (IF cur = N THEN "start" ELSE "probe")
  /\ cur' = cur + 1

ProbeSubmit ==
  /\ pc = "probe"
  /\ \/ ProbeOpen(Old[cur]) /\ pc' = "get" /\ UNCHANGED <<cur, report>>
     \/ ProbeClosed(Old[cur]) /\ Report("SKIP_UNREACHABLE", FALSE)
     \* A missing key or socket.socket() raises outside the try.
     \/ pc' = "raised" /\ UNCHANGED <<cur, report>>
  /\ UNCHANGED <<cameras, settings, time, jobs, history>>

\* set_network_config validates its arguments, reads and patches the document.
GetConfig ==
  /\ pc = "get"
  /\ \/ ProbeOpen(Old[cur]) /\ pc' = "put" /\ UNCHANGED <<cur, report>>
     \/ Report("SKIP_UNREACHABLE", TRUE)
     \/ Report("FAIL_SUBMIT", TRUE)
  /\ UNCHANGED <<cameras, settings, time, jobs, history>>

\* Variant of Raised: the acknowledgement in a 2xx response is not looked at.
Raised_Unacknowledged(o) ==
  CASE o = "unreachable" -> "SKIP_UNREACHABLE"
    [] o = "ok" -> "SUBMITTED"
    [] OTHER -> "FAIL_SUBMIT"

\* The status of an entry whose submission raised.
Raised(o) == IF o = "unreachable" THEN "SKIP_UNREACHABLE" ELSE "FAIL_SUBMIT"

\* Without a camera at the address a request only ends in no answer.
Answerable(o) == o = "unreachable" \/ ProbeOpen(Old[cur])

\* 2xx with a ResponseStatus of statusCode 1.
PutAcknowledged ==
  /\ pc = "put"
  /\ \E d \in Answering(Old[cur]) :
       Write(cur, d) /\ acked' = [acked EXCEPT ![cur] = d]
  /\ pc' = "reboot"
  /\ UNCHANGED <<up, inflight, settings, cur, report, time, jobs>>

\* Variants of PutFails: a lost PUT response is tolerated like a lost reboot;
\* the error of an unreachable camera is not recorded.
PutFails_Tolerated(o) ==
  /\ pc = "put" /\ o = "unreachable"
  /\ pc' = "reboot"
  /\ UNCHANGED <<cameras, settings, cur, report, time, jobs, history>>

PutFails_NoError(o) ==
  /\ pc = "put" /\ Answerable(o)
  /\ Report(Raised(o), FALSE)
  /\ \E d \in Answering(Old[cur]) :
       /\ o = "unreachable" /\ inflight' = inflight \cup {<<cur, d>>}
       /\ UNCHANGED <<addr, conf, written>>
  /\ UNCHANGED <<up, settings, time, jobs, acked>>

\* Everything else raises: no answer, an error, or a 2xx without the
\* acknowledgement.  The camera may have stored the address, or may yet do so.
PutFails(o) ==
  /\ pc = "put" /\ Answerable(o)
  /\ Report(Raised(o), TRUE)
  /\ \/ UNCHANGED <<addr, conf, inflight, written>>
     \/ \E d \in Answering(Old[cur]) :
          \/ Consistent(o, TRUE) /\ Write(cur, d) /\ UNCHANGED inflight
          \/ /\ o = "unreachable" /\ inflight' = inflight \cup {<<cur, d>>}
             /\ UNCHANGED <<addr, conf, written>>
  /\ UNCHANGED <<up, settings, time, jobs, acked>>

\* reboot() tolerates HikUnreachableError, whatever became of the command.
RebootStatus(o) ==
  IF o \in {"ok", "unreachable"} THEN "SUBMITTED" ELSE "FAIL_SUBMIT"

Reboot(o) ==
  /\ pc = "reboot" /\ Answerable(o)
  /\ Report(RebootStatus(o), RebootStatus(o) # "SUBMITTED")
  /\ \/ Consistent(o, TRUE) /\ \E d \in Answering(Old[cur]) : GoDown(d)
     \/ Consistent(o, FALSE) /\ UNCHANGED <<up, inflight>>
  /\ UNCHANGED <<addr, conf, settings, time, jobs, history>>

-----------------------------------------------------------------------------
(* Between the phases. *)

With(status) == {i \in Pairs : report[i].status = status}

ReturnUnverified ==
  /\ pc = "start" /\ (~verify \/ With("SUBMITTED") = {})
  /\ pc' = "returned"
  /\ UNCHANGED <<cameras, settings, cur, report, time, jobs, history>>

\* ThreadPoolExecutor(max_workers=min(workers, len(submitted))), which refuses
\* a size below 1; then one job per submitted pair, in order.
StartPool ==
  /\ pc = "start" /\ verify /\ With("SUBMITTED") # {}
  /\ IF workers <= 0
       THEN pc' = "raised" /\ UNCHANGED stage
       ELSE /\ pc' = "collect"
            /\ stage' = [i \in Pairs |->
                           IF i \in With("SUBMITTED") THEN "queued" ELSE "none"]
  /\ UNCHANGED <<cameras, settings, cur, report, time, until, closedSince,
                 verdict, lastNew, silentSince, history>>

-----------------------------------------------------------------------------
(* Phase 2: _verify_one for pair i.  A stage that waits ends at until[i].    *)
(* "top": about to evaluate the loop condition; "found": the probe of new_ip *)
(* is about to succeed; "old": it is about to fail; "open", "closed": the    *)
(* probe of old_ip is about to.                                              *)

Busy == {i \in Pairs : stage[i] \in Running}

MayStart(i) ==
  /\ stage[i] = "queued" /\ Cardinality(Busy) < workers
  /\ \A j \in 1 .. (i - 1) : stage[j] # "queued"

Dequeue(i) ==
  /\ MayStart(i)
  /\ stage' = [stage EXCEPT ![i] = "top"]
  /\ until' = [until EXCEPT ![i] = clock]
  /\ UNCHANGED <<cameras, caller, time, closedSince, verdict, lastNew,
                 silentSince, history>>

Due(i, s) == stage[i] = s /\ until[i] <= clock

Now == clock + skew      \* time.time(), from when the deadline was set

\* The future of job i is completed.
Finish(i, rule) ==
  /\ stage' = [stage EXCEPT ![i] = "done"]
  /\ verdict' = [verdict EXCEPT ![i] = rule]

DeadlinePassed(i) ==
  /\ Due(i, "top") /\ Now >= VerifyDeadline
  /\ Finish(i, "deadline")
  /\ UNCHANGED <<cameras, caller, time, until, closedSince, lastNew,
                 silentSince, history>>

\* A probe takes up to its timeout; what it finds is what is there at its start.
BeginProbe(i, result) ==
  /\ stage' = [stage EXCEPT ![i] = result]
  /\ \E t \in 0 .. ProbeTimeout : until' = [until EXCEPT ![i] = clock + t]

\* Variant of ProbeNew: the loop condition lets the deadline itself pass.
ProbeNew_AtDeadline(i) ==
  /\ Due(i, "top") /\ Now <= VerifyDeadline
  /\ \/ ProbeOpen(New[i]) /\ BeginProbe(i, "found")
     \/ ProbeClosed(New[i]) /\ BeginProbe(i, "old")
  /\ lastNew' = [lastNew EXCEPT ![i] = clock]
  /\ UNCHANGED <<cameras, caller, time, closedSince, verdict, silentSince,
                 history>>

ProbeNew(i) ==
  /\ Due(i, "top") /\ Now < VerifyDeadline
  /\ \/ ProbeOpen(New[i]) /\ BeginProbe(i, "found")
     \/ ProbeClosed(New[i]) /\ BeginProbe(i, "old")
  /\ lastNew' = [lastNew EXCEPT ![i] = clock]
  /\ UNCHANGED <<cameras, caller, time, closedSince, verdict, silentSince,
                 history>>

NewOpen(i) ==
  /\ Due(i, "found") /\ Finish(i, "new_open")
  /\ UNCHANGED <<cameras, caller, time, until, closedSince, lastNew,
                 silentSince, history>>

\* History: a probe of old_ip finds it open, or does not.
Seen(i, isOpen) ==
  silentSince' = [silentSince EXCEPT
    ![i] = IF isOpen THEN None ELSE IF @ = None THEN clock ELSE @]

\* Variant of ProbeOld: it probes the new address again.
ProbeOld_Swapped(i) ==
  /\ Due(i, "old")
  /\ \/ ProbeOpen(New[i]) /\ BeginProbe(i, "open") /\ Seen(i, TRUE)
     \/ ProbeClosed(New[i]) /\ BeginProbe(i, "closed") /\ Seen(i, FALSE)
  /\ UNCHANGED <<cameras, caller, time, closedSince, verdict, lastNew, history>>

ProbeOld(i) ==
  /\ Due(i, "old")
  /\ \/ ProbeOpen(Old[i]) /\ BeginProbe(i, "open") /\ Seen(i, TRUE)
     \/ ProbeClosed(Old[i]) /\ BeginProbe(i, "closed") /\ Seen(i, FALSE)
  /\ UNCHANGED <<cameras, caller, time, closedSince, verdict, lastNew,
                 history>>

\* Variant of Sleep: it sleeps for the window instead of the poll interval.
Sleep_Window(i) ==
  /\ stage' = [stage EXCEPT ![i] = "top"]
  /\ until' = [until EXCEPT ![i] = clock + Window]

Sleep(i) ==
  /\ stage' = [stage EXCEPT ![i] = "top"]
  /\ until' = [until EXCEPT ![i] = clock + Poll]

\* Variant of OldOpen: a successful probe does not restart the window.
OldOpen_KeepsWindow(i) ==
  /\ Due(i, "open")
  /\ Sleep(i)
  /\ UNCHANGED <<cameras, caller, time, closedSince, verdict, lastNew,
                 silentSince, history>>

OldOpen(i) ==
  /\ Due(i, "open")
  /\ closedSince' = [closedSince EXCEPT ![i] = None]
  /\ Sleep(i)
  /\ UNCHANGED <<cameras, caller, time, verdict, lastNew, silentSince, history>>

\* Variant of OldClosed: the window starts with the pool.
OldClosed_SincePool(i) ==
  LET since == IF closedSince[i] = None THEN 0 ELSE closedSince[i]
  IN /\ Due(i, "closed")
     /\ closedSince' = [closedSince EXCEPT ![i] = since]
     /\ IF Now - since >= Window
          THEN Finish(i, "old_closed_window") /\ UNCHANGED until
          ELSE Sleep(i) /\ UNCHANGED verdict
     /\ UNCHANGED <<cameras, caller, time, lastNew, silentSince, history>>

OldClosed(i) ==
  LET since == IF closedSince[i] = None THEN Now ELSE closedSince[i]
  IN /\ Due(i, "closed")
     /\ closedSince' = [closedSince EXCEPT ![i] = since]
     /\ IF Now - since >= Window
          THEN Finish(i, "old_closed_window") /\ UNCHANGED until
          ELSE Sleep(i) /\ UNCHANGED verdict
     /\ UNCHANGED <<cameras, caller, time, lastNew, silentSince, history>>

\* socket.socket() fails inside the job (no file descriptor left).
JobRaises(i) ==
  /\ (Due(i, "top") /\ Now < VerifyDeadline) \/ Due(i, "old")
  /\ Finish(i, "raised")
  /\ UNCHANGED <<cameras, caller, time, until, closedSince, lastNew,
                 silentSince, history>>

Job(i) ==
  \/ Dequeue(i) \/ DeadlinePassed(i) \/ ProbeNew(i) \/ NewOpen(i)
  \/ ProbeOld(i) \/ OldOpen(i) \/ OldClosed(i) \/ JobRaises(i)

\* as_completed hands over finished jobs in any order.
Collect(i) ==
  /\ pc = "collect" /\ stage[i] = "done"
  /\ stage' = [stage EXCEPT ![i] = "collected"]
  /\ report' = [report EXCEPT ![i] =
       [status |-> IF verdict[i] \in {"new_open", "old_closed_window"}
                     THEN "OK" ELSE "FAIL_VERIFY",
        error |-> verdict[i] = "raised",
        rule |-> IF verdict[i] = "raised" THEN None ELSE verdict[i]]]
  /\ UNCHANGED <<cameras, settings, pc, cur, time, until, closedSince,
                 verdict, lastNew, silentSince, history>>

\* Variants of ReturnVerified: it returns at the first result; it waits for a
\* result of every pair, submitted or not.
ReturnVerified_First ==
  /\ pc = "collect" /\ \E i \in Pairs : stage[i] = "collected"
  /\ pc' = "returned"
  /\ UNCHANGED <<cameras, settings, cur, report, time, jobs, history>>

ReturnVerified_AllPairs ==
  /\ pc = "collect" /\ \A i \in Pairs : stage[i] = "collected"
  /\ pc' = "returned"
  /\ UNCHANGED <<cameras, settings, cur, report, time, jobs, history>>

ReturnVerified ==
  /\ pc = "collect" /\ \A i \in Pairs : stage[i] \in {"none", "collected"}
  /\ pc' = "returned"
  /\ UNCHANGED <<cameras, settings, cur, report, time, jobs, history>>

\* Variant of ExitZero: a pair that was submitted counts as well.
ExitZero_Submitted ==
  /\ pc = "returned"
  /\ \A i \in Pairs : report[i].status \in {"OK", "SUBMITTED", "SKIP_UNREACHABLE"}

\* cmd_batch: when "pyhik batch" reports success to its shell.
ExitZero ==
  pc = "returned" /\ \A i \in Pairs : report[i].status \in {"OK", "SKIP_UNREACHABLE"}

\* Time passes only while every worker waits, so what a job does at an instant
\* takes none.
Tick ==
  /\ Busy # {} /\ \A i \in Busy : until[i] > clock
  /\ \A i \in Pairs : ~MayStart(i)
  /\ clock' = clock + 1
  /\ UNCHANGED <<skew, cameras, caller, jobs, history>>

-----------------------------------------------------------------------------
Caller ==
  \/ ProbeSubmit \/ GetConfig \/ PutAcknowledged
  \/ \E o \in Outcomes : PutFails(o) \/ Reboot(o)
  \/ ReturnUnverified \/ StartPool \/ ReturnVerified
  \/ \E i \in Pairs : Collect(i)

Next == Caller \/ (\E i \in Pairs : Job(i)) \/ Tick \/ Environment

Spec == Init /\ [][Next]_vars

\* The caller and the workers run and time passes; the cameras owe nothing.
Fairness ==
  WF_vars(Caller) /\ WF_vars(Tick) /\ \A i \in Pairs : WF_vars(Job(i))

FairSpec == Spec /\ Fairness
=============================================================================
