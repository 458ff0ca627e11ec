-------------------------------- MODULE Media --------------------------------
(***************************************************************************)
(* snapshot and snapshot_rtsp (isapi/client.py), composed with the request *)
(* each begins with.  snapshot cuts its budget in phases, hands one phase  *)
(* and the deadline to _request, then reads the streamed body chunk by     *)
(* chunk.  snapshot_rtsp with stream="auto" asks for the stream inventory  *)
(* with its whole timeout and no deadline, then gives ffmpeg what is left. *)
(*                                                                         *)
(* Time is in milliseconds.  Budgets that are not a multiple of the number *)
(* of phases are only of interest where a phase would be shorter than the  *)
(* millisecond it is rounded up to.  A chunk takes up to DripReads reads   *)
(* of the socket, each limited by the timeout the request was granted.     *)
(***************************************************************************)
EXTENDS Integers, RequestOutcomes

CONSTANTS
  Budgets,      \* values of the argument timeout
  NoDeadline,
  TimeoutPhases, \* _SNAPSHOT_TIMEOUT_PHASES, which is 8
  MaxImage,     \* _MAX_SNAPSHOT_BYTES
  ChunkSizes,   \* sizes of a chunk, up to _SNAPSHOT_CHUNK_BYTES
  DripReads,
  None

PhaseTimeout(b) == IF b < TimeoutPhases THEN 1 ELSE b \div TimeoutPhases

\* A request takes up to six phases, three for each of its attempts.
ASSUME MediaAssumption ==
  /\ TimeoutPhases \in Nat /\ TimeoutPhases >= 6
  /\ MaxImage \in Nat /\ DripReads \in Nat \ {0}
  /\ ChunkSizes \subseteq Nat \ {0}
  /\ Budgets \subseteq {b \in Nat \ {0} : b < TimeoutPhases \/ b % TimeoutPhases = 0}
  /\ NoDeadline \notin Nat

VARIABLES
  \* the request
  configured, budget, stream, attempt, exchange, stage, granted, status, open,
  clock, outcome, travelling, executions,
  \* the operation
  op,        \* "snapshot", or snapshot_rtsp with "auto" or a fixed stream
  phase,     \* "request", "body", "ffmpeg" or "done"
  extra,     \* time since the request ended
  size,      \* of the image read so far
  listing,   \* the rows of the inventory for each stream of the channel
  chosen,    \* the stream ffmpeg is asked for
  result

arguments == <<configured, budget, stream>>
requestVars == <<arguments, attempt, exchange, stage, granted, status, open, clock,
                 outcome, travelling, executions>>
mediaVars == <<op, phase, extra, size, listing, chosen, result>>
vars == <<requestVars, mediaVars>>

\* Everything of the request but the responses it left open.
sealed == <<arguments, attempt, exchange, stage, granted, status, clock, outcome,
            travelling, executions>>

Request == INSTANCE IsapiRequest WITH
             Timeouts <- Budgets \cup {PhaseTimeout(b) : b \in Budgets}

Operations == {"snapshot", "auto", "fixed"}
Streams == {"sub", "main"}
Said == {"enabled", "disabled", "unsaid"}

\* The argument timeout of the operation, and the time it has taken.
Timeout == IF op = "snapshot" THEN budget ELSE configured
Elapsed == clock + extra

Init ==
  /\ Request!Init
  /\ op \in Operations
  /\ IF op = "snapshot"
       THEN budget # NoDeadline /\ configured = PhaseTimeout(budget) /\ stream
       ELSE budget = NoDeadline /\ configured \in Budgets /\ ~stream
  /\ phase = (IF op = "fixed" THEN "ffmpeg" ELSE "request")
  /\ extra = 0 /\ size = 0 /\ listing = None
  /\ chosen \in (IF op = "fixed" THEN Streams ELSE {None}) /\ result = "pending"

Finish(r) == phase' = "done" /\ result' = r

-----------------------------------------------------------------------------
(* The request. *)

RequestStep ==
  /\ phase = "request" /\ Request!Next /\ UNCHANGED mediaVars

\* Nothing recalls a request that the device still has.
LateStep ==
  /\ phase # "request" /\ Request!DeviceExecutes /\ UNCHANGED mediaVars

RequestRaised ==
  /\ phase = "request" /\ stage = "done" /\ outcome # "ok"
  /\ Finish(outcome)
  /\ UNCHANGED <<requestVars, op, extra, size, listing, chosen>>

-----------------------------------------------------------------------------
(* snapshot. *)

\* Variant of BeginBody: with no time left the call waits.
BeginBody_Waits ==
  /\ phase = "request" /\ stage = "done" /\ outcome = "ok" /\ op = "snapshot"
  /\ Elapsed < Timeout
  /\ phase' = "body"
  /\ UNCHANGED <<requestVars, op, extra, size, listing, chosen, result>>

BeginBody ==
  /\ phase = "request" /\ stage = "done" /\ outcome = "ok" /\ op = "snapshot"
  /\ IF Elapsed >= Timeout
       THEN Finish("unreachable") /\ open' = {}
       ELSE phase' = "body" /\ UNCHANGED <<result, open>>
  /\ UNCHANGED <<sealed, op, extra, size, listing, chosen>>

Wait(reads) == \E d \in 0 .. reads * granted : extra' = extra + d

\* Variants of Chunk: the size is looked at after the chunk was kept; the
\* deadline is not looked at.
Chunk_KeptFirst(n) ==
  /\ phase = "body" /\ Wait(DripReads)
  /\ size' = size + n
  /\ IF size' > MaxImage
       THEN Finish("error") /\ open' = {}
       ELSE IF clock + extra' >= Timeout
         THEN Finish("unreachable") /\ open' = {}
         ELSE UNCHANGED <<phase, result, open>>
  /\ UNCHANGED <<sealed, op, listing, chosen>>

Chunk_NoDeadline(n) ==
  /\ phase = "body" /\ Wait(DripReads)
  /\ IF size + n > MaxImage
       THEN Finish("error") /\ open' = {} /\ UNCHANGED size
       ELSE size' = size + n /\ UNCHANGED <<phase, result, open>>
  /\ UNCHANGED <<sealed, op, listing, chosen>>

\* The size is looked at before the chunk is kept, and before the deadline.
Chunk(n) ==
  /\ phase = "body" /\ Wait(DripReads)
  /\ \/ /\ size + n > MaxImage
        /\ Finish("error") /\ open' = {} /\ UNCHANGED size
     \/ /\ size + n <= MaxImage /\ size' = size + n
        /\ IF clock + extra' >= Timeout
             THEN Finish("unreachable") /\ open' = {}
             ELSE UNCHANGED <<phase, result, open>>
  /\ UNCHANGED <<sealed, op, listing, chosen>>

\* The body ends (an image, or not a JPEG), or iter_content raises, maybe after
\* some reads for a chunk that is not filled.
EndOfBody ==
  /\ phase = "body" /\ Wait(DripReads)
  /\ \E r \in {"ok", "error", "other"} :
       (r = "ok" => size > 0) /\ Finish(r)
  /\ open' = {}
  /\ UNCHANGED <<sealed, op, size, listing, chosen>>

-----------------------------------------------------------------------------
(* snapshot_rtsp. *)

\* A stream counts when any of its rows does not say that it is disabled.
Available(rows) == {s \in Streams : rows[s] \ {"disabled"} # {}}

\* Variant of Prefer: without a substream, what was asked for.
Prefer_Unresolved(streams) == IF "sub" \in streams THEN "sub" ELSE "auto"

Prefer(streams) == IF "sub" \in streams THEN "sub" ELSE "main"

StartFfmpeg ==
  IF Elapsed >= Timeout
    THEN Finish("unreachable")
    ELSE phase' = "ffmpeg" /\ UNCHANGED result

\* streaming_channel_ids parses the inventory outside any try.
Inventory ==
  /\ phase = "request" /\ stage = "done" /\ outcome = "ok" /\ op = "auto"
  /\ \/ /\ \E rows \in [Streams -> SUBSET Said] :
             /\ listing' = rows
             /\ IF Available(rows) = {}
                  THEN Finish("error") /\ UNCHANGED chosen
                  ELSE chosen' = Prefer(Available(rows)) /\ StartFfmpeg
     \/ Finish("parse") /\ UNCHANGED <<listing, chosen>>
  /\ UNCHANGED <<requestVars, op, extra, size>>

\* Variant of Ffmpeg: the whole timeout, whatever discovery took.
Ffmpeg_WholeTimeout ==
  /\ phase = "ffmpeg"
  /\ \E d \in 0 .. Timeout :
       /\ extra' = extra + d
       /\ \E r \in {"ok", "unreachable", "error"} : Finish(r)
  /\ UNCHANGED <<requestVars, op, size, listing, chosen>>

\* subprocess.run with what is left as its timeout.  It kills ffmpeg when that
\* has passed; ffmpeg may also be missing, fail, or write no image.
Ffmpeg ==
  /\ phase = "ffmpeg"
  /\ \E d \in 0 .. (Timeout - Elapsed) :
       /\ extra' = extra + d
       /\ \E r \in {"ok", "unreachable", "error"} : Finish(r)
  /\ UNCHANGED <<requestVars, op, size, listing, chosen>>

-----------------------------------------------------------------------------
Client ==
  \/ RequestRaised \/ BeginBody \/ EndOfBody \/ Inventory \/ Ffmpeg
  \/ \E n \in ChunkSizes : Chunk(n)

Next == RequestStep \/ LateStep \/ Client

Spec == Init /\ [][Next]_vars

FairRequest ==
  /\ WF_vars(RequestStep /\ Request!Client)
  /\ WF_vars(RequestStep /\ Request!Library)

FairSpec == Spec /\ FairRequest /\ WF_vars(Client)

-----------------------------------------------------------------------------
(* Properties. *)

Results == Outcomes \cup {"error", "parse"}

\* Type invariant of an operation and its request.
TypeOK ==
  /\ Request!TypeOK
  /\ op \in Operations /\ phase \in {"request", "body", "ffmpeg", "done"}
  /\ extra \in Nat /\ size \in Nat
  /\ listing \in [Streams -> SUBSET Said] \cup {None}
  /\ chosen \in Streams \cup {None} /\ result \in Results \cup {"pending"}

\* A snapshot has no more than the maximum in memory, and whichever way it ends
\* the streamed response has been closed: by _request, or by its own finally.
SnapshotCleansUp ==
  /\ size <= MaxImage
  /\ op = "snapshot" /\ phase = "done" => open = {}

\* The phases cover the whole request: a snapshot that is long enough to be cut
\* outlives its deadline by at most one chunk.  One that is not may lose three
\* of the request's phases.
SnapshotOverrun ==
  op = "snapshot" =>
    IF TimeoutPhases <= Timeout
      THEN Elapsed < Timeout + DripReads * configured
      ELSE Elapsed < Timeout + DripReads * configured + 3 * configured

\* A frame that "auto" returns comes within the timeout, discovery included, and
\* is one of a stream that the device advertised: the substream if there is one.
FrameIsBestInTime ==
  op = "auto" /\ result = "ok" =>
    /\ Elapsed <= Timeout
    /\ listing[chosen] \notin SUBSET {"disabled"}
    /\ chosen = "main" => listing["sub"] \in SUBSET {"disabled"}

\* Every call ends, even when the device sends for ever and sends at once.
Ends == <>(phase = "done")
=============================================================================
