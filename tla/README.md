# Verification of pyhikvision

TLA+ models, TLC runs and TLAPS proofs for `src/pyhikvision`, a client library
for Hikvision cameras and recorders. Paths below are relative to the package,
so `isapi/batch.py:51` is line 51 of `src/src/pyhikvision/isapi/batch.py`;
`README.md` and `CHANGELOG.md` with a line number are the library's, in `src/`.

1. [The system](#1-the-system)
2. [The modules and the code](#2-the-modules-and-the-code)
3. [What is assumed about the world](#3-what-is-assumed-about-the-world)
4. [The runs](#4-the-runs)
5. [What the repository says and the code does not do](#5-what-the-repository-says-and-the-code-does-not-do)
6. [What is proved](#6-what-is-proved)
7. [What is not modelled](#7-what-is-not-modelled)
8. [Plan](#8-plan)

Reading order: `RequestOutcomes`, `RequestContract`, `IsapiRequest`, then any
component. To repeat a result: `tlc -config MCLine.cfg MCLine.tla`,
`tlapm LineDetection_proofs.tla`.

## 1. The system

| Part | Code | State it keeps | Operations | Correct when |
|---|---|---|---|---|
| request layer | `isapi/client.py` 130-238 | session, two authenticators, configured timeout | one call: Digest attempt, Basic attempt on a 401, an optional deadline | the fallback never repeats work; no response is leaked; the deadline is exceeded by a bounded amount; each exception means what callers take it to mean |
| network configuration | `isapi/client.py` 241-328, 1010-1061 | none (the device's document) | read; read, patch, write, look at the acknowledgement | a call that returns did what it was given and nothing else; what is written is what is read |
| line detection | `isapi/client.py` 331-460, 1067-1199 | none (the device's document) | read; read, patch, write, read back | a verified update is exact; an enabled line has two points |
| channels | `isapi/client.py` 463-561, 759-849 | none | up to three requests merged into one list | the list is the device's inventory; a broken device gives no list; status is never made up |
| media | `isapi/client.py` 565-757 | none | stream inventory, JPEG download, RTSP frame through ffmpeg | time and memory are limited, the response is closed on every path, the stream is an advertised one |
| accounts | `isapi/client.py` 74-88, 860-997 | the credentials of the client | list accounts, capabilities, change a password | the account that was asked for is the one that changes; refusals can be trusted; rotated credentials are dead |
| reboot | `isapi/client.py` 852-857 | none | one request whose lost answer is tolerated | only the camera that was meant goes down |
| batch | `isapi/batch.py` | the report, a pool of jobs | submit every pair, verify the submitted ones | OK means moved; the report is complete, in order and judged once; verification ends in time |
| facade | `client.py` | the implementation it holds | forwards every call | |
| command line | `cli.py` | none | `info`, `set-ip`, `batch` | exit code 0 of `batch` means what a script takes it for |
| NetSDK backend | `netsdk/__init__.py` | none | raises `NotImplementedError` | |

Every operation reaches a device through `_request`. The batch calls
`set_network_config` and `reboot` of a client per camera, in the caller's
thread, then probes TCP ports from a thread pool. There are no callbacks, no
persistent state and no locks in the library; threads appear in one place, the
verification pool. What is shared is the device: it has a web interface, other
clients work on it, it may restart, lose an answer, and carry a request out
after the client has stopped waiting for it.

Hard to test is therefore:

* lost and late answers to writes, and which exceptions leave the fate of a
  write open (accounts, network configuration, batch);
* read, modify, write sequences of several clients on one document;
* the interleaving of verification jobs, restarting cameras, queueing for a
  worker and a deadline they all share;
* budgets that are cut over several waits, each of which may be used up;
* the failure of one step of several, in particular of a step that looks into
  an earlier failure, or of one of two requests whose results are merged;
* values that were true when they were read: an account's id, a channel list, a
  document, and the time of a clock the system may set.

`PROJECT.json` lists these hazards line by line with the properties that guard
against each.

## 2. The modules and the code

In every module the actions carry the names of the steps of the code, or say in
a comment which they are; `PROJECT.json` ("map") names the lines of each
definition. An operator named `X_Something` directly before `X` is a *variant*
of `X`: a plausible bug, used by nothing in the specification. Putting a variant
in the place of its original must make TLC find the property violated that
`PROJECT.json` pairs it with ("mutants"); this shows that the property depends
on that code.

### The request: `RequestOutcomes`, `RequestContract`, `IsapiRequest`

`RequestOutcomes` names the five endings of `_request` (a 2xx, `HikHTTPError`,
`HikAuthError`, `HikUnreachableError`, an exception of the HTTP library that is
not translated) and which of them agree with the request having been carried
out. `RequestContract` is the abstract specification: a request is executed at
most once, and after `HikUnreachableError` that may still happen.

`IsapiRequest` is the code. `stage` walks through an exchange ("call",
"connect", "read", "reply", "done"); the client's actions are the deadline check
(`DeadlineExpired`), `Call` with `RequestTimeout` for `request_timeout()`,
`FallBackToBasic`, `BothRefused`, `RaiseForStatus` and `ReturnResponse`. The
library and the network are the other half: connecting and reading take any time
up to the granted timeout and end in an answer, a failure or no answer, and
`HTTPDigestAuth` turns one attempt into two exchanges. `open` is the set of
responses not closed, `travelling` and `executions` are the fate of the request
in the device. That it implements the contract is `ImplementsContract`, an
instance of `RequestContract` with `outcome` and `executions` taken as they are.

All other modules use a request through its endings (`Outcomes`, `Consistent`),
as the contract allows; `Media`, where the time of each phase matters, is
composed with the whole of `IsapiRequest`.

### The batch: `BatchSetIp`, `BatchReport`, `BatchProperties`, `MCBatch`

`BatchSetIp` is `batch_set_ip` with `_verify_one`, `_tcp_open` and the calls it
makes of `set_network_config` and `reboot`, against a set of cameras. `pc` and
`cur` are the serial loop over the pairs (`ProbeSubmit`, `GetConfig`,
`PutAcknowledged`, `PutFails`, `Reboot`, and `Report` for the entry appended to
the results); `StartPool` is the executor with its refusal of fewer than one
worker; `stage[i]` is the job of pair i between its waits (`Dequeue`,
`DeadlinePassed`, `ProbeNew`, `NewOpen`, `ProbeOld`, `OldOpen`, `OldClosed`);
`Collect` is `as_completed`. `JobRaises` and the third disjunct of `ProbeSubmit`
are the socket that cannot be created outside the `try`. `ExitZero` is
`cmd_batch`'s exit code.

A camera has an address it answers at (`addr`), one it has stored (`conf`) and
is up or not; it takes the stored one when it boots, and with `LiveApply` possibly
at once. A camera in DHCP mode (`dhcp`) stores and acknowledges too, but keeps its
lease: the batch passes an address without `dhcp=False`. Writes may be carried out
late (`inflight`). `lossy` says whether the network of this execution may lose a
probe. `written`, `acked`, `lastNew` and `silentSince` (`Seen`) are history
variables: no action reads them.

Time is one clock that starts with the pool; phase 1 never looks at one. A
waiting job has an instant (`until`) at which it goes on; `Tick` advances the
clock only while every worker waits, so what a job does between two waits takes
no time. Probes take from 0 to `ProbeTimeout` and find what is there at their
start. The code reads the system's clock: `Now` is `time.time()`, `clock` plus what
it has been set by (`skew`) since the deadline was computed, and `SetClock` sets it.
Sleeps and probes last by `clock`; the deadline and `closedSince` are compared with
`Now`.

`BatchReport` is the abstract specification of what is returned: pairs are
submitted in order, none is judged before the last is submitted, only submitted
ones are, once, and a returned report is finished. `BatchProperties` states what
is checked and proved; `MCBatch` gives two plans, one to free addresses and a
chain in which one camera goes where the other still is.

### The configuration documents: `DocumentEditing`, `NetworkConfig`, `LineDetection`

Both have a device document, several clients that read it, check and patch what
they have read (`seen`) and write it back whole, the web interface (`WebEdit`),
and writes that are carried out late (`LateWrite`). What they have in common is the
abstract specification `DocumentEditing`: a call reads the document it will write
once, holds at most one write, and that write is its own edit of what it read; others may write in
between. `ImplementsEditing` maps each onto it (`hold` is `Writers`, the
clients whose write is still to come or late), so a retry, a second look at the document before
the write, or an edit of anything else would show. They differ in what the code
differs in.

In `NetworkConfig` the code has no check of the combination, adds elements that
may be missing (`Sent`, `Incomplete`), and takes a 2xx for a success only with
the acknowledgement of the device (`PutEnding`); a second call of the same client
reads the settings (`Get`, `Shown`), as the README of the library advises. A
value is a member of a small set, some of which `ipaddress` refuses; an element, and
the mode, may be absent, have no text or have one, which the code tells apart in
different places (`SetText`, `SetMode` when writing, `ShowText` when reading). "rest"
is everything the code does not know, including the namespace, which is put back.

In `LineDetection` arguments are completed from the document and the combination
is checked (`DesiredRule`, `Acceptable`), a request that changes nothing is not
sent (`NoChange`), any 2xx is a success, and the document is read again and
compared (`ShowsDesired`). A point is its x coordinate; the enabled flag of a
single rule, which single-scene firmware ignores, is left out.

`touched[c]` is history in both: has anybody else written since c read?

### `Accounts`

The device has room for accounts under `Ids`, each with a name and a password.
Clients with fixed credentials (`Login`; `Accepted` compares the device's
password with the one at creation, since `self.password` is never updated) list
the accounts, pick one (`SelectUser`, `PickUser`), write a password under its id
(`Put`) and look into a refusal (`Capabilities`). The caller may ask for a name, an id or
both (the id goes first, `Matching`), for nothing in particular (`NoSelector`), or for
an id that an earlier `get_users` has shown (`GetUsers`). The device authenticates a request when it carries it out, so a late
write needs a password that is still valid (`LateApply`); it reaches whatever account
has the id by then, and may give it back the name from the list, which the document
repeats (`Apply`). Meanwhile the web interface sets passwords and deletes and adds
accounts (`Web`). `wanted` is the name that goes into the document; `applied`, `sole`
and `fresh` are history: whose write was carried out, who was shown one account only,
and who has listed the accounts as they still are.

### `Channels`

The three documents are whatever the device answers at the time of each request
and need not agree. `ParseChannelList`, `OnlineById`, `ApplyStatus` and `Unique`
are the pure parts (rows without an integer id, stable sorting, the last status
row wins, removal of repeated identities), `LoaderFails` and `Merge` the error
handling of `channels()`. A sorted list is given by what puts each element in its
place, the number of those before it (`InOrder`; `At` picks the channels at some
positions), so no definition is recursive and all of them can be reasoned about.
`ListIsInventory` and `StatusIsReported` state what these compute by sets of
identities: TLC compares the two over bounded documents, the proofs over all.

### `Media`

`Request == INSTANCE IsapiRequest`: the request's variables and actions are part
of the module's. `snapshot` gives the request one phase
(`_SNAPSHOT_TIMEOUT_PHASES`) and the deadline, then reads chunks (`Chunk`,
`EndOfBody`), and its `finally` closes the response (`open' = {}`).
`snapshot_rtsp` lists the streams (`Inventory`), prefers the substream, and gives
ffmpeg what is left (`Ffmpeg`). The inventory may have several rows for a stream that
contradict each other (`listing` is the set of what they say of each). Time is in milliseconds; a chunk may take several
socket reads, each within its timeout.

## 3. What is assumed about the world

These are assumptions about code that is not in the repository (requests,
urllib3, the thread pool, the device); the definitions are marked external.

* Connecting and waiting for headers each take at most the timeout given to
  requests. Reading a body without `stream=True` is part of the second phase, and
  so is the body of a challenge, which `HTTPDigestAuth` reads always; the models let a
  connection break there, and `Media` models the repeated reads of a streamed body
  itself. Redirects are not modelled.
* A device that answers 401 has not carried the request out; one that answers
  2xx to a plain request has received it. An acknowledgement (`statusCode` 1)
  means that the document was stored; without it nothing is known.
* A request without an answer may have been carried out, may be later, or never.
  In the batch a late write is gone when the camera goes down.
* `iter_content` yields no empty chunks.
* A camera of the batch in static mode uses a stored address at its next start, if
  not before; one in DHCP mode keeps the address it has.
* The system's clock may be set once during a verification, back or forward by a
  step from `Skews`; otherwise it runs. The request layer and the snapshots use
  `time.monotonic()`, which is never set.
* The web interface gives every account it adds a password of `WebPasswords`, and
  no two accounts one name. It does not rename an account that keeps its password.

Fairness is assumed of this side only. The caller, the pool's workers and time
go on (`BatchSetIp!Fairness`); each step of a call is taken when it can be
(`LineDetection!FairSpec`); every wait of the HTTP library ends by an answer, an
error or its timeout (`IsapiRequest!FairSpec`, `Media!FairRequest`): that is what
the code's timeouts are for, since no request is made without one. It is weak
fairness throughout. Devices owe nothing: no restart, boot or late write is ever
required to happen. `Channels`, `Accounts` and `NetworkConfig` are runs of a
bounded number of steps per call and have no liveness property.

## 4. The runs

| Run | Configuration | Checks | Outcome |
|---|---|---|---|
| request | `IsapiRequest.cfg` | types, `NothingLeftOpen`, `DeadlineKept`, `ImplementsContract`, `Ends` | pass |
| batch_verdicts | `MCBatchVerdicts.cfg` | types, `SilentSkipTouchedNothing`, `OkMeansStored`, `DeadlineVerdictIsFresh`, `VerifyEndsInTime`, `WindowNeedsSilence` | pass |
| batch_report | `MCBatchReport.cfg` | `OkMeansMoved`, `ExitZeroMeansMoved`, `RebootsOnlyTheWritten`, `ImplementsReport`, `Ends` | pass |
| batch_chain | `MCBatchChain.cfg` | `NewOpenIsTheCamera` | violated |
| batch_lost_put | `MCBatchLostPut.cfg` | `LostWriteIsRediscovered` | violated |
| line | `MCLine.cfg` | types, `RacedRuleStaysProper`, `VerifiedIsExact`, `ImplementsEditing`, `CallsEnd` | pass |
| line_switch | `MCLineSwitch.cfg` | `EnabledLinesHaveTwoPoints` | violated |
| network | `MCNetwork.cfg` | types, `WrittenIsExact`, `ReadShowsWrite`, `TrioFromOne`, `ImplementsEditing` | pass |
| channels | `MCChannels.cfg` | `ListIsInventory`, `BrokenIsNotEmpty`, `OneFamilyIsEnough`, `StatusIsReported` | pass |
| channels_raises | `MCChannelsRaises.cfg` | `RaisesOnlyWhenBothFail` | violated |
| accounts | `MCAccounts.cfg` | types, `RotatedOutStaysOut`, `RightAccount`, `RefusedLeavesPassword`, `RefusalIsReported` | pass |
| media | `Media.cfg` | types, `SnapshotCleansUp`, `SnapshotOverrun`, `FrameIsBestInTime`, `Ends` | pass |

The comment before each property says what it means and which behaviour it is
about. The bounds, and why they are enough:

* **request**: timeouts 1 and 2, budgets 0 (already expired), 1 (less than a
  timeout), 3 (expires in the middle), 8 and 16 (exactly eight phases), or none;
  both kinds of body. Attempts and exchanges are bounded by the code. Five thousand
  states contain every order of phases and every way each of them ends.
* **batch_verdicts**: one camera and its pair, a worker or none, deadline 7, window
  3, poll 1, probes of 0 to 2: a window opens, is interrupted, opens again and closes
  before the deadline, and a probe may straddle either. Networks with and without
  loss; static and DHCP mode; addresses that take effect at once or at the next
  start; any number of restarts; a clock that is set by 1 in either direction at any
  time. What these properties say of a pair involves no other pair except through
  the shared deadline, for which the theorems and the next run have several. 129
  thousand states.
* **batch_report**: two cameras and two pairs with free addresses, 0, 1 or 2 workers
  (refused, one queued, all at once), under fairness; one camera is in DHCP mode, the
  clock may be set back by 1, with and without loss. Deadline 3, window 2 and
  instantaneous probes keep the liveness check small; a queued job may start after
  the deadline, and every order of jobs and results occurs. 525 thousand states.
* **batch_chain** and **batch_lost_put** are the smallest plans that show the point.
* **line**: two clients, two rules (one drawn, one whose points are equal), four
  documents, eleven requests: three valid ones for the first rule, four for the
  second (enable, collapse and disable, move and enable, change the direction),
  and four that are refused in different places.
* **network**: two clients (symmetric), four documents (static, DHCP, one that lacks
  all optional elements and the mode, and one whose mode and gateway have no text
  and whose mask is absent), seven requests with all three of address, mask and
  gateway or with parts, in every mode, and an invalid one. 2.9 million states.
* **channels**: lists that are empty, unsorted, repeat an id or have unusable rows;
  status documents whose rows are missing, contradictory or about channels that
  are gone; every ending of every request.
* **accounts**: two clients that share a login, two ids and two names in every
  assignment, four passwords (the first one, one per client, one of the web
  interface), either name, an id, an id with the name of possibly another account, or
  no selector, and every selection of accounts the device may show. 1.3 million states.
* **media**: budgets 2 and 4 (phases rounded up to a millisecond), 8 and 16 (exact
  phases), images of at most 3 units in chunks of 1 and 2, up to 3 reads per
  chunk, the last one included. A second chunk that is within or beyond the limit, before or after the
  deadline, occurs for each of them. Every combination of rows in the inventory.

TLC's search for deadlocks is switched off where all calls end and nothing is
left to do afterwards; that they do end is what `Ends` and `CallsEnd` say. It is
on in the batch runs, where cameras may always restart, and says nothing there.

A few properties deserve a word.

* `SilentSkipTouchedNothing`: `SKIP_UNREACHABLE` is reported both for a camera
  that did not answer the first probe and for one that stopped answering later.
  The entry's error text tells them apart: without it the camera was not touched.
* `DeadlineVerdictIsFresh` and `VerifyEndsInTime` bound the shared deadline from
  both sides: with a worker for each pair, no camera is given up on old news; and
  with any number, verification overruns by less than one loop, queued jobs
  included. Setting the clock moves the deadline by that step and no further.
* `WindowNeedsSilence` says what the window rule has seen when it fires: a row of failed
  probes whose first one began a window ago, measured by time that runs and not by the
  clock that is read. So neither a job that starts late nor a clock that is set back
  lets the rule fire early; one that is set forward cuts the window by its step.
* `BrokenIsNotEmpty` is what the docstring of `channels()` promises a caller ("never
  mistakes a broken device for one with no cameras"): a list means that some family
  answered, and when neither did, the first failure is raised. What it does when one
  family answers with nothing is in section 5.
* `OkMeansMoved` against `OkMeansStored`: the window rule is right about a camera
  whose port is closed, and no more than that the address was stored when probes
  can be lost or the camera is in DHCP mode. Both hold whatever the clock is set to.
* `DeadlineKept`: a call outlives its deadline by three configured timeouts at the
  most, since the deadline is looked at before each of the two attempts only; a
  budget that was cut into eight phases is not exceeded before the headers are there.
* `ImplementsEditing` relates every write to the document its client has read, over
  late writes and the other clients' writes in between.
* `RightAccount`: an id is used after the list it came from. As long as nobody edits
  accounts in between, the password that changes is that of the account asked for;
  section 5 says what happens otherwise.
* `RotatedOutStaysOut`: of the clients that share a login and rotate its password
  one succeeds at the most, because none of them learns of the others' change, and
  a write that is late finds the door locked.
* `RacedRuleStaysProper`: the check of a rule's points and the switch is made on
  one read and written as one document, so clients that race on a rule cannot
  combine one's points with the other's switch. It holds while no *other* rule is
  bad, which is what `line_switch` is about.

## 5. What the repository says and the code does not do

Four claims are kept as runs that TLC refutes:

1. **batch_chain**. The docstring says of the first rule "new_ip:80 is open
   (camera is back up on its new address)" (`isapi/batch.py:9`). `_verify_one`
   takes whatever answers there (line 51). In a chain of moves the pair of the
   first camera is OK by the answer of the second, which has not left yet.
2. **batch_lost_put**. `set_network_config` says "A lost PUT response is
   ambiguous: callers must rediscover the device" (`isapi/client.py:273`).
   The batch reports `SKIP_UNREACHABLE` and never looks at either address again
   (`isapi/batch.py:124`), though the camera may have stored the new one.
3. **line_switch**. "an enabled line must use two different points"
   (`isapi/client.py:390`) is checked for the rule that is updated, but enabling
   turns on the global switch, and with it a rule whose points are equal.
4. **channels_raises**. "`channels()` raises only when BOTH families fail"
   (`CHANGELOG.md:50`), and a family that is missing "is skipped rather than failing the
   whole enumeration" (`isapi/client.py:526-529`). The code raises whenever it has
   collected nothing (line 550), also when one family failed and the other answered
   that it has no channels: a recorder without adopted cameras that lacks the other
   endpoint.

Others were met while modelling. They follow from a few lines without any
interaction, or are the assumption some property is stated under, and are not
kept as runs:

* The window rule is called "definitive proof" (`isapi/batch.py:11`); an outage of
  its length on the way to a camera that never rebooted looks the same. This is why
  `OkMeansMoved` excludes loss.
* "parallel verification" (`isapi/batch.py:6`): with fewer workers than pairs a
  queued pair may be failed by the shared deadline without one probe. This is why
  `DeadlineVerdictIsFresh` has a worker for each pair.
* "preserving omitted fields" (`isapi/client.py:270`) and "Updates preserve the
  device's existing XML fields" (`README.md:38`): the document as it was read is
  written, so what somebody else changed in between is reverted, in
  `set_network_config` and `set_line_detection` alike. This is why `WrittenIsExact`
  and `VerifiedIsExact` speak of calls without interference.
* `pyhik set-ip` (`cli.py:26`) and the batch pass no `dhcp=False`. A device in DHCP
  mode stores the address, acknowledges and does not use it; the library's README
  says to pass it (`README.md:96`). The batch restarts such a camera, and a restart
  that lasts as long as the window is reported as OK: this is why `HasMoved` makes an
  exception for it.
* The password PUT of `set_user_password` goes to the id from the list with the name
  from the list (`isapi/client.py:942-947`). When the account was deleted and the id
  given to another one meanwhile, that one's password is replaced, and it may take
  the old name. This is why `RightAccount` speaks of clients whose list is fresh.
* `set_line_detection` sends what `to_xml` returns, which has lost its namespace
  declaration (`_xml.py:55` says it is preserved); `set_network_config` puts it
  back.
* "enumeration must not fail because status is unavailable" (`isapi/client.py:768`),
  but a status document that is not XML raises the parser's exception, which is none of
  the three that are caught (`StatusFails`). This is why `OneFamilyIsEnough` excludes it.
* `set_user_password` sends the PUT first and asks for the capabilities when it
  was refused (`isapi/client.py:959-967`, and its docstring); the change log says it
  "pre-flights the device security capability and raises
  `HikUnsupportedPasswordEncodingError` before any PUT" (`CHANGELOG.md:18-20`). No
  property says when the error comes; `RefusalIsReported` says that it comes only when
  the device calls for a salted password.
* The last look at the deadline is before the end of the body is waited for
  (`isapi/client.py:667`), so a snapshot may return after its "total" budget; and
  the discovery of `snapshot_rtsp` has a timeout per phase and no deadline, so the
  call may last several of the timeouts it is said to "share" (line 711).
  `SnapshotOverrun` and `FrameIsBestInTime` state what does hold.
* A stream inventory that is not XML ends with the parser's exception instead of
  `HikXMLError` (`isapi/client.py:597`): the ending "parse" of `Media`.

## 6. What is proved

TLC shows the properties for the instances above; the theorems hold for every
value of the constants that satisfies the named assumptions (`RequestAssumption`,
`BatchAssumption`, `LineAssumption`, `NetworkAssumption`, `AccountsAssumption`,
`MediaAssumption`, `ChannelsAssumption`),
which say little more than that the constants have the right types and that the
values for "none" are different from all others. `MediaAssumption` also has two facts
about numbers: a budget is shorter than one millisecond per phase or a multiple of
the phases (the code divides a float; a unit in which the division is exact can be
chosen), and there are at least six of them, as many as one request may take
(`_SNAPSHOT_TIMEOUT_PHASES` is 8). TLC evaluates them in every run.

**`IsapiRequest_proofs`**: `RequestTypeOK`, `RequestAtMostOnce` (which has no run of
its own, being part of the contract), `RequestNothingLeftOpen`,
`RequestDeadlineKept` from its two halves `RequestOverrunBounded` and
`RequestPhasesFitBudget`, `RequestRefines`, that the request implements
`RequestContract`, and `RequestStepsCountDown`: a measure (`StepsLeft`) that starts at
twelve and goes down with every step of the client and the library. The types and the
measure aside, none of these is inductive: that no work is repeated depends on where the request is when a 401
arrives. The invariant adds `DeviceInv` (a request is under way or was carried out
only as `stage` and `status` allow), `OpenInv` (which responses are open where) and
`TimeInv` (how much of the time granted to an attempt each exchange may have used,
counted against configured timeout and deadline).

**`BatchProofs`**: `BatchTypeOK`; `BatchSubmittedWasAcknowledged` by `AckInv`;
`BatchOkMeansStored` by `FreshInv`, which says that under a fresh plan every camera
is at its home or at the address of the pair of that home; `BatchOkMeansMoved` by
`MovedInv`, which extends the claim from reports back to the job stages at which it
becomes true (a closed window that has begun, a probe that is about to succeed),
with `HasMovedStable` for what cameras do afterwards; `BatchExitZeroMeansMoved` by
`AckShown`; `BatchRebootsOnlyTheWritten`; `BatchImplementsReport`, the refinement of
`BatchReport`, by `PhaseInv`, which ties a job's stage to its report entry;
`BatchVerifyEndsInTime` by `TimeInv`, for any number of jobs and workers;
`BatchWindowNeedsSilence` by `WindowInv`, which relates the start of the window the job
remembers to that of the row of failed probes. They hold for any number of cameras, pairs
and workers, any timing, any set of cameras in DHCP mode and any step of the clock.
`BatchSubmittedWasAcknowledged` has no run of its own: what it says of a report is
what `OkMeansStored` and `ExitZeroMeansMoved` rest on. Four frame lemmas
(`CameraSteps`, `CallerSteps`, `JobSteps`, `SettingsStay`) say once which actions can
change what, and `ClockSetting` how far `Now` is from `clock`.

**`LineDetection_proofs`**: `LineTypeOK`; `LineVerifiedIsExact` by `Sane` (what has
been read, and was acceptable, is what will be written) and `Kept` (an untouched
document still has the other rules that were read); `LineRacedRuleStaysProper` by
`RaceInv`, which follows the documents that were read as well as the device's;
`LineImplementsEditing`, where the early return and the read-back are stutters or
give the write up. Its invariant is `Unread`: who has not read yet holds nothing.

**`NetworkConfig_proofs`**: `NetworkTypeOK`, `NetworkWrittenIsExact`,
`NetworkReadShowsWrite` and `NetworkTrioFromOne`, with lemmas about the patched
document (`SentIsDocument`, `SentObeys`, `SentIsWhole`) and about the two conversions
(`ShownIsSent`: what is shown of a patched document is what was asked for), and
`NetworkImplementsEditing` along the same lines as for the other editor.

**`Accounts_proofs`**: `AccountsTypeOK` (no two accounts ever share a name),
`AccountsRefusedLeavesPassword` and `AccountsRotatedOutStaysOut`, by an invariant per
call (`CallInv`) that includes that an account which some client has written no
longer has its first password; `AccountsRightAccount` by `PickInv`: while
its list is fresh, a client that may still write holds the id of an account that was
asked for; `AccountsRefusalIsReported` by `RefusalInv`, which says how a write can
have ended where the call is.

**`BatchVerdictProofs`** extends `BatchProofs`. `BatchSilentSkipTouchedNothing`:
"skipped and untouched" is kept only if no write of the pair can still come, so
`SkipInv` speaks of every pair phase 1 has yet to write, and `PhaseInv` rules out
that a job changes the entry of one that was skipped. `BatchDeadlineVerdictIsFresh`
by `AgeInv`: at each stage of a job, how long ago its last probe of the new address
can have begun, on top of `TimeInv`. The induction rests on `WorkerIsFree`: with a
worker for each pair some queued job can always start, and time stands still while
one can, so all of them start at once. "The first queued job" is a least element
(`FirstPair`, from the library's `WFMin`), and that a worker is free follows from
counting.

**`Media_proofs`** is by composition. `RP` is an instance of `IsapiRequest_proofs` with
the timeouts a client of `Media` can be configured with; `RequestParameters` shows
that what `IsapiRequest` assumes of its constants holds of them, and `SameTypes`,
`SameInit` and `SameNext` that `Media`'s own instance of the request is the one those
lemmas are about. The invariant `MediaInv` has, while the request runs, the request's
own invariant (`RequestInv`), kept by its lemmas, and what the operation makes of it:
`CourseInv` (which phase an operation can be in, with which timeout), `BodyInv` (the
body is read on only before the deadline) and `FrameInv` (ffmpeg is started before the
timeout, for the best stream listed). `MediaTypeOK`, `MediaSnapshotCleansUp`,
`MediaSnapshotOverrun` and `MediaFrameIsBestInTime` follow. That the request's bound
turns into the snapshot's is arithmetic on the phases (`PhaseOfBudget`): six phases
fit the budget. `MediaKeepsContract`: the request implements its contract inside the
operation too, when it is carried out late included. `MediaStepsCountDown`: the
request's steps and the units of an image that still has room bound the steps of the
operation, however small the chunks are.

**`Channels_proofs`** is first about lists. `InOrderSorts`: sorting by counting lists
every element once and in order, for any finite set with a strict order, since the
counts are an injection into as many places as there are elements (`PlaceIsTaken`).
From it `ParsedIsListed` (a document's usable rows, all of them, in ascending order),
`UniqueKeepsFirst` and `UniqueAscends` (the same identities, none of them twice),
`JoinedFamilies` (one family after the other), `OnlineIsSaid` and `StatusApplied` (the
last row that says something counts, and nothing else changes). They hold for
documents of any length and need no induction: where a loop over rows would need one,
there is a least or greatest position (`First`, `Last`). The invariant `ChannelsInv`
then relates the answers to what was made of them: `AnswerInv` and `CourseInv` (what
was asked when), `CollectedInv` (what is collected is what the families asked so far
have listed), `ErrorInv` (what the first family failed with is the first error; a list
was answered for by some family, an error was met), `ToldInv` (a status is what the document
says of the channel). `ChannelsListIsInventory`, `ChannelsBrokenIsNotEmpty`,
`ChannelsOneFamilyIsEnough` and `ChannelsStatusIsReported` follow.

Every safety and action property of a passing run is stated by a theorem, and so is
every refinement. Only model-checked are the liveness properties (`Ends` of the
request, the batch and the media operations, `CallsEnd`), since the prover does not
reason about fairness with ENABLED; they are checked for the instances of section 4.
For the request and the media operations the part of them that needs no fairness is
proved: that only finitely many steps can be taken.

## 7. What is not modelled

* `device_info`: one request and the parsing of one document, no change of state,
  nothing beyond the request layer.
* `pyhik set-ip`: it is `set_network_config` followed by `reboot`, both of which are
  steps of the batch; what it prints in between is wording.
* `rtsp_url`, formatting in `cli.py`, the facade and the package's `__init__`
  files: no state.
* `_xml.py`: pure tree helpers. What they do is part of the operations that use
  them (`Sent`, `Shown`, `ParseChannelList`); the text of XML is not modelled.
* The content of images, of names and of vendor elements.
* The NetSDK backend, whose methods raise `NotImplementedError`.
* A system clock that is set more than once during one verification.

## 8. Plan

The modules were written in this order: the request and its contract, the batch
(the operation with the most at stake, and the only threads), the two document
editors, channels, accounts, media; then, across them, cameras in DHCP mode and a
clock that is set, accounts that are edited while a password changes, elements
without a text, and the abstract specification of the editors; then the proofs of the
batch's verdicts, of the media operations on top of the request, and of channels.
What comes next:

1. The half of `CallsEnd` and of the batch's `Ends` that is safety: a measure that
   every step of a call, and of a verification job between two advances of the clock,
   decreases.
2. What is left of `WrittenIsExact` and `VerifiedIsExact` when somebody else writes
   in between, as theorems of both editors.
3. That what a component assumes of a request (`Consistent` endings, late writes)
   is what `RequestContract` allows, for `Accounts` and the editors as for `Media`.
