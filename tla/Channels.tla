------------------------------ MODULE Channels ------------------------------
(***************************************************************************)
(* Channel enumeration (isapi/client.py): input_proxy_channels asks a      *)
(* recorder for its adopted cameras and, when told so, for their status;   *)
(* video_input_channels asks for its own inputs; channels merges both and  *)
(* tolerates a device that has only one family.                            *)
(*                                                                         *)
(* The three documents are whatever the device answers at the time of each *)
(* request, so they need not agree.  Of a row the identity, a name and the *)
(* status matter.                                                          *)
(***************************************************************************)
EXTENDS Integers, Sequences, FiniteSetsExt, RequestOutcomes

CONSTANTS
  ProxyBodies, InputBodies,   \* rows a device may list: [id, name]
  StatusBodies,               \* rows of the status document: [id, online]
  None

IsSequence(s) == Len(s) \in Nat /\ DOMAIN s = 1 .. Len(s)

\* A row without an integer id has None for one.
ASSUME ChannelsAssumption ==
  /\ None \notin Int /\ None \notin BOOLEAN
  /\ \A body \in ProxyBodies \cup InputBodies :
       IsSequence(body) /\ \A k \in DOMAIN body : body[k].id \in Int \cup {None}
  /\ \A body \in StatusBodies : IsSequence(body)

Families == {"input_proxy", "video_input"}
Calls == Families \cup {"channels"}

\* "malformed": a 2xx whose body is not XML.
Endings == Outcomes \cup {"malformed"}

VARIABLES
  call, withStatus,   \* the operation called, and its argument
  pc,                 \* the request to come: a family, "status", "merge", "done"
  answer,             \* per request: how it ended and its rows
  rows,               \* adopted cameras waiting for their status
  collected, errors,  \* of channels
  outcome, result

arguments == <<call, withStatus>>
vars == <<arguments, pc, answer, rows, collected, errors, outcome, result>>

Init ==
  /\ call \in Calls /\ withStatus \in BOOLEAN
  /\ pc = (IF call = "video_input" THEN "video_input" ELSE "input_proxy")
  /\ answer = [q \in Families \cup {"status"} |-> [end |-> "unasked", body |-> <<>>]]
  /\ rows = <<>> /\ collected = <<>> /\ errors = <<>>
  /\ outcome = "pending" /\ result = <<>>

-----------------------------------------------------------------------------
(* The documents. *)

\* list.sort: the elements of S, each with as many before it as R says.
InOrder(S, R) ==
  [n \in 1 .. Cardinality(S) |->
     CHOOSE i \in S : Cardinality({j \in S : <<j, i>> \in R}) = n - 1]

\* _parse_channel_list: rows with an integer id, in a stable order by id.
ParseChannelList(body, family) ==
  LET usable == {k \in DOMAIN body : body[k].id # None}
      before == {p \in usable \X usable :
                   \/ body[p[1]].id < body[p[2]].id
                   \/ body[p[1]].id = body[p[2]].id /\ p[1] < p[2]}
      order == InOrder(usable, before)
  IN [n \in DOMAIN order |->
        [kind |-> family, id |-> body[order[n]].id,
         name |-> body[order[n]].name, online |-> None]]

\* Variant of OnlineById: a channel without a status counts as offline.
OnlineById_Offline(id, body) ==
  \E k \in DOMAIN body : body[k].id = id /\ body[k].online = "true"

\* The last row that says anything about a channel counts; what it says is
\* "true" or means offline.
OnlineById(id, body) ==
  LET says == {k \in DOMAIN body : body[k].id = id /\ body[k].online # None}
  IN IF says = {} THEN None ELSE body[Max(says)].online = "true"

ApplyStatus(channels, body) ==
  [k \in DOMAIN channels |->
     [channels[k] EXCEPT !.online = OnlineById(channels[k].id, body)]]

Key(channel) == <<channel.kind, channel.id>>

\* The channels at positions S, in the order they have.
At(channels, S) ==
  LET order == InOrder(S, {p \in S \X S : p[1] < p[2]})
  IN [n \in DOMAIN order |-> channels[order[n]]]

\* Variant of Unique: the families share one space of ids.
Unique_ById(channels) ==
  At(channels, {k \in DOMAIN channels :
                  \A j \in 1 .. (k - 1) : channels[j].id # channels[k].id})

\* The first channel of each key stays.
Unique(channels) ==
  At(channels, {k \in DOMAIN channels :
                  \A j \in 1 .. (k - 1) : Key(channels[j]) # Key(channels[k])})

-----------------------------------------------------------------------------
(* The endings of a loader and of a call. *)

Return(channels) ==
  /\ pc' = "done" /\ outcome' = "ok" /\ result' = channels
  /\ UNCHANGED <<collected, errors>>

Raise(e) ==
  /\ pc' = "done" /\ outcome' = e
  /\ UNCHANGED <<result, collected, errors>>

\* What channels does next.
After(family) == IF family = "input_proxy" THEN "video_input" ELSE "merge"

Deliver(family, channels) ==
  IF call = "channels"
    THEN /\ collected' = collected \o channels /\ pc' = After(family)
         /\ UNCHANGED <<errors, outcome, result>>
    ELSE Return(channels)

\* channels() catches HikHTTPError and HikXMLError of a loader, nothing else.
LoaderFails(family, e) ==
  IF call = "channels" /\ e \in {"http", "xml"}
    THEN /\ errors' = Append(errors, e) /\ pc' = After(family)
         /\ UNCHANGED <<collected, outcome, result>>
    ELSE Raise(e)

-----------------------------------------------------------------------------
(* The requests. *)

Record(q, e, body) == answer' = [answer EXCEPT ![q] = [end |-> e, body |-> body]]

\* The request of a family fails; a body that is not XML becomes HikXMLError.
FamilyFails(family) ==
  /\ pc = family
  /\ \E e \in Endings \ {"ok"} :
       /\ Record(family, e, <<>>)
       /\ LoaderFails(family, IF e = "malformed" THEN "xml" ELSE e)
  /\ UNCHANGED <<arguments, rows>>

ProxyChannels ==
  /\ pc = "input_proxy"
  /\ \E body \in ProxyBodies :
       LET channels == ParseChannelList(body, "input_proxy")
       IN /\ Record("input_proxy", "ok", body)
          /\ IF withStatus /\ channels # <<>>
               THEN /\ rows' = channels /\ pc' = "status"
                    /\ UNCHANGED <<collected, errors, outcome, result>>
               ELSE Deliver("input_proxy", channels) /\ UNCHANGED rows
  /\ UNCHANGED arguments

VideoInputs ==
  /\ pc = "video_input"
  /\ \E body \in InputBodies :
       /\ Record("video_input", "ok", body)
       /\ Deliver("video_input", ParseChannelList(body, "video_input"))
  /\ UNCHANGED <<arguments, rows>>

ChannelStatus ==
  /\ pc = "status"
  /\ \E body \in StatusBodies :
       /\ Record("status", "ok", body)
       /\ Deliver("input_proxy", ApplyStatus(rows, body))
  /\ UNCHANGED <<arguments, rows>>

\* HikHTTPError and HikUnreachableError leave the status unknown.  The parser's
\* own exception is not HikXMLError, so a malformed document raises it.
StatusFails ==
  /\ pc = "status"
  /\ \E e \in Endings \ {"ok"} :
       /\ Record("status", e, <<>>)
       /\ CASE e \in {"http", "unreachable"} -> Deliver("input_proxy", rows)
            [] e = "malformed" -> LoaderFails("input_proxy", "parse")
            [] OTHER -> LoaderFails("input_proxy", e)
  /\ UNCHANGED <<arguments, rows>>

\* Variants of Merge: it never raises; it raises when any family fails.
Merge_NeverRaises ==
  /\ pc = "merge"
  /\ Return(Unique(collected))
  /\ UNCHANGED <<arguments, answer, rows>>

Merge_AnyFails ==
  /\ pc = "merge"
  /\ IF errors # <<>> THEN Raise(Head(errors)) ELSE Return(Unique(collected))
  /\ UNCHANGED <<arguments, answer, rows>>

Merge ==
  /\ pc = "merge"
  /\ IF errors # <<>> /\ collected = <<>>
       THEN Raise(Head(errors))
       ELSE Return(Unique(collected))
  /\ UNCHANGED <<arguments, answer, rows>>

Enumerate ==
  \/ \E family \in Families : FamilyFails(family)
  \/ ProxyChannels \/ VideoInputs \/ ChannelStatus \/ StatusFails \/ Merge

Spec == Init /\ [][Enumerate]_vars

-----------------------------------------------------------------------------
(* Properties. *)

Usable(family) ==
  {id \in {answer[family].body[k].id : k \in DOMAIN answer[family].body} : id # None}

\* A list that channels() returns is the device's inventory: every identity a
\* family listed appears exactly once, adopted cameras first, in ascending order.
Ascending(list) ==
  \A i, j \in DOMAIN list : i < j =>
    \/ list[i].kind = "input_proxy" /\ list[j].kind = "video_input"
    \/ list[i].kind = list[j].kind /\ list[i].id < list[j].id
ListIsInventory ==
  call = "channels" /\ outcome = "ok" =>
    /\ {Key(result[k]) : k \in DOMAIN result}
         = UNION {{family} \X Usable(family) : family \in Families}
    /\ Ascending(result)

\* A broken device never looks like one with no cameras: a list comes only from a
\* device that answered for some family, and when channels() could read neither, it
\* raises what the first family failed with.
BrokenIsNotEmpty ==
  /\ outcome = "ok" => \E family \in Families : answer[family].end = "ok"
  /\ call = "channels" /\ pc = "done"
     /\ (\A family \in Families : answer[family].end \in {"http", "malformed"})
       => outcome = (IF answer["input_proxy"].end = "malformed" THEN "xml" ELSE "http")

\* A device with one family is enough: when one has channels, a missing or
\* unreadable other one does not keep them from the caller, nor does a status
\* that is missing or not to be had.  (One that is unreadable does.)
OneFamilyIsEnough ==
  call = "channels" /\ pc = "done"
  /\ (\E family \in Families : Usable(family) # {})
  /\ answer["status"].end \in {"unasked", "ok", "http", "unreachable"}
  /\ (\A family \in Families : answer[family].end \in {"ok", "http", "malformed"})
    => outcome = "ok"

\* Offline is never made up: a channel is online or offline only when its status
\* was asked for and a row with its id says so; otherwise it is unknown.
StatusIsReported ==
  outcome = "ok" =>
    \A k \in DOMAIN result :
      LET said == {answer["status"].body[j].online :
                     j \in {j \in DOMAIN answer["status"].body :
                              answer["status"].body[j].id = result[k].id}} \ {None}
          told == result[k].kind = "input_proxy" /\ said # {}
      IN /\ (result[k].online # None) <=> told
         /\ result[k].online = TRUE => "true" \in said
         /\ result[k].online = FALSE => said # {"true"}

-----------------------------------------------------------------------------
(* What the repository says and the code does not keep. *)

\* CHANGELOG.md:50, "`channels()` raises only when BOTH families fail": an error
\* of a family reaches the caller only if the other one failed too.
RaisesOnlyWhenBothFail ==
  call = "channels" /\ outcome \in {"http", "xml"} =>
    \A family \in Families : answer[family].end # "ok"
=============================================================================
