---------------------------- MODULE NetworkConfig ----------------------------
(***************************************************************************)
(* set_network_config and get_network_config (isapi/client.py): several    *)
(* clients change the IPv4 settings of one interface, each by reading its  *)
(* document, patching the elements it was given and writing the document   *)
(* back; then each may read the settings, as the README advises.  The web  *)
(* interface of the device changes the same document.                      *)
(*                                                                         *)
(* "rest" stands for the elements the code does not know and for the       *)
(* namespace, which is put back before the document is sent.  Requests end *)
(* as RequestOutcomes says.                                                *)
(***************************************************************************)
EXTENDS RequestOutcomes

CONSTANTS
  Clients,
  Values,     \* texts of an address, well-formed or not
  Malformed,  \* those ipaddress refuses
  Modes,      \* texts of addressingType
  Rests,
  Requests,   \* arguments of set_network_config
  Configs,    \* documents the device has at first or gets by its web interface
  Absent,     \* an element the document does not have
  Empty,      \* the text of an element that has none
  None        \* an argument that was not given, or an attribute without value

\* The elements with a text, and those which the document must have to be set.
Texts == {"ip", "mask", "gateway", "dns1", "dns2"}
Required == {"ip", "mask"}

Document == [text : [Texts -> Values \cup {Absent}],
             mode : Modes \cup {Absent}, rest : Rests]
Request == [text : [Texts -> Values \cup {None}], dhcp : BOOLEAN \cup {None}]

\* What get_network_config returns.
View == [text : [Texts -> Values \cup {None}], dhcp : BOOLEAN \cup {None}]

Endings == Outcomes \cup {"value", "unreadable", "incomplete", "unacknowledged",
                          "written"}

ASSUME NetworkAssumption ==
  /\ Requests \subseteq Request /\ Configs \subseteq Document
  /\ {"dynamic", "static"} \subseteq Modes \ {Empty} /\ Empty \in Malformed
  /\ Absent \notin Values \cup Modes /\ None \notin Values \cup Endings \cup View

VARIABLES
  doc,       \* the device's document
  pc, arg,   \* per client: where its calls are, the arguments of the first
  seen,      \* the document it has read, None before
  outcome,   \* how the first call ended
  shown,     \* what the second call returned, None before or if it raised
  late,      \* its write may yet be carried out
  touched    \* history: has anybody else written since it read?

vars == <<doc, pc, arg, seen, outcome, shown, late, touched>>

Init ==
  /\ doc \in Configs
  /\ pc = [c \in Clients |-> "begin"] /\ arg \in [Clients -> Requests]
  /\ seen = [c \in Clients |-> None] /\ outcome = [c \in Clients |-> None]
  /\ shown = [c \in Clients |-> None]
  /\ late = [c \in Clients |-> FALSE] /\ touched = [c \in Clients |-> FALSE]

-----------------------------------------------------------------------------
(* The arguments and the document that is written. *)

ValidArguments(r) ==
  /\ \A e \in Texts : r.text[e] \notin Malformed
  /\ r.dhcp # None \/ \E e \in Texts : r.text[e] # None

\* Elements that cannot be set for want of them; a gateway or name server that
\* is not there is added.
Incomplete(r, d) ==
  \/ \E e \in Required : r.text[e] # None /\ d.text[e] = Absent
  \/ r.dhcp # None /\ d.mode = Absent

\* What becomes of an element for which this value was given.
SetText(value, old) == IF value = None THEN old ELSE value
SetMode(dhcp, old) ==
  IF dhcp = None THEN old ELSE IF dhcp THEN "dynamic" ELSE "static"

\* Variants of Sent: what was not given is sent as it is; what the document
\* lacks is not added; whatever is not dynamic is made static.
Sent_Unfilled(r, d) ==
  [text |-> r.text, mode |-> SetMode(r.dhcp, d.mode), rest |-> d.rest]

Sent_NotAdded(r, d) ==
  [text |-> [e \in Texts |-> IF d.text[e] = Absent THEN Absent
                              ELSE SetText(r.text[e], d.text[e])],
   mode |-> SetMode(r.dhcp, d.mode), rest |-> d.rest]

Sent_StaticByDefault(r, d) ==
  [text |-> [e \in Texts |-> SetText(r.text[e], d.text[e])],
   mode |-> SetMode(r.dhcp = TRUE, d.mode), rest |-> d.rest]

Sent(r, d) ==
  [text |-> [e \in Texts |-> SetText(r.text[e], d.text[e])],
   mode |-> SetMode(r.dhcp, d.mode), rest |-> d.rest]

ShowText(x) == IF x \in {Absent, Empty} THEN None ELSE x

\* Variant of Shown: the mode "static" is looked for.
Shown_Inverted(d) ==
  [text |-> [e \in Texts |-> ShowText(d.text[e])],
   dhcp |-> IF d.mode \in {Absent, Empty} THEN None ELSE d.mode = "static"]

\* Every mode but "dynamic" is shown as dhcp=False.
Shown(d) ==
  [text |-> [e \in Texts |-> ShowText(d.text[e])],
   dhcp |-> IF d.mode \in {Absent, Empty} THEN None ELSE d.mode = "dynamic"]

-----------------------------------------------------------------------------
(* The device. *)

OthersTouched(c) == [x \in Clients |-> IF x = c THEN touched[x] ELSE TRUE]

LateWrite(c) ==
  /\ late[c] /\ doc' = Sent(arg[c], seen[c])
  /\ late' = [late EXCEPT ![c] = FALSE] /\ touched' = OthersTouched(c)
  /\ UNCHANGED <<pc, arg, seen, outcome, shown>>

WebEdit ==
  /\ doc' \in Configs
  /\ touched' = [c \in Clients |-> TRUE]
  /\ UNCHANGED <<pc, arg, seen, outcome, shown, late>>

-----------------------------------------------------------------------------
(* The calls of client c. *)

End(c, o) ==
  pc' = [pc EXCEPT ![c] = "ended"] /\ outcome' = [outcome EXCEPT ![c] = o]

Begin(c) ==
  /\ pc[c] = "begin"
  /\ IF ValidArguments(arg[c])
       THEN pc' = [pc EXCEPT ![c] = "get"] /\ UNCHANGED outcome
       ELSE End(c, "value")
  /\ UNCHANGED <<doc, arg, seen, shown, late, touched>>

\* GET fails, or what it returns is not an IPAddress document.
ReadFails(c) ==
  /\ pc[c] = "get"
  /\ \E o \in (Outcomes \ {"ok"}) \cup {"unreadable"} : End(c, o)
  /\ UNCHANGED <<doc, arg, seen, shown, late, touched>>

Read(c) ==
  /\ pc[c] = "get"
  /\ seen' = [seen EXCEPT ![c] = doc]
  /\ touched' = [touched EXCEPT ![c] = FALSE]
  /\ IF Incomplete(arg[c], doc)
       THEN End(c, "incomplete")
       ELSE pc' = [pc EXCEPT ![c] = "put"] /\ UNCHANGED outcome
  /\ UNCHANGED <<doc, arg, shown, late>>

\* A 2xx counts with a ResponseStatus of statusCode 1 only.
PutEnding(o, acknowledged) ==
  IF o # "ok" THEN o
  ELSE IF acknowledged THEN "written" ELSE "unacknowledged"

\* Variant of Put: a PUT without an answer is repeated.
Put_Replayed(c, o, acknowledged) ==
  /\ pc[c] = "put" /\ (acknowledged => o = "ok")
  /\ IF o = "unreachable"
       THEN UNCHANGED <<pc, outcome>>
       ELSE End(c, PutEnding(o, acknowledged))
  /\ \/ /\ o # "auth" /\ doc' = Sent(arg[c], seen[c])
        /\ touched' = OthersTouched(c) /\ UNCHANGED late
     \/ ~acknowledged /\ UNCHANGED <<doc, late, touched>>
  /\ UNCHANGED <<arg, seen, shown>>

\* An acknowledged document has been stored, a refused one has not; of any other
\* the response says nothing, and if there was none it may be stored later.
Put(c, o, acknowledged) ==
  /\ pc[c] = "put" /\ (acknowledged => o = "ok")
  /\ End(c, PutEnding(o, acknowledged))
  /\ \/ /\ o # "auth" /\ doc' = Sent(arg[c], seen[c])
        /\ touched' = OthersTouched(c) /\ UNCHANGED late
     \/ ~acknowledged /\ UNCHANGED <<doc, late, touched>>
     \/ /\ o = "unreachable" /\ late' = [late EXCEPT ![c] = TRUE]
        /\ UNCHANGED <<doc, touched>>
  /\ UNCHANGED <<arg, seen, shown>>

\* get_network_config.
Get(c) ==
  /\ pc[c] = "ended" /\ pc' = [pc EXCEPT ![c] = "done"]
  /\ shown' = [shown EXCEPT ![c] = Shown(doc)]
  /\ UNCHANGED <<doc, arg, seen, outcome, late, touched>>

GetFails(c) ==
  /\ pc[c] = "ended" /\ pc' = [pc EXCEPT ![c] = "done"]
  /\ UNCHANGED <<doc, arg, seen, outcome, shown, late, touched>>

Call(c) ==
  \/ Begin(c) \/ ReadFails(c) \/ Read(c) \/ Get(c) \/ GetFails(c)
  \/ \E o \in Outcomes, acknowledged \in BOOLEAN : Put(c, o, acknowledged)

Next == WebEdit \/ \E c \in Clients : Call(c) \/ LateWrite(c)

Spec == Init /\ [][Next]_vars

-----------------------------------------------------------------------------
(* Properties. *)

DocumentsOK ==
  /\ doc \in Document /\ seen \in [Clients -> Document \cup {None}]
  /\ shown \in [Clients -> View \cup {None}]
CallsOK ==
  /\ pc \in [Clients -> {"begin", "get", "put", "ended", "done"}]
  /\ arg \in [Clients -> Requests] /\ outcome \in [Clients -> Endings \cup {None}]
FlagsOK == late \in [Clients -> BOOLEAN] /\ touched \in [Clients -> BOOLEAN]

\* Type invariant of the device's document and the calls that work on it.
TypeOK == DocumentsOK /\ CallsOK /\ FlagsOK

\* What request r asks for, read off its arguments.
Obeys(r, d, new) ==
  /\ \A e \in Texts : new.text[e] = IF r.text[e] = None THEN d.text[e] ELSE r.text[e]
  /\ r.dhcp = None => new.mode = d.mode
  /\ r.dhcp # None => (new.mode = "dynamic") = r.dhcp
  /\ new.rest = d.rest

\* A call that returns was carried out: unless somebody else wrote since it
\* read, the device has what it was given, and nothing else has changed.
ReturnIsExact ==
  \A c \in Clients :
    outcome[c] = None /\ outcome'[c] = "written" /\ ~touched[c] =>
      Obeys(arg[c], doc, doc')
WrittenIsExact == [][ReturnIsExact]_vars

\* The settings read after a call that returned show every argument of it,
\* unless somebody else wrote: what set_network_config writes is what
\* get_network_config reads.
Shows(r, view) ==
  /\ \A e \in Texts : r.text[e] # None => view.text[e] = r.text[e]
  /\ r.dhcp # None => view.dhcp = r.dhcp
ReadBackShows ==
  \A c \in Clients :
    outcome[c] = "written" /\ ~touched[c] /\ shown[c] = None /\ shown'[c] # None =>
      Shows(arg[c], shown'[c])
ReadShowsWrite == [][ReadBackShows]_vars

\* The call edits the document as DocumentEditing says: at most one write, of
\* what it made of the document it read.
Writers == {c \in Clients : pc[c] = "put" \/ late[c]}
Promise == INSTANCE DocumentEditing WITH Edit <- Sent, hold <- Writers
ImplementsEditing == Promise!Spec

\* When every client gives the address, the mask and the gateway, no order of
\* reads, writes and late writes mixes those of one with those of another.
Trio(x) == <<x.text["ip"], x.text["mask"], x.text["gateway"]>>
Whole(r) == \A e \in {"ip", "mask", "gateway"} : r.text[e] # None
Trios == {Trio(x) : x \in Configs \cup {arg[c] : c \in Clients}}
TrioFromOne == (\A c \in Clients : Whole(arg[c])) => Trio(doc) \in Trios
=============================================================================
