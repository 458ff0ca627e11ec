---------------------------- MODULE LineDetection ----------------------------
(***************************************************************************)
(* set_line_detection and get_line_detection (isapi/client.py): several    *)
(* clients update line-crossing rules of one channel, each by reading the  *)
(* whole configuration document, changing one rule in it, writing the      *)
(* document back and, unless told otherwise, reading it again.  The web    *)
(* interface of the device changes the same document.                      *)
(*                                                                         *)
(* A point is one number (its x coordinate); the flag of a single rule,    *)
(* which single-scene firmware ignores, and the fields the code does not   *)
(* know are part of what a written document carries along.  Requests end   *)
(* as RequestOutcomes says.                                                *)
(***************************************************************************)
EXTENDS Integers, RequestOutcomes

CONSTANTS
  Clients,
  Lines,      \* ids of the rules in the document
  Requests,   \* arguments of set_line_detection
  Configs,    \* documents the device has at first or gets by its web interface
  Screen,     \* normalized screen size
  None        \* an argument that was not given

Directions == {"any", "left-right", "right-left"}

Rule == [sensitivity : Int, direction : STRING, start : Int, end : Int]
Document == [multi : BOOLEAN, global : BOOLEAN, rules : [Lines -> Rule]]
Request == [line : Int, enabled : BOOLEAN \cup {None},
            sensitivity : Int \cup {None}, direction : STRING \cup {None},
            start : Int \cup {None}, end : Int \cup {None}, verify : BOOLEAN]

Endings == Outcomes \cup {"value", "multi_scene", "xml", "unchanged", "written",
                          "verified"}

ASSUME LineAssumption ==
  /\ Requests \subseteq Request /\ Configs \subseteq Document
  /\ Screen \in Nat
  /\ None \notin Endings /\ None \notin Document

VARIABLES
  doc,       \* the device's document
  pc, arg,   \* per client: where its call is, its arguments
  seen,      \* the document it has read, None before
  outcome,   \* how its call ended: an ending of a request, or its own
  late,      \* its write may yet be carried out
  touched    \* history: has anybody else written since it read?

vars == <<doc, pc, arg, seen, outcome, late, touched>>

Init ==
  /\ doc \in Configs
  /\ pc = [c \in Clients |-> "begin"] /\ arg \in [Clients -> Requests]
  /\ seen = [c \in Clients |-> None]
  /\ outcome = [c \in Clients |-> None]
  /\ late = [c \in Clients |-> FALSE] /\ touched = [c \in Clients |-> FALSE]

-----------------------------------------------------------------------------
(* The arguments, the wish they stand for, and the document that is written. *)

Given(x, default) == IF x = None THEN default ELSE x

ValidArguments(r) ==
  /\ r.line >= 1
  /\ (r.start = None) = (r.end = None)
  /\ r.sensitivity # None => r.sensitivity \in 1 .. 100
  /\ r.direction # None => r.direction \in Directions

DesiredEnabled(r, d) == Given(r.enabled, d.global)

DesiredRule(r, d) ==
  LET cur == d.rules[r.line]
  IN [sensitivity |-> Given(r.sensitivity, cur.sensitivity),
      direction |-> Given(r.direction, cur.direction),
      start |-> Given(r.start, cur.start), end |-> Given(r.end, cur.end)]

OnScreen(point) == point \in 0 .. Screen

\* Variant of Acceptable: only points that are given are looked at.
Acceptable_GivenOnly(r, d) ==
  r.start # None =>
    /\ OnScreen(r.start) /\ OnScreen(r.end)
    /\ DesiredEnabled(r, d) => r.start # r.end

Acceptable(r, d) ==
  LET rule == DesiredRule(r, d)
  IN /\ OnScreen(rule.start) /\ OnScreen(rule.end)
     /\ DesiredEnabled(r, d) => rule.start # rule.end

NoChange(r, d) ==
  DesiredEnabled(r, d) = d.global /\ DesiredRule(r, d) = d.rules[r.line]

\* Variant of Sent: arguments that were not given are sent as they are.
Sent_Unfilled(r, d) ==
  [multi |-> d.multi, global |-> DesiredEnabled(r, d),
   rules |-> [d.rules EXCEPT ![r.line] =
     [f \in {"sensitivity", "direction", "start", "end"} |-> r[f]]]]

Sent(r, d) ==
  [multi |-> d.multi, global |-> DesiredEnabled(r, d),
   rules |-> [d.rules EXCEPT ![r.line] = DesiredRule(r, d)]]

-----------------------------------------------------------------------------
(* The device. *)

OthersTouched(c) == [x \in Clients |-> IF x = c THEN touched[x] ELSE TRUE]

LateWrite(c) ==
  /\ late[c] /\ doc' = Sent(arg[c], seen[c])
  /\ late' = [late EXCEPT ![c] = FALSE] /\ touched' = OthersTouched(c)
  /\ UNCHANGED <<pc, arg, seen, outcome>>

WebEdit ==
  /\ doc' \in {d \in Configs : d.multi = doc.multi}
  /\ touched' = [c \in Clients |-> TRUE]
  /\ UNCHANGED <<pc, arg, seen, outcome, late>>

-----------------------------------------------------------------------------
(* The call of client c. *)

End(c, o) ==
  pc' = [pc EXCEPT ![c] = "done"] /\ outcome' = [outcome EXCEPT ![c] = o]

Begin(c) ==
  /\ pc[c] = "begin"
  /\ IF ValidArguments(arg[c])
       THEN pc' = [pc EXCEPT ![c] = "get"] /\ UNCHANGED outcome
       ELSE End(c, "value")
  /\ UNCHANGED <<doc, arg, seen, late, touched>>

\* GET fails, or what it returns cannot be parsed or lacks the line.
ReadFails(c) ==
  /\ pc[c] = "get"
  /\ \E o \in (Outcomes \ {"ok"}) \cup {"xml"} : End(c, o)
  /\ UNCHANGED <<doc, arg, seen, late, touched>>

Readable(c) == pc[c] = "get" /\ arg[c].line \in Lines

Refuse(c) ==
  /\ Readable(c)
  /\ \/ doc.multi /\ End(c, "multi_scene")
     \/ ~doc.multi /\ ~Acceptable(arg[c], doc) /\ End(c, "value")
  /\ UNCHANGED <<doc, arg, seen, late, touched>>

Proceed(c) ==
  /\ Readable(c) /\ ~doc.multi /\ Acceptable(arg[c], doc)
  /\ seen' = [seen EXCEPT ![c] = doc]
  /\ touched' = [touched EXCEPT ![c] = FALSE]
  /\ IF NoChange(arg[c], doc)
       THEN End(c, "unchanged")
       ELSE pc' = [pc EXCEPT ![c] = "put"] /\ UNCHANGED outcome
  /\ UNCHANGED <<doc, arg, late>>

\* A 2xx is all that is looked at: the device may have stored nothing.
Accepted(c) ==
  IF arg[c].verify
    THEN pc' = [pc EXCEPT ![c] = "verify"] /\ UNCHANGED outcome
    ELSE End(c, "written")

Put(c, o) ==
  /\ pc[c] = "put"
  /\ IF o = "ok" THEN Accepted(c) ELSE End(c, o)
  /\ \/ /\ Consistent(o, TRUE)
        /\ doc' = Sent(arg[c], seen[c]) /\ touched' = OthersTouched(c)
        /\ UNCHANGED late
     \/ UNCHANGED <<doc, late, touched>>
     \/ /\ o = "unreachable" /\ late' = [late EXCEPT ![c] = TRUE]
        /\ UNCHANGED <<doc, touched>>
  /\ UNCHANGED <<arg, seen>>

\* The document read back shows what was asked for.
ShowsDesired(c) ==
  /\ doc.global = DesiredEnabled(arg[c], seen[c])
  /\ doc.rules[arg[c].line] = DesiredRule(arg[c], seen[c])

VerifyFails(c) ==
  /\ pc[c] = "verify"
  /\ \E o \in (Outcomes \ {"ok"}) \cup {"xml"} : End(c, o)
  /\ UNCHANGED <<doc, arg, seen, late, touched>>

\* Variants of Verify: what was read back is not compared; the document is
\* written again until it shows what was asked for.
Verify_Unread(c) ==
  /\ pc[c] = "verify" /\ End(c, "verified")
  /\ UNCHANGED <<doc, arg, seen, late, touched>>

Verify_Retries(c) ==
  /\ pc[c] = "verify"
  /\ IF ShowsDesired(c)
       THEN End(c, "verified")
       ELSE pc' = [pc EXCEPT ![c] = "put"] /\ UNCHANGED outcome
  /\ UNCHANGED <<doc, arg, seen, late, touched>>

Verify(c) ==
  /\ pc[c] = "verify"
  /\ End(c, IF ShowsDesired(c) THEN "verified" ELSE "xml")
  /\ UNCHANGED <<doc, arg, seen, late, touched>>

Call(c) ==
  \/ Begin(c) \/ ReadFails(c) \/ Refuse(c) \/ Proceed(c)
  \/ \E o \in Outcomes : Put(c, o)
  \/ VerifyFails(c) \/ Verify(c)

Next == WebEdit \/ \E c \in Clients : Call(c) \/ LateWrite(c)

Spec == Init /\ [][Next]_vars

FairSpec == Spec /\ \A c \in Clients : WF_vars(Call(c))

-----------------------------------------------------------------------------
(* Properties. *)

PerClientOK ==
  /\ pc \in [Clients -> {"begin", "get", "put", "verify", "done"}]
  /\ arg \in [Clients -> Requests]
  /\ seen \in [Clients -> Document \cup {None}]
  /\ outcome \in [Clients -> Endings \cup {None}]
FlagsOK == late \in [Clients -> BOOLEAN] /\ touched \in [Clients -> BOOLEAN]

\* Type invariant of the device's document and the calls that work on it.
TypeOK == doc \in Document /\ PerClientOK /\ FlagsOK

\* What request r asks for, read off its arguments: rule l and the global flag
\* as given, everything else as it was in d.
Obeys(r, d, new) ==
  /\ new.global = Given(r.enabled, d.global)
  /\ \A l \in Lines \ {r.line} : new.rules[l] = d.rules[l]
  /\ \A f \in {"sensitivity", "direction", "start", "end"} :
       new.rules[r.line][f] = Given(r[f], d.rules[r.line][f])

\* A client that nobody interferes with gets exactly its update: when its call
\* says "verified", the document is the one it read with what it asked for, and
\* no other rule was changed by the way the whole document is written back.
VerdictIsExact ==
  \A c \in Clients :
    outcome[c] = None /\ outcome'[c] = "verified" /\ ~touched[c] =>
      Obeys(arg[c], seen[c], doc)
VerifiedIsExact == [][VerdictIsExact]_vars

\* The call edits the document as DocumentEditing says: at most one write, of
\* what it made of the document it read and checked.
Writers == {c \in Clients : pc[c] = "put" \/ late[c]}
Promise == INSTANCE DocumentEditing WITH Edit <- Sent, hold <- Writers
ImplementsEditing == Promise!Spec

\* Clients that race on one rule, the only one that may have equal points, never
\* enable it that way, in no order of reads, writes and late writes: what one of
\* them reads it checks together, and documents are written as a whole.
TwoPoints(rule) == rule.start # rule.end
Proper(d) == d.global => \A l \in Lines : TwoPoints(d.rules[l])
OthersDrawn(l, d) == \A m \in Lines \ {l} : TwoPoints(d.rules[m])
RaceOn(l) ==
  /\ \A c \in Clients : arg[c].line = l
  /\ \A d \in Configs : Proper(d) /\ OthersDrawn(l, d)
RacedRuleStaysProper == (\E l \in Lines : RaceOn(l)) => Proper(doc)

\* Every call returns or raises.
CallsEnd == \A c \in Clients : <>(pc[c] = "done")

-----------------------------------------------------------------------------
(* What the repository says and the code does not keep. *)

\* client.py:390, "an enabled line must use two different points".
EnabledLinesHaveTwoPoints == (\A d \in Configs : Proper(d)) => Proper(doc)
=============================================================================
