------------------------ MODULE LineDetection_proofs ------------------------
(***************************************************************************)
(* Proofs about LineDetection, for any number of clients, any lines,       *)
(* requests and documents: types, the exactness of a verified update, and  *)
(* that a race on one rule does not enable it with equal points.           *)
(***************************************************************************)
EXTENDS LineDetection, TLAPS

\* A record with the right fields is a document.
LEMMA DocumentFields ==
  ASSUME NEW m \in BOOLEAN, NEW g \in BOOLEAN, NEW rs \in [Lines -> Rule]
  PROVE  [multi |-> m, global |-> g, rules |-> rs] \in Document
BY Zenon DEF Document

\* The document a call writes is a document of the device.
LEMMA SentIsDocument ==
  ASSUME NEW r \in Requests, NEW d \in Document, r.line \in Lines
  PROVE  Sent(r, d) \in Document
<1> DEFINE rule == DesiredRule(r, d)
           on == DesiredEnabled(r, d)
<1>1. r \in Request
  BY LineAssumption
<1>2. d.rules \in [Lines -> Rule] /\ d.rules[r.line] \in Rule
  BY DEF Document
<1>3. on \in BOOLEAN
  BY <1>1 DEF DesiredEnabled, Given, Request, Document
<1>4. rule \in Rule
  <2>1. rule.sensitivity \in Int
    BY <1>1, <1>2 DEF DesiredRule, Given, Request, Rule
  <2>2. rule.direction \in STRING
    BY <1>1, <1>2 DEF DesiredRule, Given, Request, Rule
  <2>3. rule.start \in Int /\ rule.end \in Int
    BY <1>1, <1>2 DEF DesiredRule, Given, Request, Rule
  <2>4. QED
    BY <2>1, <2>2, <2>3 DEF DesiredRule, Rule
<1> HIDE DEF rule, on
<1>5. [d.rules EXCEPT ![r.line] = rule] \in [Lines -> Rule]
  BY <1>2, <1>4
<1>6. d.multi \in BOOLEAN
  BY DEF Document
<1>7. [multi |-> d.multi, global |-> on,
       rules |-> [d.rules EXCEPT ![r.line] = rule]] \in Document
  BY <1>3, <1>5, <1>6, DocumentFields
<1>8. QED
  BY <1>7 DEF Sent, on, rule

\* What a call that is about to write, or whose write is on its way, has read.
Sane(c) ==
  /\ late[c] => pc[c] = "done"
  /\ pc[c] \in {"put", "verify"} \/ late[c] =>
       /\ seen[c] \in Document /\ arg[c].line \in Lines
       /\ Acceptable(arg[c], seen[c])
AllSane == \A c \in Clients : Sane(c)

\* As long as nobody interferes, the other rules are those it has read.
Kept(c) ==
  pc[c] \in {"put", "verify"} /\ ~touched[c] =>
    \A l \in Lines \ {arg[c].line} : doc.rules[l] = seen[c].rules[l]
AllKept == \A c \in Clients : Kept(c)

Invariant == TypeOK /\ AllSane

\* The invariant holds before any call has begun.
LEMMA InitInvariant == Init => Invariant /\ AllKept
<1> SUFFICES ASSUME Init PROVE Invariant /\ AllKept
  OBVIOUS
<1>1. doc \in Document /\ PerClientOK
  BY LineAssumption DEF Init, PerClientOK
<1>2. FlagsOK
  BY Zenon DEF Init, FlagsOK
<1>3. AllSane /\ AllKept
  BY DEF Init, AllSane, AllKept, Sane, Kept
<1>4. QED
  BY <1>1, <1>2, <1>3 DEF Invariant, TypeOK

\* Where the device's document may come from in one step.
LEMMA DocSteps ==
  ASSUME Invariant, [Next]_vars
  PROVE  \/ UNCHANGED doc
         \/ doc' \in Configs
         \/ \E c \in Clients : Sane(c) /\ (pc[c] = "put" \/ late[c])
                               /\ doc' = Sent(arg[c], seen[c])
<1>1. CASE WebEdit
  BY <1>1 DEF WebEdit
<1>2. ASSUME NEW c \in Clients, LateWrite(c)
      PROVE  Sane(c) /\ late[c] /\ doc' = Sent(arg[c], seen[c])
  BY <1>2 DEF LateWrite, Invariant, AllSane
<1>3. ASSUME NEW c \in Clients, Call(c)
      PROVE  \/ UNCHANGED doc
             \/ Sane(c) /\ pc[c] = "put" /\ doc' = Sent(arg[c], seen[c])
  BY <1>3 DEF Call, Begin, ReadFails, Refuse, Proceed, Put, VerifyFails, Verify,
     Invariant, AllSane
<1>4. CASE UNCHANGED vars
  BY <1>4 DEF vars
<1>5. QED
  BY <1>1, <1>2, <1>3, <1>4 DEF Next

\* A document stays one.
LEMMA StepDocument ==
  ASSUME Invariant, [Next]_vars
  PROVE  doc' \in Document
<1> doc \in Document
  BY DEF Invariant, TypeOK
<1>1. CASE doc' \in Configs
  BY <1>1, LineAssumption
<1>2. ASSUME NEW c \in Clients, Sane(c), pc[c] = "put" \/ late[c],
             doc' = Sent(arg[c], seen[c])
      PROVE  doc' \in Document
  BY <1>2, SentIsDocument DEF Sane, Invariant, TypeOK, PerClientOK
<1>3. QED
  BY <1>1, <1>2, DocSteps

\* So do the other types.
LEMMA StepPerClient ==
  ASSUME Invariant, [Next]_vars
  PROVE  PerClientOK' /\ FlagsOK'
<1> USE DEF Invariant, TypeOK
<1>1. PerClientOK'
  <2>1. CASE WebEdit \/ UNCHANGED vars \/ \E c \in Clients : LateWrite(c)
    BY <2>1 DEF WebEdit, LateWrite, vars, PerClientOK
  <2>2. ASSUME NEW c \in Clients, Call(c) PROVE PerClientOK'
    <3>1. CASE Proceed(c)
      BY <3>1 DEF Proceed, End, Endings, PerClientOK
    <3>2. CASE Begin(c) \/ ReadFails(c) \/ Refuse(c)
      BY <3>2 DEF Begin, ReadFails, Refuse, End, Endings, Outcomes, PerClientOK
    <3>3. ASSUME NEW o \in Outcomes, Put(c, o) PROVE PerClientOK'
      BY <3>3 DEF Put, Accepted, End, Endings, Outcomes, PerClientOK
    <3>4. CASE VerifyFails(c) \/ Verify(c)
      BY <3>4 DEF VerifyFails, Verify, End, Endings, Outcomes, PerClientOK
    <3>5. QED
      BY <2>2, <3>1, <3>2, <3>3, <3>4 DEF Call
  <2>3. QED
    BY <2>1, <2>2 DEF Next
<1>2. FlagsOK'
  BY Zenon DEF Next, WebEdit, LateWrite, vars, Call, Begin, ReadFails, Refuse,
     Proceed, Put, VerifyFails, Verify, OthersTouched, FlagsOK
<1>3. QED
  BY <1>1, <1>2

\* What a call has read and accepted stays what it will write.
LEMMA StepSane ==
  ASSUME Invariant, [Next]_vars
  PROVE  AllSane'
<1> USE DEF Invariant, TypeOK, PerClientOK, FlagsOK, AllSane, Sane
<1>1. CASE WebEdit \/ UNCHANGED vars \/ \E c \in Clients : LateWrite(c)
  BY <1>1 DEF WebEdit, LateWrite, vars
<1>2. ASSUME NEW c \in Clients, Call(c), NEW x \in Clients
      PROVE  Sane(x)'
  <2>1. CASE Proceed(c)
    BY <2>1 DEF Proceed, Readable, End
  <2>2. CASE ~Proceed(c)
    BY <1>2, <2>2 DEF Call, Begin, ReadFails, Refuse, Put, VerifyFails, Verify,
       End, Accepted
  <2>3. QED
    BY <2>1, <2>2
<1>3. QED
  BY <1>1, <1>2 DEF Next

\* Every step keeps the invariant.
LEMMA StepInvariant == Invariant /\ [Next]_vars => Invariant'
BY StepDocument, StepPerClient, StepSane DEF Invariant, TypeOK

\* It holds throughout.
LEMMA AlwaysInvariant == Spec => []Invariant
<1>1. Init => Invariant
  BY InitInvariant
<1>2. QED
  BY <1>1, StepInvariant, PTL DEF Spec

\* Types of the calls and the document, whatever the clients ask for.
THEOREM LineTypeOK == Spec => []TypeOK
<1>1. Invariant => TypeOK
  BY DEF Invariant
<1>2. QED
  BY <1>1, AlwaysInvariant, PTL

-----------------------------------------------------------------------------
(* Races on one rule. *)

\* While all clients race on rule l, the other rules of every document, on the
\* device or read by a client, have two points.
RaceInv(l) ==
  RaceOn(l) =>
    /\ Proper(doc) /\ OthersDrawn(l, doc)
    /\ \A c \in Clients : seen[c] \in Document => OthersDrawn(l, seen[c])

\* What a call writes is proper: the other rules have two points, and its own
\* was checked together with the switch.
LEMMA SentIsProper ==
  ASSUME NEW r \in Requests, NEW d \in Document, r.line \in Lines,
         Acceptable(r, d), OthersDrawn(r.line, d)
  PROVE  Proper(Sent(r, d)) /\ OthersDrawn(r.line, Sent(r, d))
<1>1. \A l \in Lines \ {r.line} : Sent(r, d).rules[l] = d.rules[l]
  BY DEF Sent, Document
<1>2. Sent(r, d).rules[r.line] = DesiredRule(r, d)
  BY DEF Sent, Document
<1>3. Sent(r, d).global => TwoPoints(DesiredRule(r, d))
  BY DEF Sent, Acceptable, TwoPoints
<1>4. QED
  BY <1>1, <1>2, <1>3 DEF Proper, OthersDrawn

\* Arguments are fixed, and what a client reads is the document on the device.
LEMMA ReadSteps ==
  ASSUME Invariant, [Next]_vars
  PROVE  /\ arg' = arg
         /\ \A c \in Clients : seen'[c] = seen[c] \/ seen'[c] = doc
<1> USE DEF Invariant, TypeOK, PerClientOK
<1>1. ASSUME NEW c \in Clients, Proceed(c)
      PROVE  arg' = arg /\ \A x \in Clients : seen'[x] = seen[x] \/ seen'[x] = doc
  BY <1>1 DEF Proceed
<1>2. CASE UNCHANGED <<arg, seen>>
  BY <1>2
<1>3. UNCHANGED <<arg, seen>> \/ \E c \in Clients : Proceed(c)
  BY DEF Next, WebEdit, LateWrite, Call, Begin, ReadFails, Refuse, Put,
     VerifyFails, Verify, vars
<1>4. QED
  BY <1>1, <1>2, <1>3

\* One step of a race leaves every document proper.
LEMMA StepRace ==
  ASSUME Invariant, [Next]_vars, NEW l \in Lines, RaceInv(l)
  PROVE  RaceInv(l)'
<1> SUFFICES ASSUME RaceOn(l)'
             PROVE  /\ Proper(doc)' /\ OthersDrawn(l, doc)'
                    /\ \A c \in Clients :
                         seen'[c] \in Document => OthersDrawn(l, seen'[c])
  BY DEF RaceInv, OthersDrawn
<1>1. RaceOn(l)
  BY ReadSteps DEF RaceOn, Proper, OthersDrawn
<1>2. /\ Proper(doc) /\ OthersDrawn(l, doc)
      /\ \A c \in Clients : seen[c] \in Document => OthersDrawn(l, seen[c])
  BY <1>1 DEF RaceInv
<1>3. \A c \in Clients : seen'[c] \in Document => OthersDrawn(l, seen'[c])
  BY <1>2, ReadSteps
<1>4. Proper(doc)' /\ OthersDrawn(l, doc)'
  <2>1. CASE UNCHANGED doc
    BY <1>2, <2>1 DEF Proper, OthersDrawn
  <2>2. CASE doc' \in Configs
    BY <1>1, <2>2 DEF RaceOn, Proper, OthersDrawn
  <2>3. ASSUME NEW c \in Clients, Sane(c), pc[c] = "put" \/ late[c],
               doc' = Sent(arg[c], seen[c])
        PROVE  Proper(doc)' /\ OthersDrawn(l, doc)'
    <3>1. arg[c] \in Requests /\ arg[c].line = l
      BY <1>1 DEF RaceOn, Invariant, TypeOK, PerClientOK
    <3>2. seen[c] \in Document /\ Acceptable(arg[c], seen[c])
      BY <2>3 DEF Sane
    <3>3. Proper(Sent(arg[c], seen[c])) /\ OthersDrawn(l, Sent(arg[c], seen[c]))
      BY <1>2, <3>1, <3>2, SentIsProper
    <3>4. QED
      BY <2>3, <3>3 DEF Proper, OthersDrawn
  <2>4. QED
    BY <2>1, <2>2, <2>3, DocSteps
<1>5. QED
  BY <1>3, <1>4

\* A race of any number of clients on one rule, the only one that may have equal
\* points, never enables it that way (client.py:370-391).
THEOREM LineRacedRuleStaysProper == Spec => []RacedRuleStaysProper
<1> DEFINE Races == \A l \in Lines : RaceInv(l)
<1>1. Init => Races
  <2> SUFFICES ASSUME Init, NEW l \in Lines, RaceOn(l)
               PROVE  /\ Proper(doc) /\ OthersDrawn(l, doc)
                      /\ \A c \in Clients :
                           seen[c] \in Document => OthersDrawn(l, seen[c])
    BY DEF RaceInv
  <2>1. doc \in Configs /\ \A c \in Clients : seen[c] \notin Document
    BY LineAssumption DEF Init
  <2>2. QED
    BY <2>1 DEF RaceOn
<1>2. Invariant /\ Races /\ [Next]_vars => Races'
  BY StepRace
<1>3. Races => RacedRuleStaysProper
  BY DEF RaceInv, RacedRuleStaysProper
<1> HIDE DEF Races
<1>4. QED
  BY <1>1, <1>2, <1>3, AlwaysInvariant, PTL DEF Spec

-----------------------------------------------------------------------------
(* The verified update. *)

\* Whoever changes the document, the others know that it was touched.
LEMMA StepKept == Invariant /\ AllKept /\ [Next]_vars => AllKept'
<1> SUFFICES ASSUME Invariant, AllKept, [Next]_vars, NEW x \in Clients
             PROVE  Kept(x)'
  BY DEF AllKept
<1> USE DEF Invariant, TypeOK, PerClientOK, FlagsOK, Kept
<1>0. Kept(x) /\ Sane(x)
  BY DEF AllKept, AllSane
<1>1. CASE WebEdit
  BY <1>1 DEF WebEdit
<1>2. ASSUME NEW c \in Clients, LateWrite(c) PROVE Kept(x)'
  BY <1>0, <1>2 DEF LateWrite, OthersTouched, AllSane, Sane
<1>3. ASSUME NEW c \in Clients, Call(c) PROVE Kept(x)'
  <2>1. CASE Proceed(c)
    BY <1>0, <2>1 DEF Proceed, Readable, End
  <2>2. CASE Begin(c) \/ ReadFails(c) \/ Refuse(c) \/ VerifyFails(c) \/ Verify(c)
    BY <1>0, <2>2 DEF Begin, ReadFails, Refuse, VerifyFails, Verify, End
  <2>3. ASSUME NEW o \in Outcomes, Put(c, o) PROVE Kept(x)'
    <3>1. CASE UNCHANGED doc /\ UNCHANGED touched
      BY <1>0, <2>3, <3>1 DEF Put, Accepted, End
    <3>2. CASE doc' = Sent(arg[c], seen[c]) /\ touched' = OthersTouched(c)
      <4>1. CASE x # c
        BY <2>3, <3>2, <4>1 DEF Put, OthersTouched
      <4>2. CASE x = c
        <5>1. Sent(arg[c], seen[c]) \in Document /\ seen[c] \in Document
          BY <1>0, <2>3, <4>2, SentIsDocument DEF Put, Sane
        <5>2. doc'.rules = Sent(arg[c], seen[c]).rules
          BY <3>2
        <5>3. \A l \in Lines \ {arg[c].line} : doc'.rules[l] = seen[c].rules[l]
          BY <5>1, <5>2 DEF Sent, Document
        <5>4. QED
          BY <2>3, <4>2, <5>3 DEF Put
      <4>3. QED
        BY <4>1, <4>2
    <3>3. QED
      BY <2>3, <3>1, <3>2 DEF Put
  <2>4. QED
    BY <1>3, <2>1, <2>2, <2>3 DEF Call
<1>4. CASE UNCHANGED vars
  BY <1>0, <1>4 DEF vars
<1>5. QED
  BY <1>1, <1>2, <1>3, <1>4 DEF Next

\* A call ends as verified only in Verify, on a document that shows its wish.
LEMMA VerdictStep ==
  Invariant /\ AllKept /\ [Next]_vars => VerdictIsExact
<1> SUFFICES ASSUME Invariant, AllKept, [Next]_vars, NEW c \in Clients,
                    outcome[c] = None, outcome'[c] = "verified", ~touched[c]
             PROVE  Obeys(arg[c], seen[c], doc)
  BY DEF VerdictIsExact
<1> USE DEF Invariant, TypeOK, PerClientOK
<1>0. None # "verified"
  BY LineAssumption DEF Endings
<1>1. Verify(c) /\ ShowsDesired(c)
  BY <1>0 DEF Next, WebEdit, LateWrite, Call, Begin, ReadFails, Refuse, Proceed,
     Put, Accepted, VerifyFails, Verify, End, Outcomes, vars
<1>2. Kept(c) /\ Sane(c) /\ pc[c] = "verify"
  BY <1>1 DEF AllKept, AllSane, Verify
<1>3. \A l \in Lines \ {arg[c].line} : doc.rules[l] = seen[c].rules[l]
  BY <1>2 DEF Kept
<1>4. doc.global = Given(arg[c].enabled, seen[c].global)
  BY <1>1 DEF ShowsDesired, DesiredEnabled
<1>5. doc.rules[arg[c].line] = DesiredRule(arg[c], seen[c])
  BY <1>1 DEF ShowsDesired
<1>6. \A f \in {"sensitivity", "direction", "start", "end"} :
        DesiredRule(arg[c], seen[c])[f]
          = Given(arg[c][f], seen[c].rules[arg[c].line][f])
  BY DEF DesiredRule
<1>7. QED
  BY <1>3, <1>4, <1>5, <1>6 DEF Obeys

\* A verified update without interference is exactly what was asked for.
THEOREM LineVerifiedIsExact == Spec => VerifiedIsExact
<1>1. Init => AllKept
  BY InitInvariant
<1>2. QED
  BY <1>1, AlwaysInvariant, StepKept, VerdictStep, PTL DEF Spec, VerifiedIsExact

-----------------------------------------------------------------------------
(* The promise of DocumentEditing. *)

\* A call reads once.
Unread == \A c \in Clients : pc[c] \in {"begin", "get"} => seen[c] = None

\* Every step keeps it: who has not read yet has seen nothing.
LEMMA StepUnread == Invariant /\ Unread /\ [Next]_vars => Unread'
<1> SUFFICES ASSUME Invariant, Unread, [Next]_vars, NEW x \in Clients,
                    pc'[x] \in {"begin", "get"}
             PROVE  seen'[x] = None
  BY DEF Unread
<1> USE DEF Invariant, TypeOK, PerClientOK, Unread
<1>1. ASSUME NEW c \in Clients, Call(c) PROVE seen'[x] = None
  BY <1>1 DEF Call, Begin, ReadFails, Refuse, Proceed, Readable, Put, Accepted,
     VerifyFails, Verify, End
<1>2. CASE UNCHANGED <<pc, seen>>
  BY <1>2
<1>3. QED
  BY <1>1, <1>2 DEF Next, WebEdit, LateWrite, vars

\* Every step is a step of DocumentEditing, or none of its business.
LEMMA StepEditing ==
  Invariant /\ Unread /\ [Next]_vars => [Promise!Next]_(Promise!vars)
<1> SUFFICES ASSUME Invariant, Unread, [Next]_vars
             PROVE  [Promise!Next]_(Promise!vars)
  OBVIOUS
<1> USE DEF Invariant, TypeOK, PerClientOK, FlagsOK, Promise!vars
<1>1. CASE WebEdit
  BY <1>1 DEF WebEdit, Writers, Promise!Next, Promise!WebEdit
<1>2. ASSUME NEW c \in Clients, LateWrite(c) PROVE Promise!Write(c)
  <2>1. c \in Writers
    BY <1>2 DEF LateWrite, Writers
  <2>2. Writers' = Writers \ {c}
    BY <1>2 DEF LateWrite, Writers, AllSane, Sane
  <2>3. QED
    BY <1>2, <2>1, <2>2 DEF LateWrite, Promise!Write
<1>3. ASSUME NEW c \in Clients, Proceed(c) PROVE Promise!Read(c)
  <2>1. seen[c] = None
    BY <1>3 DEF Proceed, Readable, Unread
  <2>2. Writers' \in {Writers, Writers \cup {c}}
    BY <1>3 DEF Proceed, Readable, End, Writers
  <2>3. QED
    BY <1>3, <2>1, <2>2 DEF Proceed, Promise!Read
<1>4. ASSUME NEW c \in Clients,
             \/ Begin(c) \/ ReadFails(c) \/ Refuse(c)
             \/ VerifyFails(c) \/ Verify(c)
      PROVE  UNCHANGED Promise!vars
  <2>1. Writers' = Writers
    BY <1>4 DEF Begin, ReadFails, Refuse, Readable, VerifyFails, Verify, End,
       Writers
  <2>2. QED
    BY <1>4, <2>1 DEF Begin, ReadFails, Refuse, VerifyFails, Verify
<1>5. ASSUME NEW c \in Clients, NEW o \in Outcomes, Put(c, o)
      PROVE  [Promise!Next]_(Promise!vars)
  <2>1. c \in Writers /\ ~late[c] /\ UNCHANGED <<arg, seen>>
    BY <1>5 DEF Put, Writers, AllSane, Sane
  <2>2. \E p \in {"verify", "done"} : pc' = [pc EXCEPT ![c] = p]
    BY <1>5 DEF Put, Accepted, End
  <2>3. CASE doc' = Sent(arg[c], seen[c]) /\ UNCHANGED late
    <3>1. Writers' = Writers \ {c}
      BY <2>1, <2>2, <2>3 DEF Writers
    <3>2. Promise!Write(c)
      BY <2>1, <2>3, <3>1 DEF Promise!Write
    <3>3. QED
      BY <3>2 DEF Promise!Next
  <2>4. CASE UNCHANGED <<doc, late>>
    <3>1. Writers' = Writers \ {c}
      BY <2>1, <2>2, <2>4 DEF Writers
    <3>2. Promise!GiveUp(c)
      BY <2>1, <2>4, <3>1 DEF Promise!GiveUp
    <3>3. QED
      BY <3>2 DEF Promise!Next
  <2>5. CASE late' = [late EXCEPT ![c] = TRUE] /\ UNCHANGED doc
    <3>1. Writers' = Writers
      BY <2>1, <2>2, <2>5 DEF Writers
    <3>2. QED
      BY <2>1, <2>5, <3>1
  <2>6. QED
    BY <1>5, <2>3, <2>4, <2>5 DEF Put
<1>6. CASE UNCHANGED vars
  BY <1>6 DEF vars, Writers
<1>7. QED
  BY <1>1, <1>2, <1>3, <1>4, <1>5, <1>6 DEF Next, Call, Promise!Next

\* Every call writes once at the most, and only what it made of the document it
\* read and checked (client.py:362-458).
THEOREM LineImplementsEditing == Spec => ImplementsEditing
<1>1. Init => Promise!Init /\ Unread
  BY DEF Init, Promise!Init, Writers, Unread
<1>2. QED
  BY <1>1, AlwaysInvariant, StepUnread, StepEditing, PTL
  DEF Spec, Promise!Spec, ImplementsEditing
=============================================================================
