------------------------ MODULE NetworkConfig_proofs ------------------------
(***************************************************************************)
(* Proofs about NetworkConfig, for any number of clients and any requests  *)
(* and documents: types, that a call which returns was carried out to the  *)
(* letter and is read back so, and that addresses, masks and gateways of   *)
(* different requests are never mixed.                                     *)
(***************************************************************************)
EXTENDS NetworkConfig, TLAPS

\* The document a call writes is a document of the device.
LEMMA SentIsDocument ==
  ASSUME NEW r \in Requests, NEW d \in Document
  PROVE  Sent(r, d) \in Document
<1> DEFINE text == [e \in Texts |-> SetText(r.text[e], d.text[e])]
           mode == SetMode(r.dhcp, d.mode)
<1>1. r \in Request
  BY NetworkAssumption
<1>2. text \in [Texts -> Values \cup {Absent}]
  BY <1>1 DEF Request, Document, SetText
<1>3. mode \in Modes \cup {Absent}
  BY <1>1, NetworkAssumption DEF Document, SetMode
<1>4. d.rest \in Rests
  BY DEF Document
<1> HIDE DEF text, mode
<1>5. [text |-> text, mode |-> mode, rest |-> d.rest] \in Document
  BY <1>2, <1>3, <1>4, Zenon DEF Document
<1>6. QED
  BY <1>5 DEF Sent, text, mode

\* What is sent is what was asked for.
LEMMA SentObeys ==
  ASSUME NEW r \in Requests, NEW d \in Document
  PROVE  Obeys(r, d, Sent(r, d))
<1>1. r \in Request
  BY NetworkAssumption
<1>2. \A e \in Texts :
        Sent(r, d).text[e] = IF r.text[e] = None THEN d.text[e] ELSE r.text[e]
  BY DEF Sent, SetText, SetMode
<1>3. r.dhcp = None => Sent(r, d).mode = d.mode
  BY DEF Sent, SetText, SetMode
<1>4. CASE r.dhcp = TRUE
  BY <1>2, <1>3, <1>4 DEF Sent, SetText, SetMode, Obeys
<1>5. CASE r.dhcp = FALSE
  BY <1>2, <1>3, <1>5 DEF Sent, SetText, SetMode, Obeys
<1>6. CASE r.dhcp = None
  BY <1>2, <1>3, <1>6 DEF Sent, SetText, SetMode, Obeys
<1>7. QED
  BY <1>1, <1>4, <1>5, <1>6 DEF Request

\* And what is stored is what is shown.
LEMMA ShownIsSent ==
  ASSUME NEW r \in Requests, NEW d \in Document, ValidArguments(r)
  PROVE  Shows(r, Shown(Sent(r, d)))
<1> DEFINE new == Sent(r, d)
<1>1. r \in Request /\ Absent \notin Values /\ Absent \notin Modes
  BY NetworkAssumption
<1>e. \A e \in Texts : r.text[e] # Empty
  BY NetworkAssumption DEF ValidArguments
<1>2. ASSUME NEW e \in Texts, r.text[e] # None
      PROVE  Shown(new).text[e] = r.text[e]
  <2>1. r.text[e] \in Values
    BY <1>1, <1>2 DEF Request
  <2>2. new.text[e] = r.text[e]
    BY <1>2 DEF Sent, SetText, SetMode
  <2>3. QED
    BY <1>1, <1>e, <2>1, <2>2 DEF Shown, ShowText
<1>3. ASSUME r.dhcp = TRUE \/ r.dhcp = FALSE, r.dhcp # None
      PROVE  Shown(new).dhcp = r.dhcp
  <2>1. new.mode \in Modes /\ new.mode # Absent /\ new.mode # Empty
    BY <1>1, <1>3, NetworkAssumption DEF Sent, SetText, SetMode
  <2>2. CASE r.dhcp = TRUE
    BY <1>3, <2>1, <2>2 DEF Sent, SetMode, Shown, ShowText
  <2>3. CASE r.dhcp = FALSE
    BY <1>3, <2>1, <2>3 DEF Sent, SetMode, Shown, ShowText
  <2>4. QED
    BY <1>3, <2>2, <2>3
<1>4. r.dhcp # None => r.dhcp = TRUE \/ r.dhcp = FALSE
  BY <1>1 DEF Request
<1>5. QED
  BY <1>2, <1>3, <1>4 DEF Shows

\* What is shown is a value of get_network_config.
LEMMA ShownIsView ==
  ASSUME NEW d \in Document
  PROVE  Shown(d) \in View
<1> DEFINE text == [e \in Texts |-> ShowText(d.text[e])]
           dhcp == IF d.mode \in {Absent, Empty} THEN None ELSE d.mode = "dynamic"
<1>1. text \in [Texts -> Values \cup {None}]
  BY DEF Document, ShowText
<1>2. dhcp \in BOOLEAN \cup {None}
  BY Zenon
<1> HIDE DEF text, dhcp
<1>3. [text |-> text, dhcp |-> dhcp] \in View
  BY <1>1, <1>2, Zenon DEF View
<1>4. QED
  BY <1>3 DEF Shown, text, dhcp
-----------------------------------------------------------------------------
(* The invariant. *)

\* What a call that is about to write, or whose write is on its way, has read.
Sane(c) ==
  /\ late[c] => pc[c] \in {"ended", "done"} /\ outcome[c] # "written"
  /\ pc[c] = "put" \/ late[c] => seen[c] \in Document
  /\ pc[c] \in {"begin", "get", "put"} => outcome[c] = None
  /\ pc[c] \in {"get", "put"} => ValidArguments(arg[c])
AllSane == \A c \in Clients : Sane(c)

\* As long as nobody interferes, the device has what a call has read, and then
\* what it has written.
Kept(c) ==
  ~touched[c] =>
    /\ pc[c] = "put" => doc = seen[c]
    /\ outcome[c] = "written" => Shows(arg[c], Shown(doc))
AllKept == \A c \in Clients : Kept(c)

Invariant == TypeOK /\ AllSane

\* The invariant holds before any call has begun.
LEMMA InitInvariant == Init => Invariant /\ AllKept
<1> SUFFICES ASSUME Init PROVE Invariant /\ AllKept
  OBVIOUS
<1>0. None # "written"
  BY NetworkAssumption DEF Endings
<1>1. DocumentsOK /\ CallsOK
  BY NetworkAssumption DEF Init, DocumentsOK, CallsOK
<1>2. FlagsOK
  BY Zenon DEF Init, FlagsOK
<1>3. AllSane /\ AllKept
  BY <1>0 DEF Init, AllSane, AllKept, Sane, Kept
<1>4. QED
  BY <1>1, <1>2, <1>3 DEF Invariant, TypeOK

\* How a PUT ends.
LEMMA PutEndings ==
  ASSUME NEW o \in Outcomes, NEW a \in BOOLEAN
  PROVE  /\ PutEnding(o, a) \in Endings
         /\ PutEnding(o, a) = "written" => o = "ok" /\ a
         /\ PutEnding(o, a) # None
BY NetworkAssumption DEF PutEnding, Endings, Outcomes

\* Where the device's document may come from in one step.
LEMMA DocSteps ==
  ASSUME Invariant, [Next]_vars
  PROVE  \/ UNCHANGED doc
         \/ doc' \in Configs
         \/ \E c \in Clients : seen[c] \in Document /\ doc' = Sent(arg[c], seen[c])
<1>1. CASE WebEdit
  BY <1>1 DEF WebEdit
<1>2. ASSUME NEW c \in Clients, LateWrite(c)
      PROVE  seen[c] \in Document /\ doc' = Sent(arg[c], seen[c])
  BY <1>2 DEF LateWrite, Invariant, AllSane, Sane
<1>3. ASSUME NEW c \in Clients, Call(c)
      PROVE  UNCHANGED doc \/ (seen[c] \in Document /\ doc' = Sent(arg[c], seen[c]))
  BY <1>3 DEF Call, Begin, ReadFails, Read, Put, Get, GetFails, Invariant,
     AllSane, Sane
<1>4. CASE UNCHANGED vars
  BY <1>4 DEF vars
<1>5. QED
  BY <1>1, <1>2, <1>3, <1>4 DEF Next

\* Documents stay documents, and what is shown a view of one.
LEMMA StepDocuments ==
  ASSUME Invariant, [Next]_vars
  PROVE  DocumentsOK'
<1> USE DEF Invariant, TypeOK, DocumentsOK
<1>1. doc' \in Document
  <2>1. ASSUME NEW c \in Clients, seen[c] \in Document, doc' = Sent(arg[c], seen[c])
        PROVE  doc' \in Document
    BY <2>1, SentIsDocument DEF CallsOK
  <2>2. QED
    BY <2>1, DocSteps, NetworkAssumption
<1>2. seen' \in [Clients -> Document \cup {None}]
  BY DEF Next, WebEdit, LateWrite, vars, Call, Begin, ReadFails, Read, Put, Get,
     GetFails
<1>3. shown' \in [Clients -> View \cup {None}]
  <2>1. ASSUME NEW c \in Clients, Get(c) PROVE shown' \in [Clients -> View \cup {None}]
    BY <2>1, ShownIsView DEF Get
  <2>2. ASSUME ~\E c \in Clients : Get(c) PROVE UNCHANGED shown
    BY <2>2 DEF Next, WebEdit, LateWrite, vars, Call, Begin, ReadFails, Read, Put,
       GetFails
  <2>3. QED
    BY <2>1, <2>2
<1>4. QED
  BY <1>1, <1>2, <1>3

\* So do the other types.
LEMMA StepCalls ==
  ASSUME Invariant, [Next]_vars
  PROVE  CallsOK' /\ FlagsOK'
<1> USE DEF Invariant, TypeOK
<1>1. CallsOK'
  <2> USE DEF CallsOK
  <2>1. CASE WebEdit \/ UNCHANGED vars \/ \E c \in Clients : LateWrite(c)
    BY <2>1 DEF WebEdit, LateWrite, vars
  <2>2. ASSUME NEW c \in Clients, Call(c) PROVE CallsOK'
    <3>1. CASE Begin(c) \/ ReadFails(c) \/ Read(c)
      BY <3>1 DEF Begin, ReadFails, Read, End, Endings, Outcomes
    <3>2. CASE Get(c) \/ GetFails(c)
      BY <3>2 DEF Get, GetFails
    <3>3. ASSUME NEW o \in Outcomes, NEW a \in BOOLEAN, Put(c, o, a) PROVE CallsOK'
      BY <3>3, PutEndings DEF Put, End
    <3>4. QED
      BY <2>2, <3>1, <3>2, <3>3 DEF Call
  <2>3. QED
    BY <2>1, <2>2 DEF Next
<1>2. FlagsOK'
  BY Zenon DEF Next, WebEdit, LateWrite, vars, Call, Begin, ReadFails, Read, Put,
     Get, GetFails, OthersTouched, FlagsOK
<1>3. QED
  BY <1>1, <1>2

\* What a call has read stays what it will write.
LEMMA StepSane ==
  ASSUME Invariant, [Next]_vars
  PROVE  AllSane'
<1> USE DEF Invariant, TypeOK, DocumentsOK, CallsOK, FlagsOK, AllSane, Sane
<1>1. CASE WebEdit \/ UNCHANGED vars \/ \E c \in Clients : LateWrite(c)
  BY <1>1 DEF WebEdit, LateWrite, vars
<1>2. ASSUME NEW c \in Clients, Call(c), NEW x \in Clients
      PROVE  Sane(x)'
  <2>1. CASE Read(c)
    BY <2>1, NetworkAssumption DEF Read, End, Endings
  <2>2. CASE Begin(c) \/ ReadFails(c) \/ Get(c) \/ GetFails(c)
    BY <2>2, NetworkAssumption DEF Begin, ReadFails, Get, GetFails, End, Endings
  <2>3. ASSUME NEW o \in Outcomes, NEW a \in BOOLEAN, Put(c, o, a) PROVE Sane(x)'
    BY <2>3, PutEndings DEF Put, End
  <2>4. QED
    BY <1>2, <2>1, <2>2, <2>3 DEF Call
<1>3. QED
  BY <1>1, <1>2 DEF Next

\* Every step keeps the invariant.
LEMMA StepInvariant == Invariant /\ [Next]_vars => Invariant'
BY StepDocuments, StepCalls, StepSane DEF Invariant, TypeOK

\* It holds throughout.
LEMMA AlwaysInvariant == Spec => []Invariant
<1>1. Init => Invariant
  BY InitInvariant
<1>2. QED
  BY <1>1, StepInvariant, PTL DEF Spec

\* Types of the calls and the document, whatever the clients ask for.
THEOREM NetworkTypeOK == Spec => []TypeOK
<1>1. Invariant => TypeOK
  BY DEF Invariant
<1>2. QED
  BY <1>1, AlwaysInvariant, PTL

-----------------------------------------------------------------------------
(* The write that returned. *)

\* Whoever changes the document, the others know that it was touched.
LEMMA StepKept == Invariant /\ AllKept /\ [Next]_vars => AllKept'
<1> SUFFICES ASSUME Invariant, AllKept, [Next]_vars, NEW x \in Clients
             PROVE  Kept(x)'
  BY DEF AllKept
<1> USE DEF Invariant, TypeOK, DocumentsOK, CallsOK, FlagsOK, Kept
<1>0. Kept(x) /\ Sane(x) /\ AllSane
  BY DEF AllKept, AllSane
<1>1. CASE WebEdit
  BY <1>1 DEF WebEdit
<1>2. ASSUME NEW c \in Clients, LateWrite(c) PROVE Kept(x)'
  BY <1>0, <1>2 DEF LateWrite, OthersTouched, AllSane, Sane
<1>3. ASSUME NEW c \in Clients, Call(c) PROVE Kept(x)'
  <2>1. CASE Read(c)
    BY <1>0, <2>1, NetworkAssumption DEF Read, End, Sane, Endings
  <2>2. CASE Begin(c) \/ ReadFails(c)
    BY <1>0, <2>2 DEF Begin, ReadFails, End, Outcomes
  <2>3. CASE Get(c) \/ GetFails(c)
    BY <1>0, <2>3 DEF Get, GetFails
  <2>4. ASSUME NEW o \in Outcomes, NEW a \in BOOLEAN, Put(c, o, a) PROVE Kept(x)'
    <3>1. CASE doc' = Sent(arg[c], seen[c]) /\ touched' = OthersTouched(c)
      <4>1. CASE x # c
        BY <2>4, <3>1, <4>1 DEF Put, OthersTouched
      <4>2. CASE x = c
        <5>1. Shows(arg[c], Shown(doc'))
          BY <1>0, <2>4, <3>1, ShownIsSent DEF Put, AllSane, Sane
        <5>2. arg' = arg /\ pc'[c] = "ended"
          BY <2>4 DEF Put, End
        <5>3. QED
          BY <4>2, <5>1, <5>2
      <4>3. QED
        BY <4>1, <4>2
    <3>2. CASE ~a /\ UNCHANGED <<doc, touched>>
      BY <1>0, <2>4, <3>2, PutEndings DEF Put, End
    <3>3. CASE o = "unreachable" /\ UNCHANGED <<doc, touched>>
      BY <1>0, <2>4, <3>3, PutEndings DEF Put, End
    <3>4. QED
      BY <2>4, <3>1, <3>2, <3>3 DEF Put
  <2>5. QED
    BY <1>3, <2>1, <2>2, <2>3, <2>4 DEF Call
<1>4. CASE UNCHANGED vars
  BY <1>0, <1>4 DEF vars
<1>5. QED
  BY <1>1, <1>2, <1>3, <1>4 DEF Next

\* A call ends as written only in Put, with an acknowledged document.
LEMMA ReturnStep == Invariant /\ AllKept /\ [Next]_vars => ReturnIsExact
<1> SUFFICES ASSUME Invariant, AllKept, [Next]_vars, NEW c \in Clients,
                    outcome[c] = None, outcome'[c] = "written", ~touched[c]
             PROVE  Obeys(arg[c], doc, doc')
  BY DEF ReturnIsExact
<1> USE DEF Invariant, TypeOK, CallsOK
<1>0. None # "written"
  BY NetworkAssumption DEF Endings
<1>1. PICK o \in Outcomes, a \in BOOLEAN : Put(c, o, a)
  BY <1>0 DEF Next, WebEdit, LateWrite, Call, Begin, ReadFails, Read, Put, Get,
     GetFails, End, Outcomes, vars
<1>2. o = "ok" /\ a
  BY <1>1, PutEndings DEF Put, End
<1>3. doc' = Sent(arg[c], seen[c])
  BY <1>1, <1>2 DEF Put
<1>4. doc = seen[c] /\ doc \in Document
  BY <1>1 DEF AllKept, Kept, Put, DocumentsOK
<1>5. QED
  BY <1>3, <1>4, SentObeys

\* A call that returns changed what it was given and nothing else.
THEOREM NetworkWrittenIsExact == Spec => WrittenIsExact
<1>1. Init => AllKept
  BY InitInvariant
<1>2. QED
  BY <1>1, AlwaysInvariant, StepKept, ReturnStep, PTL DEF Spec, WrittenIsExact

\* Something is shown only in Get, and of the document of the device.
LEMMA ReadBackStep == Invariant /\ AllKept /\ [Next]_vars => ReadBackShows
<1> SUFFICES ASSUME Invariant, AllKept, [Next]_vars, NEW c \in Clients,
                    outcome[c] = "written", ~touched[c], shown[c] = None,
                    shown'[c] # None
             PROVE  Shows(arg[c], shown'[c])
  BY DEF ReadBackShows
<1>1. Get(c)
  BY DEF Next, WebEdit, LateWrite, Call, Begin, ReadFails, Read, Put, Get,
     GetFails, vars, Invariant, TypeOK, DocumentsOK
<1>2. shown'[c] = Shown(doc)
  BY <1>1 DEF Get, Invariant, TypeOK, DocumentsOK
<1>3. QED
  BY <1>2 DEF AllKept, Kept

\* get_network_config shows what set_network_config has written.
THEOREM NetworkReadShowsWrite == Spec => ReadShowsWrite
<1>1. Init => AllKept
  BY InitInvariant
<1>2. QED
  BY <1>1, AlwaysInvariant, StepKept, ReadBackStep, PTL DEF Spec, ReadShowsWrite

-----------------------------------------------------------------------------
(* Address, mask and gateway. *)

\* A document that is sent has all three from its request.
LEMMA SentIsWhole ==
  ASSUME NEW r \in Requests, NEW d \in Document, Whole(r)
  PROVE  Trio(Sent(r, d)) = Trio(r)
BY DEF Whole, Trio, Sent, SetText, Texts

\* Every step leaves the device address, mask and gateway of one document.
LEMMA StepTrio ==
  Invariant /\ TrioFromOne /\ [Next]_vars => TrioFromOne'
<1> SUFFICES ASSUME Invariant, TrioFromOne, [Next]_vars,
                    \A c \in Clients : Whole(arg'[c])
             PROVE  Trio(doc') \in {Trio(x) : x \in Configs \cup {arg'[c] : c \in Clients}}
  BY DEF TrioFromOne, Trios, Trio, Whole
<1>0. arg' = arg
  BY Zenon DEF Next, WebEdit, LateWrite, Call, Begin, ReadFails, Read, Put, Get,
     GetFails, vars
<1>1. CASE UNCHANGED doc
  BY <1>0, <1>1 DEF TrioFromOne, Trios
<1>2. CASE doc' \in Configs
  BY <1>2
<1>3. ASSUME NEW c \in Clients, seen[c] \in Document, doc' = Sent(arg[c], seen[c])
      PROVE  Trio(doc') = Trio(arg[c])
  BY <1>0, <1>3, SentIsWhole DEF Invariant, TypeOK, CallsOK
<1>4. QED
  BY <1>0, <1>1, <1>2, <1>3, DocSteps

\* The three always come from one request or one configuration.
THEOREM NetworkTrioFromOne == Spec => []TrioFromOne
<1>1. Init => TrioFromOne
  BY DEF Init, TrioFromOne, Trios
<1>2. QED
  BY <1>1, AlwaysInvariant, StepTrio, PTL DEF Spec

-----------------------------------------------------------------------------
(* The promise of DocumentEditing. *)

\* A call reads once.
Unread == \A c \in Clients : pc[c] \in {"begin", "get"} => seen[c] = None

\* Every step keeps it: who has not read yet has seen nothing.
LEMMA StepUnread == Invariant /\ Unread /\ [Next]_vars => Unread'
<1> SUFFICES ASSUME Invariant, Unread, [Next]_vars, NEW x \in Clients,
                    pc'[x] \in {"begin", "get"}
             PROVE  seen'[x] = None
  BY DEF Unread
<1> USE DEF Invariant, TypeOK, DocumentsOK, CallsOK, Unread
<1>1. ASSUME NEW c \in Clients, Call(c) PROVE seen'[x] = None
  BY <1>1 DEF Call, Begin, ReadFails, Read, Put, Get, GetFails, End
<1>2. CASE UNCHANGED <<pc, seen>>
  BY <1>2
<1>3. QED
  BY <1>1, <1>2 DEF Next, WebEdit, LateWrite, vars

\* Every step is a step of DocumentEditing, or none of its business.
LEMMA StepEditing ==
  Invariant /\ Unread /\ [Next]_vars => [Promise!Next]_(Promise!vars)
<1> SUFFICES ASSUME Invariant, Unread, [Next]_vars
             PROVE  [Promise!Next]_(Promise!vars)
  OBVIOUS
<1> USE DEF Invariant, TypeOK, DocumentsOK, CallsOK, FlagsOK, Promise!vars
<1>1. CASE WebEdit
  BY <1>1 DEF WebEdit, Writers, Promise!Next, Promise!WebEdit
<1>2. ASSUME NEW c \in Clients, LateWrite(c) PROVE Promise!Write(c)
  <2>1. c \in Writers
    BY <1>2 DEF LateWrite, Writers
  <2>2. Writers' = Writers \ {c}
    BY <1>2 DEF LateWrite, Writers, AllSane, Sane
  <2>3. QED
    BY <1>2, <2>1, <2>2 DEF LateWrite, Promise!Write
<1>3. ASSUME NEW c \in Clients, Read(c) PROVE Promise!Read(c)
  <2>1. seen[c] = None
    BY <1>3 DEF Read, Unread
  <2>2. Writers' \in {Writers, Writers \cup {c}}
    BY <1>3 DEF Read, End, Writers
  <2>3. QED
    BY <1>3, <2>1, <2>2 DEF Read, Promise!Read
<1>4. ASSUME NEW c \in Clients, Begin(c) \/ ReadFails(c) \/ Get(c) \/ GetFails(c)
      PROVE  UNCHANGED Promise!vars
  <2>1. Writers' = Writers
    BY <1>4 DEF Begin, ReadFails, Get, GetFails, End, Writers
  <2>2. QED
    BY <1>4, <2>1 DEF Begin, ReadFails, Get, GetFails
<1>5. ASSUME NEW c \in Clients, NEW o \in Outcomes, NEW a \in BOOLEAN, Put(c, o, a)
      PROVE  [Promise!Next]_(Promise!vars)
  <2>1. c \in Writers /\ pc' = [pc EXCEPT ![c] = "ended"] /\ ~late[c]
    BY <1>5 DEF Put, End, Writers, AllSane, Sane
  <2>2. CASE doc' = Sent(arg[c], seen[c]) /\ UNCHANGED late
    <3>1. Writers' = Writers \ {c}
      BY <2>1, <2>2 DEF Writers
    <3>2. Promise!Write(c)
      BY <1>5, <2>1, <2>2, <3>1 DEF Put, Promise!Write
    <3>3. QED
      BY <3>2 DEF Promise!Next
  <2>3. CASE UNCHANGED <<doc, late>>
    <3>1. Writers' = Writers \ {c}
      BY <2>1, <2>3 DEF Writers
    <3>2. Promise!GiveUp(c)
      BY <1>5, <2>1, <2>3, <3>1 DEF Put, Promise!GiveUp
    <3>3. QED
      BY <3>2 DEF Promise!Next
  <2>4. CASE late' = [late EXCEPT ![c] = TRUE] /\ UNCHANGED doc
    <3>1. Writers' = Writers
      BY <2>1, <2>4 DEF Writers
    <3>2. QED
      BY <1>5, <2>4, <3>1 DEF Put
  <2>5. QED
    BY <1>5, <2>2, <2>3, <2>4 DEF Put
<1>6. CASE UNCHANGED vars
  BY <1>6 DEF vars, Writers
<1>7. QED
  BY <1>1, <1>2, <1>3, <1>4, <1>5, <1>6 DEF Next, Call, Promise!Next

\* Every call writes once at the most, and only what it made of the document it
\* read (client.py:268-328).
THEOREM NetworkImplementsEditing == Spec => ImplementsEditing
<1>1. Init => Promise!Init /\ Unread
  BY DEF Init, Promise!Init, Writers, Unread
<1>2. QED
  BY <1>1, AlwaysInvariant, StepUnread, StepEditing, PTL
  DEF Spec, Promise!Spec, ImplementsEditing
=============================================================================
