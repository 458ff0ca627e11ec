--------------------------- MODULE Accounts_proofs ---------------------------
(***************************************************************************)
(* Proofs about Accounts, for any clients, accounts, passwords and logins: *)
(* types, what a refused call leaves behind, that a changed password shuts *)
(* out everybody who holds the old one, and which account is written to.   *)
(***************************************************************************)
EXTENDS Accounts, TLAPS

\* What a call has done by the time it is at each point, that a write that was
\* carried out left its id without any first password, and that a call which is
\* about to write has picked what was asked for.
CallInv(c) ==
  /\ pc[c] \in {"users", "list", "put"} => c \notin applied /\ ~late[c]
  /\ pc[c] = "capabilities" => ~late[c]
  /\ outcome[c] # None <=> pc[c] = "done"
  /\ late[c] => outcome[c] = "unreachable"
  /\ outcome[c] \in SureEndings => c \notin applied
  /\ c \in applied => target[c] \in Ids
  /\ c \in applied /\ NobodyRestores =>
       \A n \in Names : password[target[c]] # Initial[n]
PickInv(c) == c \in fresh /\ (pc[c] = "put" \/ late[c]) => target[c] \in Asked(c)
AllCalls == \A c \in Clients : CallInv(c)
AllPicks == \A c \in Clients : PickInv(c)

Invariant == TypeOK /\ AllCalls /\ AllPicks

\* The invariant holds before any call has begun.
LEMMA InitInvariant == Init => Invariant
<1> SUFFICES ASSUME Init PROVE Invariant
  OBVIOUS
<1>1. /\ late \in [Clients -> BOOLEAN]
      /\ \A c \in Clients : ~late[c]
  BY Zenon DEF Init
<1>2. DeviceOK
  BY AccountsAssumption DEF Init, DeviceOK, Present
<1>3. TypeOK
  <2>1. Selectors \cup {NoSelector} \subseteq [id : Ids \cup {None}, name : Names \cup {None}]
    BY AccountsAssumption DEF NoSelector
  <2>2. selector \in [Clients -> [id : Ids \cup {None}, name : Names \cup {None}]]
    BY <2>1 DEF Init
  <2>3. QED
    BY <1>1, <1>2, <2>2 DEF Init, TypeOK, PickedOK, Versions
<1>4. AllCalls
  BY <1>1, AccountsAssumption DEF Init, AllCalls, CallInv, SureEndings, Endings
<1>5. AllPicks
  BY DEF Init, AllPicks, PickInv
<1>6. QED
  BY <1>3, <1>4, <1>5 DEF Invariant

\* Carrying out a write sets the password of an account, and may give it the
\* name the client has seen.
LEMMA ApplyFacts ==
  ASSUME Invariant, NEW c \in Clients, target[c] \in Ids, wanted[c] \in Names,
         Apply(c)
  PROVE  /\ DeviceOK'
         /\ applied' = applied \cup {c} /\ applied' \subseteq Clients
         /\ fresh' \subseteq Clients
         /\ password'[target[c]] = NewPassword[c]
         /\ \A i \in Ids : i # target[c] => password'[i] = password[i]
         /\ name' = name \/ fresh' = {}
<1> USE AccountsAssumption DEF Apply, Invariant, TypeOK, DeviceOK, Present, Named
<1>1. CASE UNCHANGED <<name, fresh>>
  BY <1>1
<1>2. CASE /\ Named(wanted[c]) = {} /\ fresh' = {}
           /\ name' = [name EXCEPT ![target[c]] = wanted[c]]
  <2>1. /\ name' \in [Ids -> Names \cup {None}]
        /\ password' \in [Ids -> Passwords \cup {None}]
        /\ \A i \in Ids : password'[i] = None <=> name'[i] = None
    BY <1>2
  <2>2. ASSUME NEW i \in Ids, NEW j \in Ids, name'[i] # None, name'[i] = name'[j]
        PROVE  i = j
    BY <1>2, <2>2
  <2>3. DeviceOK'
    BY <2>1, <2>2
  <2>4. QED
    BY <1>2, <2>3
<1>3. QED
  BY <1>1, <1>2

\* No step breaks the types.
LEMMA StepType == Invariant /\ [Next]_vars => TypeOK'
<1> SUFFICES ASSUME Invariant, [Next]_vars PROVE TypeOK'
  OBVIOUS
<1> USE DEF Invariant, TypeOK, PickedOK, device, picked
<1>0. ASSUME UNCHANGED <<name, password>> PROVE DeviceOK'
  BY <1>0 DEF DeviceOK, Present
<1>1. ASSUME NEW c \in Clients, ListFails(c) PROVE TypeOK'
  BY <1>0, <1>1 DEF ListFails, End, Endings
<1>2. ASSUME NEW c \in Clients, GetUsers(c) PROVE TypeOK'
  <2>1. PICK i \in Present :
          /\ selector' = [selector EXCEPT ![c] = [id |-> i, name |-> None]]
          /\ wanted' = [wanted EXCEPT ![c] = name[i]]
    BY <1>2 DEF GetUsers
  <2>2. i \in Ids /\ name[i] \in Names
    BY DEF Present, DeviceOK
  <2>3. /\ selector' \in [Clients -> [id : Ids \cup {None}, name : Names \cup {None}]]
        /\ wanted' \in [Clients -> Names \cup {None}]
    BY <2>1, <2>2
  <2>4. pc' \in [Clients -> {"users", "list", "put", "capabilities", "done"}]
    BY <1>2 DEF GetUsers
  <2>5. PickedOK'
    BY <1>2, <2>1, <2>2, <2>3 DEF GetUsers, AllCalls, CallInv
  <2>6. QED
    BY <1>0, <1>2, <2>3, <2>4, <2>5 DEF GetUsers
<1>3. ASSUME NEW c \in Clients, PickUser(c) PROVE TypeOK'
  <2>1. PICK shown \in SUBSET Present :
          /\ \/ /\ SelectUser(c, shown) = {} /\ End(c, "not_found")
                /\ UNCHANGED <<target, wanted>>
             \/ /\ \E i \in SelectUser(c, shown) : Pick(c, i)
                /\ \/ pc' = [pc EXCEPT ![c] = "put"] /\ UNCHANGED outcome
                   \/ End(c, "xml")
          /\ sole' \subseteq sole \cup {c}
    BY <1>3 DEF PickUser
  <2>2. \A i \in SelectUser(c, shown) : i \in Ids /\ name[i] \in Names
    BY DEF SelectUser, Present, DeviceOK
  <2>3. /\ DeviceOK' /\ sole' \subseteq Clients /\ fresh' \subseteq Clients
        /\ applied' \subseteq Clients
    BY <1>0, <1>3, <2>1 DEF PickUser
  <2>4. CASE UNCHANGED <<target, wanted>> /\ End(c, "not_found")
    BY <1>3, <2>3, <2>4 DEF PickUser, End, Endings
  <2>5. ASSUME NEW i \in SelectUser(c, shown), Pick(c, i),
               \/ pc' = [pc EXCEPT ![c] = "put"] /\ UNCHANGED outcome
               \/ End(c, "xml")
        PROVE  TypeOK'
    <3>1. /\ target' \in [Clients -> Ids \cup {None}]
          /\ wanted' \in [Clients -> Names \cup {None}]
          /\ target'[c] \in Ids /\ wanted'[c] \in Names
          /\ \A d \in Clients : d # c =>
               target'[d] = target[d] /\ wanted'[d] = wanted[d]
      BY <2>2, <2>5 DEF Pick
    <3>2. /\ pc' \in [Clients -> {"users", "list", "put", "capabilities", "done"}]
          /\ outcome' \in [Clients -> Endings \cup {None}]
          /\ \A d \in Clients : d # c => pc'[d] = pc[d]
      BY <2>5 DEF End, Endings
    <3>3. PickedOK'
      BY <1>3, <3>1, <3>2 DEF PickUser
    <3>4. QED
      BY <1>3, <2>3, <3>1, <3>2, <3>3 DEF PickUser
  <2>6. QED
    BY <2>1, <2>4, <2>5
<1>4. ASSUME NEW c \in Clients, NEW o \in Outcomes, Put(c, o) PROVE TypeOK'
  <2>1. /\ DeviceOK' /\ applied' \subseteq Clients /\ fresh' \subseteq Clients
    BY <1>0, <1>4, ApplyFacts DEF Put
  <2>2. late' \in [Clients -> BOOLEAN]
    BY <1>4, Zenon DEF Put
  <2>3. /\ pc' \in [Clients -> {"users", "list", "put", "capabilities", "done"}]
        /\ outcome' \in [Clients -> Endings \cup {None}]
        /\ putEnd' \in [Clients -> Outcomes \cup {None}]
    BY <1>4 DEF Put, AfterPut, End, Endings
  <2>4. PickedOK'
    BY <1>4 DEF Put, AfterPut, End
  <2>5. QED
    BY <1>4, <2>1, <2>2, <2>3, <2>4 DEF Put
<1>5. ASSUME NEW c \in Clients, NEW v \in Versions, Capabilities(c, v)
      PROVE  TypeOK'
  BY <1>0, <1>5 DEF Capabilities, End, Endings, Outcomes
<1>6. ASSUME NEW c \in Clients, LateApply(c) PROVE TypeOK'
  <2>1. /\ DeviceOK' /\ applied' \subseteq Clients /\ fresh' \subseteq Clients
    BY <1>6, ApplyFacts DEF LateApply
  <2>2. late' \in [Clients -> BOOLEAN]
    BY <1>6, Zenon DEF LateApply
  <2>3. QED
    BY <1>6, <2>1, <2>2 DEF LateApply
<1>7. ASSUME NEW i \in Ids, Web(i) PROVE TypeOK'
  <2>1. WebPasswords \subseteq Passwords /\ None \notin Names /\ None \notin Passwords
    BY AccountsAssumption
  <2>2. ASSUME WebPassword(i) PROVE DeviceOK'
    <3>1. name' = name /\ name[i] # None /\ password' \in [Ids -> Passwords \cup {None}]
      BY <2>1, <2>2 DEF WebPassword, Present, DeviceOK
    <3>2. password'[i] # None /\ \A j \in Ids : j # i => password'[j] = password[j]
      BY <2>1, <2>2 DEF WebPassword, DeviceOK
    <3>3. QED
      BY <3>1, <3>2 DEF DeviceOK, Present
  <2>3. ASSUME WebEdit(i) PROVE DeviceOK'
    <3>1. \A j \in Ids : j # i => name'[j] = name[j] /\ password'[j] = password[j]
      BY <2>3 DEF WebEdit, DeviceOK
    <3>2. /\ name' \in [Ids -> Names \cup {None}]
          /\ password' \in [Ids -> Passwords \cup {None}]
      BY <2>1, <2>3 DEF WebEdit, DeviceOK
    <3>3. \/ name'[i] = None /\ password'[i] = None
          \/ /\ name'[i] # None /\ password'[i] # None
             /\ \A j \in Ids : name[j] # name'[i]
      BY <2>1, <2>3 DEF WebEdit, DeviceOK, Named
    <3>4. \A j \in Ids : password'[j] = None <=> name'[j] = None
      BY <3>1, <3>3 DEF DeviceOK
    <3>5. ASSUME NEW j \in Ids, NEW k \in Ids, name'[j] # None, name'[j] = name'[k]
          PROVE  j = k
      BY <3>1, <3>3, <3>5 DEF DeviceOK, Present
    <3>6. QED
      BY <3>2, <3>4, <3>5 DEF DeviceOK, Present
  <2>4. DeviceOK'
    BY <1>7, <2>2, <2>3 DEF Web
  <2>5. QED
    BY <1>7, <2>4 DEF Web, WebPassword, WebEdit
<1>8. CASE UNCHANGED vars
  BY <1>0, <1>8 DEF vars
<1>9. QED
  BY <1>1, <1>2, <1>3, <1>4, <1>5, <1>6, <1>7, <1>8 DEF Next, Call

\* Nor what is known of the calls.  A write that is carried out may change the
\* password of an account that another write has changed before, but not back.
LEMMA StepCalls == Invariant /\ [Next]_vars => AllCalls'
<1> SUFFICES ASSUME Invariant, [Next]_vars, NEW x \in Clients
             PROVE  CallInv(x)'
  BY DEF AllCalls
<1> USE DEF Invariant, TypeOK, PickedOK, AllCalls, CallInv, SureEndings, device,
        picked
<1>0. None \notin Endings \cup Passwords
  BY AccountsAssumption
<1>1. ASSUME NEW c \in Clients, ListFails(c) PROVE CallInv(x)'
  BY <1>0, <1>1 DEF ListFails, End, Endings, NobodyRestores
<1>2. ASSUME NEW c \in Clients, GetUsers(c) PROVE CallInv(x)'
  BY <1>0, <1>2 DEF GetUsers, NobodyRestores
<1>3. ASSUME NEW c \in Clients, PickUser(c) PROVE CallInv(x)'
  <2>1. /\ \A d \in Clients : d # c =>
             pc'[d] = pc[d] /\ outcome'[d] = outcome[d] /\ target'[d] = target[d]
        /\ \/ pc'[c] = "put" /\ outcome'[c] = outcome[c]
           \/ pc'[c] = "done" /\ outcome'[c] \in {"not_found", "xml"}
        /\ UNCHANGED <<password, applied, late>> /\ pc[c] = "list"
    BY <1>3 DEF PickUser, Pick, End
  <2>2. QED
    BY <1>0, <2>1 DEF Endings, NobodyRestores
<1>4. ASSUME NEW c \in Clients, NEW o \in Outcomes, Put(c, o) PROVE CallInv(x)'
  <2>1. CASE Apply(c) /\ Consistent(o, TRUE)
    BY <1>0, <1>4, <2>1, ApplyFacts
    DEF Put, AfterPut, End, Endings, Outcomes, Consistent, NobodyRestores
  <2>2. CASE /\ UNCHANGED <<password, applied>>
             /\ \/ UNCHANGED late
                \/ o = "unreachable" /\ late' = [late EXCEPT ![c] = TRUE]
    BY <1>0, <1>4, <2>2
    DEF Put, AfterPut, End, Endings, Outcomes, NobodyRestores
  <2>3. QED
    BY <1>4, <2>1, <2>2 DEF Put
<1>5. ASSUME NEW c \in Clients, NEW v \in Versions, Capabilities(c, v)
      PROVE  CallInv(x)'
  BY <1>0, <1>5 DEF Capabilities, End, Endings, Outcomes, NobodyRestores
<1>6. ASSUME NEW c \in Clients, LateApply(c) PROVE CallInv(x)'
  BY <1>0, <1>6, ApplyFacts DEF LateApply, NobodyRestores
<1>7. ASSUME NEW i \in Ids, Web(i) PROVE CallInv(x)'
  BY <1>0, <1>7, AccountsAssumption
  DEF Web, WebPassword, WebEdit, DeviceOK, NobodyRestores
<1>8. CASE UNCHANGED vars
  BY <1>8 DEF vars, NobodyRestores
<1>9. QED
  BY <1>1, <1>2, <1>3, <1>4, <1>5, <1>6, <1>7, <1>8 DEF Next, Call

\* Nor what a call has picked: the names of the accounts change in steps only
\* after which no list counts as fresh.
LEMMA StepPicks == Invariant /\ [Next]_vars => AllPicks'
<1> SUFFICES ASSUME Invariant, [Next]_vars, NEW x \in Clients
             PROVE  PickInv(x)'
  BY DEF AllPicks
<1> USE DEF Invariant, TypeOK, PickedOK, AllCalls, CallInv, AllPicks, PickInv,
        Asked, Named, device, picked
<1>1. ASSUME NEW c \in Clients, ListFails(c) PROVE PickInv(x)'
  BY <1>1 DEF ListFails, End
<1>2. ASSUME NEW c \in Clients, GetUsers(c) PROVE PickInv(x)'
  BY <1>2 DEF GetUsers
<1>3. ASSUME NEW c \in Clients, PickUser(c) PROVE PickInv(x)'
  <2>1. PICK shown \in SUBSET Present :
          /\ \/ End(c, "not_found") /\ UNCHANGED <<target, wanted>>
             \/ /\ \E i \in SelectUser(c, shown) : Pick(c, i)
                /\ \/ pc' = [pc EXCEPT ![c] = "put"] /\ UNCHANGED outcome
                   \/ End(c, "xml")
          /\ sole' = sole \cup
               {d \in {c} : selector[c] = NoSelector /\ Cardinality(shown) = 1}
    BY <1>3 DEF PickUser
  <2>2. CASE x # c
    BY <1>3, <2>1, <2>2 DEF PickUser, End, Pick
  <2>3. CASE x = c /\ pc'[c] = "done"
    BY <1>3, <2>3 DEF PickUser
  <2>4. ASSUME x = c, NEW i \in SelectUser(c, shown), Pick(c, i)
        PROVE  PickInv(x)'
    <3>1. target'[c] = i /\ UNCHANGED <<name, selector>>
      BY <1>3, <2>4 DEF PickUser, Pick
    <3>2. i \in Ids
      BY DEF SelectUser, Present
    <3>3. /\ selector[c] \in [id : Ids \cup {None}, name : Names \cup {None}]
          /\ None \notin Ids /\ None \notin Names
      BY AccountsAssumption
    <3>4. i \in Matching(c) \/ (selector[c] = NoSelector /\ Cardinality(shown) = 1)
      BY DEF SelectUser
    <3>5. CASE selector[c].id # None
      <4>1. selector[c] # NoSelector
        BY <3>5 DEF NoSelector
      <4>2. i = selector[c].id
        BY <3>4, <3>5, <4>1 DEF Matching
      <4>3. QED
        BY <2>4, <3>1, <3>2, <3>5, <4>1, <4>2
    <3>6. CASE selector[c].id = None /\ selector[c].name # None
      <4>1. selector[c] # NoSelector
        BY <3>6 DEF NoSelector
      <4>2. name[i] = selector[c].name
        BY <3>4, <3>6, <4>1 DEF Matching
      <4>3. QED
        BY <2>4, <3>1, <3>2, <3>6, <4>1, <4>2
    <3>7. CASE selector[c].id = None /\ selector[c].name = None
      <4>1. selector[c] = NoSelector
        BY <3>3, <3>7 DEF NoSelector
      <4>2. name[i] = Login[c] \/ Cardinality(shown) = 1
        BY <3>4, <3>7 DEF Matching
      <4>3. name[i] = Login[c] \/ c \in sole'
        BY <2>1, <4>1, <4>2
      <4>4. QED
        BY <2>4, <3>1, <3>2, <3>7, <4>1, <4>3
    <3>8. QED
      BY <3>5, <3>6, <3>7
  <2>5. QED
    BY <2>1, <2>2, <2>3, <2>4 DEF End
<1>4. ASSUME NEW c \in Clients, NEW o \in Outcomes, Put(c, o) PROVE PickInv(x)'
  <2>1. (pc'[x] = "put" \/ late'[x]) => (pc[x] = "put" \/ late[x])
    BY <1>4 DEF Put, AfterPut, End
  <2>2. (UNCHANGED <<name, fresh>>) \/ fresh' = {}
    BY <1>4, Zenon DEF Put, Apply
  <2>3. UNCHANGED <<selector, target, sole>>
    BY <1>4 DEF Put
  <2>4. QED
    BY <2>1, <2>2, <2>3
<1>5. ASSUME NEW c \in Clients, NEW v \in Versions, Capabilities(c, v)
      PROVE  PickInv(x)'
  BY <1>5 DEF Capabilities, End
<1>6. ASSUME NEW c \in Clients, LateApply(c) PROVE PickInv(x)'
  BY <1>6, ApplyFacts DEF LateApply, Apply
<1>7. ASSUME NEW i \in Ids, Web(i) PROVE PickInv(x)'
  BY <1>7 DEF Web, WebPassword, WebEdit
<1>8. CASE UNCHANGED vars
  BY <1>8 DEF vars
<1>9. QED
  BY <1>1, <1>2, <1>3, <1>4, <1>5, <1>6, <1>7, <1>8 DEF Next, Call

\* It holds throughout.
LEMMA AlwaysInvariant == Spec => []Invariant
<1>1. Invariant /\ [Next]_vars => Invariant'
  BY StepType, StepCalls, StepPicks DEF Invariant
<1>2. QED
  BY <1>1, InitInvariant, PTL DEF Spec

\* Types of the calls and the accounts.
THEOREM AccountsTypeOK == Spec => []TypeOK
<1>1. Invariant => TypeOK
  BY DEF Invariant
<1>2. QED
  BY <1>1, AlwaysInvariant, PTL

\* A call that ended with a sure refusal was not and will not be carried out.
THEOREM AccountsRefusedLeavesPassword == Spec => []RefusedLeavesPassword
<1>1. Invariant => RefusedLeavesPassword
  BY DEF Invariant, AllCalls, CallInv, RefusedLeavesPassword, SureEndings
<1>2. QED
  BY <1>1, AlwaysInvariant, PTL

\* What carries out a write: Apply, when the call is about to write or its write
\* is on its way.
LEMMA AppliedStep ==
  ASSUME Invariant, [Next]_vars, NEW c \in Clients, c \in applied' \ applied
  PROVE  Apply(c) /\ (pc[c] = "put" \/ late[c])
BY DEF Next, vars, Call, ListFails, GetUsers, PickUser, Put, Capabilities,
   LateApply, Web, WebPassword, WebEdit, Apply, Invariant, TypeOK, device

\* A write is carried out only for a client whose login still has its first
\* password, and no account that was changed before has that.
LEMMA RotatedStep == Invariant /\ [Next]_vars => RotatedOut
<1> SUFFICES ASSUME Invariant, [Next]_vars, NobodyRestores,
                    NEW c \in Clients, c \in applied' \ applied,
                    NEW d \in applied, name[target[d]] = Login[c]
             PROVE  FALSE
  BY DEF RotatedOut
<1>1. Login[c] \in Names /\ None \notin Names
  BY AccountsAssumption
<1>2. \E i \in Named(Login[c]) : password[i] = Initial[Login[c]]
  BY AppliedStep DEF Apply, Accepted
<1>3. /\ target[d] \in Ids
      /\ \A n \in Names : password[target[d]] # Initial[n]
  BY DEF Invariant, TypeOK, AllCalls, CallInv
<1>4. \A i \in Named(Login[c]) : i = target[d]
  BY <1>1, <1>3 DEF Named, Present, Invariant, TypeOK, DeviceOK
<1>5. QED
  BY <1>1, <1>2, <1>3, <1>4

\* Whoever holds an account's first password is out once it was changed.
THEOREM AccountsRotatedOutStaysOut == Spec => RotatedOutStaysOut
BY AlwaysInvariant, RotatedStep, PTL DEF Spec, RotatedOutStaysOut

\* The account that is written to is the one that was asked for, while the list
\* the client saw is true.
THEOREM AccountsRightAccount == Spec => RightAccount
<1>1. Invariant /\ [Next]_vars => AppliedWhereAsked
  BY AppliedStep DEF AppliedWhereAsked, Invariant, TypeOK, AllPicks, PickInv
<1>2. QED
  BY <1>1, AlwaysInvariant, PTL DEF Spec, RightAccount

\* How far the write of client c has come, by how it ended, and what was made of
\* a refusal.
RefusalInv(c) ==
  /\ pc[c] \in {"users", "list", "put"} => putEnd[c] = None
  /\ pc[c] = "capabilities" => putEnd[c] = "http"
  /\ pc[c] # "done" => outcome[c] = None
  /\ putEnd[c] = "http" /\ pc[c] = "done" => outcome[c] \in {"http", "unsupported"}
  /\ outcome[c] = "unsupported" => version[c] = "salted"
AllRefusals == \A c \in Clients : RefusalInv(c)

\* Only the steps of its own call matter to it, and each of them leaves the write
\* unsent, refused and to be looked into, or the call ended.
LEMMA StepRefusals == Invariant /\ AllRefusals /\ [Next]_vars => AllRefusals'
<1> SUFFICES ASSUME Invariant, AllRefusals, [Next]_vars, NEW x \in Clients
             PROVE  RefusalInv(x)'
  BY DEF AllRefusals
<1> USE DEF Invariant, TypeOK, RefusalInv, Endings, Outcomes
<1>0. RefusalInv(x) /\ None \notin Endings
  BY AccountsAssumption DEF AllRefusals
<1>1. ASSUME NEW c \in Clients, ListFails(c) PROVE RefusalInv(x)'
  BY <1>0, <1>1 DEF ListFails, End
<1>2. ASSUME NEW c \in Clients, GetUsers(c) PROVE RefusalInv(x)'
  BY <1>0, <1>2 DEF GetUsers
<1>3. ASSUME NEW c \in Clients, PickUser(c) PROVE RefusalInv(x)'
  <2>1. \/ End(c, "not_found") \/ End(c, "xml")
        \/ pc' = [pc EXCEPT ![c] = "put"] /\ UNCHANGED outcome
    BY <1>3, Zenon DEF PickUser
  <2>2. pc[c] = "list" /\ UNCHANGED <<putEnd, version>>
    BY <1>3 DEF PickUser
  <2>3. QED
    BY <1>0, <2>1, <2>2 DEF End
<1>4. ASSUME NEW c \in Clients, NEW o \in Outcomes, Put(c, o) PROVE RefusalInv(x)'
  BY <1>0, <1>4 DEF Put, AfterPut, End
<1>5. ASSUME NEW c \in Clients, NEW v \in Versions, Capabilities(c, v)
      PROVE  RefusalInv(x)'
  BY <1>0, <1>5 DEF Capabilities, End
<1>6. ASSUME NEW c \in Clients, LateApply(c) PROVE RefusalInv(x)'
  BY <1>0, <1>6 DEF LateApply
<1>7. ASSUME NEW i \in Ids, Web(i) PROVE RefusalInv(x)'
  BY <1>0, <1>7 DEF Web
<1>8. CASE UNCHANGED vars
  BY <1>0, <1>8 DEF vars
<1>9. QED
  BY <1>1, <1>2, <1>3, <1>4, <1>5, <1>6, <1>7, <1>8 DEF Next, Call

\* Whatever becomes of the look into a refused write, the refusal is what the
\* call ends with (client.py:960-980).
THEOREM AccountsRefusalIsReported == Spec => []RefusalIsReported
<1>1. Init => AllRefusals
  BY AccountsAssumption DEF Init, AllRefusals, RefusalInv, Endings, Outcomes
<1>2. AllRefusals => RefusalIsReported
  BY DEF AllRefusals, RefusalInv, RefusalIsReported
<1>3. QED
  BY <1>1, <1>2, StepRefusals, AlwaysInvariant, PTL DEF Spec
=============================================================================
