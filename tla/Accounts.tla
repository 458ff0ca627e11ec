------------------------------ MODULE Accounts ------------------------------
(***************************************************************************)
(* set_user_password and get_users (isapi/client.py) of several clients on *)
(* one device, while its web interface edits the accounts.  A call lists   *)
(* the accounts, picks one, writes the new password under its id and, when *)
(* the device refuses that, asks for the security capabilities to tell     *)
(* why.  The caller may have picked the id itself, from get_users.         *)
(* A client authenticates every request with the password it was created   *)
(* with.  Requests end as RequestOutcomes says; the device carries one out *)
(* only for a password that is valid when it does, also when it is late.   *)
(***************************************************************************)
EXTENDS Integers, FiniteSets, RequestOutcomes

CONSTANTS
  Clients, Ids, Names, Passwords,
  Login,          \* the name each client authenticates as
  NewPassword,    \* what each client sets
  Initial,        \* the password of the account of each name at first
  WebPasswords,   \* what the web interface may set
  Selectors,      \* what callers may ask for: [id, name], None where not given
  None

NoSelector == [id |-> None, name |-> None]

Versions == {"unknown", "legacy", "salted"}
Endings == Outcomes \cup {"xml", "not_found", "unsupported"}

ASSUME AccountsAssumption ==
  /\ Login \in [Clients -> Names] /\ NewPassword \in [Clients -> Passwords]
  /\ Initial \in [Names -> Passwords] /\ WebPasswords \subseteq Passwords
  /\ Selectors \subseteq [id : Ids \cup {None}, name : Names \cup {None}]
  /\ None \notin Ids \cup Names \cup Passwords \cup Endings

VARIABLES
  name, password, \* of every id's account in the device, None where there is none
  selector,      \* per client: the id and the name its caller asks for
  pc, target,    \* where its call is, the id it has picked
  wanted,        \* and the name of that account in the list
  putEnd,        \* how its write ended, None before
  late,          \* its write may yet be carried out
  version,       \* what the capabilities said of securityVersion
  outcome,       \* how its call ended
  applied,       \* history: clients whose write was carried out
  sole,          \* history: clients that were shown one account only
  fresh          \* history: clients that have listed the accounts as they are

device == <<name, password, applied, fresh>>
picked == <<selector, target, wanted, sole>>
vars == <<device, picked, pc, putEnd, late, version, outcome>>

Init ==
  /\ name \in [Ids -> Names \cup {None}]
  /\ \A i, j \in Ids : name[i] = name[j] => i = j \/ name[i] = None
  /\ password = [i \in Ids |-> IF name[i] = None THEN None ELSE Initial[name[i]]]
  /\ selector \in [Clients -> Selectors \cup {NoSelector}]
  /\ pc \in [Clients -> {"users", "list"}]
  /\ \A c \in Clients : pc[c] = "users" => selector[c] = NoSelector
  /\ target = [c \in Clients |-> None] /\ wanted = [c \in Clients |-> None]
  /\ putEnd = [c \in Clients |-> None] /\ late = [c \in Clients |-> FALSE]
  /\ version = [c \in Clients |-> "unknown"]
  /\ outcome = [c \in Clients |-> None] /\ applied = {}
  /\ sole = {} /\ fresh = {}

-----------------------------------------------------------------------------
(* The device. *)

Present == {i \in Ids : name[i] # None}
Named(n) == {i \in Ids : name[i] = n}

\* Variant of Accepted: clients of one login learn what one of them has set.
Accepted_Shared(c) ==
  \E i \in Named(Login[c]) :
    password[i] \in {Initial[Login[c]]} \cup
      {NewPassword[d] : d \in {d \in applied : Login[d] = Login[c]}}

\* self.password is never updated: a client knows the password its account had.
Accepted(c) == \E i \in Named(Login[c]) : password[i] = Initial[Login[c]]

\* The write of client c is carried out, on whatever account its id has by now.
\* The body repeats the name from the list: an account that meanwhile has
\* another one may take that, unless it is in use.
Apply(c) ==
  /\ Accepted(c) /\ target[c] \in Present
  /\ password' = [password EXCEPT ![target[c]] = NewPassword[c]]
  /\ applied' = applied \cup {c}
  /\ \/ UNCHANGED <<name, fresh>>
     \/ /\ Named(wanted[c]) = {} /\ fresh' = {}
        /\ name' = [name EXCEPT ![target[c]] = wanted[c]]

LateApply(c) ==
  /\ late[c] /\ Apply(c)
  /\ late' = [late EXCEPT ![c] = FALSE]
  /\ UNCHANGED <<picked, pc, putEnd, version, outcome>>

\* The web interface sets a password, deletes an account, or adds one in its
\* place or under an unused id.
WebPassword(i) ==
  /\ i \in Present
  /\ \E p \in WebPasswords : password' = [password EXCEPT ![i] = p]
  /\ UNCHANGED <<name, applied, fresh>>

WebEdit(i) ==
  /\ \/ /\ name' = [name EXCEPT ![i] = None]
        /\ password' = [password EXCEPT ![i] = None]
     \/ \E n \in Names, p \in WebPasswords :
          /\ Named(n) = {} /\ name' = [name EXCEPT ![i] = n]
          /\ password' = [password EXCEPT ![i] = p]
  /\ fresh' = {} /\ UNCHANGED applied

Web(i) ==
  /\ WebPassword(i) \/ WebEdit(i)
  /\ UNCHANGED <<picked, pc, putEnd, late, version, outcome>>

-----------------------------------------------------------------------------
(* The call of client c. *)

End(c, o) ==
  pc' = [pc EXCEPT ![c] = "done"] /\ outcome' = [outcome EXCEPT ![c] = o]

ListFails(c) ==
  /\ pc[c] \in {"users", "list"}
  /\ \E o \in (Outcomes \ {"ok"}) \cup {"xml"} : End(c, o)
  /\ UNCHANGED <<device, picked, putEnd, late, version>>

\* get_users before the call: the caller takes the id of an account it shows,
\* whose name is then what it is after.
GetUsers(c) ==
  /\ pc[c] = "users" /\ Accepted(c)
  /\ \E i \in Present :
       /\ selector' = [selector EXCEPT ![c] = [id |-> i, name |-> None]]
       /\ wanted' = [wanted EXCEPT ![c] = name[i]]
  /\ pc' = [pc EXCEPT ![c] = "list"] /\ fresh' = fresh \cup {c}
  /\ UNCHANGED <<name, password, applied, target, sole, putEnd, late, version, outcome>>

\* The accounts that answer to the selector: an id goes before a name, and
\* without either it is the client's own.
Matching(c) ==
  IF selector[c].id # None THEN {selector[c].id}
  ELSE Named(IF selector[c].name # None THEN selector[c].name ELSE Login[c])

\* Variant of SelectUser: a selector that names nobody counts as none.
SelectUser_FallsBack(c, shown) ==
  IF shown \cap Matching(c) # {} THEN shown \cap Matching(c)
  ELSE shown \cap Named(Login[c])

\* _select_user among the accounts the device shows; without a selector the only
\* one will do.
SelectUser(c, shown) ==
  IF selector[c] = NoSelector /\ shown \cap Matching(c) = {} /\ Cardinality(shown) = 1
    THEN shown
    ELSE shown \cap Matching(c)

\* Variant of Pick: an entry without a name will do.
Pick_Unnamed(c, i) ==
  target' = [target EXCEPT ![c] = i] /\ UNCHANGED wanted

Pick(c, i) ==
  /\ target' = [target EXCEPT ![c] = i]
  /\ wanted' = [wanted EXCEPT ![c] = name[i]]

\* The device may show part of the accounts only, and the entry that is picked
\* may lack its id or name.  An id from get_users is as old as that list.
PickUser(c) ==
  /\ pc[c] = "list" /\ Accepted(c)
  /\ \E shown \in SUBSET Present :
       /\ \/ /\ SelectUser(c, shown) = {} /\ End(c, "not_found")
             /\ UNCHANGED <<target, wanted>>
          \/ /\ \E i \in SelectUser(c, shown) : Pick(c, i)
             /\ \/ pc' = [pc EXCEPT ![c] = "put"] /\ UNCHANGED outcome
                \/ End(c, "xml")
       /\ sole' = sole \cup {d \in {c} : selector[c] = NoSelector /\ Cardinality(shown) = 1}
  /\ fresh' = IF wanted[c] # None THEN fresh ELSE fresh \cup {c}
  /\ UNCHANGED <<name, password, applied, selector, putEnd, late, version>>

\* A refused write is looked into, every other ending is the call's ending.
AfterPut(c, o) ==
  IF o = "http"
    THEN pc' = [pc EXCEPT ![c] = "capabilities"] /\ UNCHANGED outcome
    ELSE End(c, o)

Put(c, o) ==
  /\ pc[c] = "put"
  /\ AfterPut(c, o) /\ putEnd' = [putEnd EXCEPT ![c] = o]
  /\ \/ Consistent(o, TRUE) /\ Apply(c) /\ UNCHANGED late
     \/ Consistent(o, FALSE) /\ UNCHANGED <<device, late>>
     \/ /\ o = "unreachable" /\ late' = [late EXCEPT ![c] = TRUE]
        /\ UNCHANGED device
  /\ UNCHANGED <<picked, version>>

\* Variants of Capabilities: its own failure becomes the failure of the call;
\* every version counts as salted.
Capabilities_Escapes(c, v) ==
  /\ pc[c] = "capabilities"
  /\ version' = [version EXCEPT ![c] = v]
  /\ End(c, CASE v = "salted" -> "unsupported"
             [] v = "legacy" -> "http" [] OTHER -> "auth")
  /\ UNCHANGED <<device, picked, putEnd, late>>

Capabilities_AnyVersion(c, v) ==
  /\ pc[c] = "capabilities"
  /\ version' = [version EXCEPT ![c] = v]
  /\ End(c, IF v # "unknown" THEN "unsupported" ELSE "http")
  /\ UNCHANGED <<device, picked, putEnd, late>>

\* Whatever becomes of the capabilities, an answer that calls for a salted
\* password is reported as such and anything else as the refused write.
Capabilities(c, v) ==
  /\ pc[c] = "capabilities"
  /\ v # "unknown" => Accepted(c)
  /\ version' = [version EXCEPT ![c] = v]
  /\ End(c, IF v = "salted" THEN "unsupported" ELSE "http")
  /\ UNCHANGED <<device, picked, putEnd, late>>

Call(c) ==
  \/ GetUsers(c) \/ ListFails(c) \/ PickUser(c)
  \/ \E o \in Outcomes : Put(c, o)
  \/ \E v \in Versions : Capabilities(c, v)

Next ==
  \/ \E c \in Clients : Call(c) \/ LateApply(c)
  \/ \E i \in Ids : Web(i)

Spec == Init /\ [][Next]_vars

-----------------------------------------------------------------------------
(* Properties. *)

PickedOK ==
  \A c \in Clients :
    pc[c] \in {"put", "capabilities"} \/ late[c] =>
      target[c] \in Ids /\ wanted[c] \in Names

\* No two accounts have one name, and every account has a password.
DeviceOK ==
  /\ name \in [Ids -> Names \cup {None}]
  /\ password \in [Ids -> Passwords \cup {None}]
  /\ \A i \in Ids : password[i] = None <=> name[i] = None
  /\ \A i, j \in Present : name[i] = name[j] => i = j

\* Type invariant of the device's accounts and the calls that change them.
TypeOK ==
  /\ DeviceOK
  /\ selector \in [Clients -> [id : Ids \cup {None}, name : Names \cup {None}]]
  /\ pc \in [Clients -> {"users", "list", "put", "capabilities", "done"}]
  /\ target \in [Clients -> Ids \cup {None}]
  /\ wanted \in [Clients -> Names \cup {None}]
  /\ putEnd \in [Clients -> Outcomes \cup {None}]
  /\ late \in [Clients -> BOOLEAN] /\ version \in [Clients -> Versions]
  /\ outcome \in [Clients -> Endings \cup {None}]
  /\ applied \subseteq Clients /\ sole \subseteq Clients /\ fresh \subseteq Clients
  /\ PickedOK

\* Changing an account's password shuts out every client that was created with
\* the old one, the client that changed its own included: no write of theirs is
\* carried out any more, not even one that was already on its way.  So of the
\* clients that share a login and rotate it, one succeeds at the most.
NobodyRestores ==
  /\ \A c \in Clients, n \in Names : NewPassword[c] # Initial[n]
  /\ \A p \in WebPasswords, n \in Names : p # Initial[n]
RotatedOut ==
  NobodyRestores =>
    \A c \in Clients : c \in applied' \ applied =>
      \A d \in applied : name[target[d]] # Login[c]
RotatedOutStaysOut == [][RotatedOut]_vars

\* The account whose password a call replaces has the id that was asked for, or
\* when only a name was, that name; when neither was, it is the client's own or
\* the only one it was shown - unless the accounts themselves were edited since
\* the client (or its caller) listed them.  Nothing protects against that: the
\* write is addressed by id.
Asked(c) ==
  {i \in Ids :
     /\ selector[c].id # None => i = selector[c].id
     /\ selector[c].id = None /\ selector[c].name # None => name[i] = selector[c].name
     /\ selector[c] = NoSelector => name[i] = Login[c] \/ (c \in sole /\ i = target[c])}
AppliedWhereAsked ==
  \A c \in (applied' \ applied) \cap fresh : target[c] \in Asked(c)
RightAccount == [][AppliedWhereAsked]_vars

\* An ending that means "not done" can be trusted, now and later: HikAuthError,
\* an unusable account list and an account that was not found.
SureEndings == {"auth", "not_found", "xml"}
RefusedLeavesPassword ==
  \A c \in Clients :
    outcome[c] \in SureEndings => c \notin applied /\ ~late[c]

\* Looking into a refused write never hides it: the call ends with the refusal,
\* or with HikUnsupportedPasswordEncodingError, and with that only when the device
\* itself calls for a salted password.
RefusalIsReported ==
  \A c \in Clients :
    /\ putEnd[c] = "http" /\ pc[c] = "done" => outcome[c] \in {"http", "unsupported"}
    /\ outcome[c] = "unsupported" => version[c] = "salted"
=============================================================================
