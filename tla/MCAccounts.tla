----------------------------- MODULE MCAccounts -----------------------------
(***************************************************************************)
(* Two clients share a login; a device with room for two accounts, whose   *)
(* passwords are one at first.                                             *)
(***************************************************************************)
EXTENDS Accounts, TLC

CONSTANTS c1, c2, i1, i2, admin, guest, p0, p1, p2, p3

Logins == c1 :> admin @@ c2 :> admin
News == c1 :> p1 @@ c2 :> p2
Initials == admin :> p0 @@ guest :> p0

\* A name, an id, and both of them, which may be of different accounts.
Asks == {[id |-> None, name |-> admin], [id |-> None, name |-> guest],
         [id |-> i2, name |-> None], [id |-> i1, name |-> guest]}
=============================================================================
