------------------------------ MODULE MCNetwork ------------------------------
(***************************************************************************)
(* Small instances of NetworkConfig for TLC: a document in static mode,    *)
(* one in dynamic mode, one that lacks what firmware may leave out, and    *)
(* one that has some of it without a text.                                 *)
(***************************************************************************)
EXTENDS NetworkConfig, TLC

AnyClients == Permutations(Clients)

Static == [text |-> [e \in Texts |-> IF e = "dns2" THEN Absent ELSE "old"],
           mode |-> "static", rest |-> "vendor"]
Bare == [text |-> [e \in Texts |-> IF e \in Required THEN "old" ELSE Absent],
         mode |-> Absent, rest |-> "other"]
Documents ==
  {Static, [Static EXCEPT !.mode = "dynamic"], Bare,
   [Static EXCEPT !.mode = Empty, !.text["gateway"] = Empty,
                  !.text["dns1"] = "web", !.text["mask"] = Absent]}

Nothing == [e \in Texts |-> None]
Address(v) == [Nothing EXCEPT !["ip"] = v, !["mask"] = v, !["gateway"] = v]
Ask(texts, dhcp) == [text |-> texts, dhcp |-> dhcp]

Asked ==
  {Ask(Address("one"), None), Ask(Address("two"), FALSE),
   Ask([Address("two") EXCEPT !["dns1"] = "one"], TRUE),
   Ask(Nothing, None),
   Ask([Nothing EXCEPT !["dns2"] = "two", !["gateway"] = "two"], FALSE),
   Ask([Nothing EXCEPT !["ip"] = "one", !["mask"] = "one"], None),
   Ask([Nothing EXCEPT !["ip"] = "::1"], None)}
=============================================================================
