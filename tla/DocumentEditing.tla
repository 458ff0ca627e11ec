--------------------------- MODULE DocumentEditing ---------------------------
(***************************************************************************)
(* What set_network_config and set_line_detection promise about the        *)
(* configuration document they edit: a call reads it at most once, what it *)
(* writes is its own edit of the document it read, and it is written once  *)
(* at the most, whatever becomes of the request and its response; "callers *)
(* must ... never automatically replay the write".  In between the others  *)
(* and the web interface may write theirs: nothing locks the document, and *)
(* a writer may overwrite what it has not seen.                            *)
(***************************************************************************)
CONSTANTS Clients, Configs,
          Edit(_, _),  \* what a call with these arguments makes of a document
          None

VARIABLES doc,         \* the device's document
          arg, seen,   \* per client: its arguments, the document it has read
          hold         \* clients that may still write

vars == <<doc, arg, seen, hold>>

Init ==
  /\ doc \in Configs /\ hold = {}
  /\ seen = [c \in Clients |-> None]

\* A call that reads may turn out to have nothing to write.
Read(c) ==
  /\ seen[c] = None
  /\ seen' = [seen EXCEPT ![c] = doc]
  /\ hold' \in {hold, hold \cup {c}}
  /\ UNCHANGED <<doc, arg>>

Write(c) ==
  /\ c \in hold /\ hold' = hold \ {c}
  /\ doc' = Edit(arg[c], seen[c])
  /\ UNCHANGED <<arg, seen>>

GiveUp(c) ==
  /\ c \in hold /\ hold' = hold \ {c}
  /\ UNCHANGED <<doc, arg, seen>>

WebEdit ==
  /\ doc' \in Configs
  /\ UNCHANGED <<arg, seen, hold>>

Next == WebEdit \/ \E c \in Clients : Read(c) \/ Write(c) \/ GiveUp(c)

Spec == Init /\ [][Next]_vars
=============================================================================
