------------------------------- MODULE MCLine -------------------------------
(***************************************************************************)
(* Small instances of LineDetection for TLC.  Rule 1 has two points, rule 2 *)
(* is not configured yet and has both its points at the origin.             *)
(***************************************************************************)
EXTENDS LineDetection

Drawn == [sensitivity |-> 50, direction |-> "any", start |-> 0, end |-> 1]
Blank == [Drawn EXCEPT !.end = 0]

Off == [multi |-> FALSE, global |-> FALSE,
        rules |-> [l \in Lines |-> IF l = 1 THEN Drawn ELSE Blank]]
On == [Off EXCEPT !.global = TRUE, !.rules[2] = Drawn]
Documents == {Off, On, [Off EXCEPT !.rules[1].sensitivity = 60],
              [Off EXCEPT !.multi = TRUE]}

Ask == [line |-> 1, enabled |-> None, sensitivity |-> None, direction |-> None,
        start |-> None, end |-> None, verify |-> TRUE]
First == {[Ask EXCEPT !.enabled = TRUE],
          [Ask EXCEPT !.enabled = FALSE, !.start = 1, !.end = 1],
          [Ask EXCEPT !.start = 1, !.end = 0, !.verify = FALSE]}
Second == {[Ask EXCEPT !.line = 2, !.enabled = TRUE],
           [Ask EXCEPT !.line = 2, !.enabled = FALSE, !.start = 1, !.end = 1],
           [Ask EXCEPT !.line = 2, !.start = 1, !.end = 0, !.enabled = TRUE],
           [Ask EXCEPT !.line = 2, !.direction = "left-right", !.enabled = TRUE]}
Invalid == {[Ask EXCEPT !.start = 1], [Ask EXCEPT !.direction = "up"],
            [Ask EXCEPT !.start = 2, !.end = 0], [Ask EXCEPT !.line = 3]}
Asked == First \cup Second \cup Invalid
=============================================================================
