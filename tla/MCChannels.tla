----------------------------- MODULE MCChannels -----------------------------
(***************************************************************************)
(* Small documents for Channels: unsorted, repeated and unusable rows, and *)
(* status rows that contradict each other or belong to nobody.             *)
(***************************************************************************)
EXTENDS Channels

Row(i, n) == [id |-> i, name |-> n]
Lists == {<<>>, <<Row(None, "x")>>, <<Row(1, "a")>>, <<Row(2, "b"), Row(1, "a")>>,
          <<Row(2, "a"), Row(None, "x"), Row(1, "b"), Row(2, "c")>>}

Status(i, o) == [id |-> i, online |-> o]
Reports == {<<>>, <<Status(1, "true")>>, <<Status(2, None), Status(None, "true")>>,
            <<Status(1, "true"), Status(2, "false"), Status(1, "error")>>,
            <<Status(3, "true"), Status(2, "true"), Status(2, None)>>}
=============================================================================
