------------------------------- MODULE MCBatch -------------------------------
(***************************************************************************)
(* Small instances of BatchSetIp for TLC: two cameras at addresses a and b, *)
(* and two pairs.  In the fresh plan they go to unused addresses, in the    *)
(* chain the first one goes where the second still is.                      *)
(***************************************************************************)
EXTENDS BatchProperties, TLC

CONSTANTS d1, d2, a, b, c, e

TwoHomes == d1 :> a @@ d2 :> b
FreshOld == <<a, b>>
FreshNew == <<c, e>>
ChainOld == <<a, b>>
ChainNew == <<b, c>>
OneOld == <<a>>
OneNew == <<c>>
OneHome == d1 :> a
Back == {-1}
BackOrForth == {-1, 1}
=============================================================================
