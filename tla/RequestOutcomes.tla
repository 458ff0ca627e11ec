--------------------------- MODULE RequestOutcomes ---------------------------
(***************************************************************************)
(* How one call of IsapiClient._request (isapi/client.py) can end, and     *)
(* which endings agree with what the device did.  Every component that     *)
(* issues requests, and the request itself, share these definitions.       *)
(***************************************************************************)

\* "ok": a 2xx response is returned.  "http": HikHTTPError.  "auth":
\* HikAuthError.  "unreachable": HikUnreachableError.  "other": an exception
\* of the HTTP library that _request does not translate (the connection breaks
\* while the body is being read).
Outcomes == {"ok", "http", "auth", "unreachable", "other"}

\* A device that has carried the request out cannot have answered 401 to it,
\* and one that answered 2xx has carried it out.  The other endings say nothing.
Consistent(o, executed) ==
  /\ o = "ok" => executed
  /\ o = "auth" => ~executed
=============================================================================
