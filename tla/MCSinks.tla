------------------------------- MODULE MCSinks -------------------------------
(***************************************************************************)
(* Two runs that share a live sink, a contributed one, the canonical sink  *)
(* and a critical contributed one, given in an order that is not the one   *)
(* they are served in.                                                     *)
(***************************************************************************)
EXTENDS Sinks

MCSinkList == <<"live", "plain", "json", "critical">>
=============================================================================
