---------------------------- MODULE MCRealtime ----------------------------
(* One client, with the list or the page of a token, whose old streams     *)
(* compete with the new one for the only slot of the hub.                  *)
EXTENDS Realtime
=============================================================================
