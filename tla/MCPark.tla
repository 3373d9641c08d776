------------------------------- MODULE MCPark -------------------------------
(* An update and the setup button share the handshake. *)
EXTENDS Park

TwoUsers == {"update", "button"}
=============================================================================
