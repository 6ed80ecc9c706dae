-------------------------- MODULE MCConnectorSync --------------------------
(***************************************************************************)
(* Instances of ConnectorSync for TLC.                                     *)
(***************************************************************************)
EXTENDS ConnectorSync

CONSTANTS c1, c2, p1, p2, h1, h2
=============================================================================
