--------------------------- MODULE OperatorTunnelMC ---------------------------
(* A small instance of OperatorTunnel for TLC.                             *)
EXTENDS OperatorTunnel

CONSTANT b1

OneBridge   == {b1}
HttpsServer == [scheme |-> "https", loopback |-> FALSE]
=============================================================================
