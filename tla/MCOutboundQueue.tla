---------------------------- MODULE MCOutboundQueue ----------------------------
(* Instances of OutboundQueue for TLC. *)
EXTENDS OutboundQueue

CONSTANTS metrics, terminal

===============================================================================
