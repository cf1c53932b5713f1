--------------------------- MODULE MCTerminalManager ---------------------------
(* Instances of TerminalManager for TLC. *)
EXTENDS TerminalManager

CONSTANTS new, old

===============================================================================
