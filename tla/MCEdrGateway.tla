--------------------------- MODULE MCEdrGateway ---------------------------
(***************************************************************************)
(* Small instances of EdrGateway for TLC: two commands at most, two        *)
(* control streams, a channel that holds one command.                      *)
(***************************************************************************)
EXTENDS EdrGateway
===========================================================================
