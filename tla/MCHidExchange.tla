--------------------------- MODULE MCHidExchange ---------------------------
(* Instances of HidExchange for TLC. Packets carry three bytes instead of   *)
(* 59, so that answers end inside a packet, at its end and after it.        *)
EXTENDS HidExchange
=============================================================================
