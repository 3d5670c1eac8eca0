--------------------------- MODULE MCIncognitoApp ---------------------------
(* Instances of IncognitoApp for TLC: the constants are model values, two    *)
(* keys and two coins of a kind.                                             *)
EXTENDS IncognitoApp
=============================================================================
