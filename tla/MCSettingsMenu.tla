--------------------------- MODULE MCSettingsMenu ---------------------------
(* SettingsMenu has no constants: TLC checks the whole of it.               *)
EXTENDS SettingsMenu
=============================================================================
