---------------------------- MODULE MCHostCli ----------------------------
(* An instance of HostCli for TLC: the one key and the one coin that are     *)
(* written into the program, and the key of the device.                      *)
EXTENDS HostCli
=============================================================================
