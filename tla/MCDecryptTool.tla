-------------------------- MODULE MCDecryptTool --------------------------
(* An instance of DecryptTool for TLC. *)
EXTENDS DecryptTool, TLC
CONSTANTS k1, k2, c1, c2

Lists == k1 :> <<c1, c2>> @@ k2 :> <<c1>>
=============================================================================
