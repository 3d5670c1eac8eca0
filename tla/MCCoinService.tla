-------------------------- MODULE MCCoinService --------------------------
(* An instance of CoinService for TLC. The shards share nothing but the     *)
(* process, so one of them shows what can happen to each; the proofs are    *)
(* about any number of them.                                                *)
EXTENDS CoinService
=============================================================================
