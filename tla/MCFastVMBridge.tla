-------------------------- MODULE MCFastVMBridge ---------------------------
(* Instantiates FastVMBridge for TLC: two Java threads, two transaction    *)
(* contexts, runs nested two deep, three code fetches.                     *)
EXTENDS FastVMBridge

MCMaxDepth == 2
MCMaxCodeFetch == 3
MCGasPrices == {0, 7}
=============================================================================
