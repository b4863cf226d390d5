--------------------------- MODULE MCGlobalContext ---------------------------
(***************************************************************************)
(* GlobalContext for TLC: two contract definitions (the least that tell a *)
(* per-contract memo from a single cache) and room for a `this` and a     *)
(* `super` declaration of each.                                           *)
(***************************************************************************)
EXTENDS GlobalContext

CONSTANTS C1, C2

MCContracts == {C1, C2}

MCMaxDecls == 2 * 2
=============================================================================
