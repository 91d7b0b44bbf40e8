-------------------------- MODULE MCDeveloperKeys --------------------------
(* Two wallets, which are alike, and two keys: one and what replaces it. *)
EXTENDS DeveloperKeys, TLC

CONSTANTS alice, bob

MCAccount == {alice, bob}
Wallets == Permutations(MCAccount)
=============================================================================
