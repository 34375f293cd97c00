----------------------------- MODULE MCStoreLog -----------------------------
(* StoreLog on two keys, for TLC. *)
EXTENDS StoreLog, TLC

CONSTANTS k1, k2

MCKeys == {k1, k2}
Sym == Permutations(MCKeys)
=============================================================================
