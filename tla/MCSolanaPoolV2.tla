--------------------------- MODULE MCSolanaPoolV2 ---------------------------
(* The Solana pool with model values for its wallets and mints; every         *)
(* property checked is an invariant.                                          *)
EXTENDS SolanaPoolV2, TLC

MintSymmetry == Permutations(Mints)
=============================================================================
