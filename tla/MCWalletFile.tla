--------------------------- MODULE MCWalletFile ---------------------------
(***************************************************************************)
(* WalletFile with three commands at a time and four wallets: one wallet   *)
(* that was saved before, and three commands that overlap.                 *)
(***************************************************************************)
EXTENDS WalletFile, TLC

Symmetric == Permutations(Process) \cup Permutations(Wallet)
==========================================================================
