----------------------------- MODULE MCMerkle -----------------------------
(***************************************************************************)
(* Merkle for blocks of up to nine transactions, so that lengths on both   *)
(* sides of two powers of two occur.  Two kinds of items are enough to see *)
(* an item lost, repeated or moved.                                        *)
(***************************************************************************)
EXTENDS Merkle
==========================================================================
