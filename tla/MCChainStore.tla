--------------------------- MODULE MCChainStore ---------------------------
(***************************************************************************)
(* ChainStore on a tree with a fork and a foreign genesis block:           *)
(*                                                                         *)
(*      g --- a1 --- a2            f (another node's genesis block)        *)
(*       \--- b1                                                           *)
(***************************************************************************)
EXTENDS ChainStore, TLC

CONSTANTS g, f, a1, a2, b1

MCHash == {g, f, a1, a2, b1}
MCPrevHash == (g :> NoHash) @@ (f :> NoHash) @@ (a1 :> g) @@ (a2 :> a1) @@ (b1 :> g)
MCHeight == (g :> 0) @@ (f :> 0) @@ (a1 :> 1) @@ (a2 :> 2) @@ (b1 :> 1)

Goroutines == Permutations(Conn)
==========================================================================
