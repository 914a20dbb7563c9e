---------------------------- MODULE ChainSpec ----------------------------
(***************************************************************************)
(* What a node's block store promises, with every operation in one step:   *)
(* a database is created with a genesis block, blocks are only ever added, *)
(* and the tip is the highest block stored - among blocks of equal height  *)
(* the one that was stored first.                                          *)
(*                                                                         *)
(* ChainStore, where AddBlock is a badger transaction run by concurrent    *)
(* goroutines of a process that may die at any point, implements it.       *)
(***************************************************************************)
EXTENDS BlockTree

VARIABLES
    stored,  \* the blocks in the database
    tip      \* the last block of the chain, NoHash before there is one

specVars == <<stored, tip>>

\* Whether block b becomes the tip of a chain whose tip is t.
Raises(b, t) == Height[b] > Height[t]

SpecInit == stored = {} /\ tip = NoHash

\* createblockchain: the genesis block is the first block and the tip.
Create(g) ==
    /\ tip = NoHash
    /\ stored' = {g}
    /\ tip' = g

\* A block that is not stored yet is added; it is the tip if it is higher.
Add(b) ==
    /\ tip # NoHash
    /\ b \notin stored
    /\ stored' = stored \cup {b}
    /\ tip' = IF Raises(b, tip) THEN b ELSE tip

SpecNext ==
    \/ \E g \in Genesis : Create(g)
    \/ \E b \in Hash : Add(b)

Spec == SpecInit /\ [][SpecNext]_specVars
==========================================================================
