------------------------------ MODULE Merkle ------------------------------
(***************************************************************************)
(* NewMerkleTree (merkle.go), which every block hash depends on: it hashes *)
(* the transactions of a block (HashTransactions in block.go) for the      *)
(* proof of work and again for its validation.  One step of the model is   *)
(* one pass of the loop that makes a level of the tree out of the level    *)
(* below it.                                                               *)
(*                                                                         *)
(* A node of the tree is represented by the data of the leaves below it,   *)
(* in order, which is what its hash stands for.                            *)
(***************************************************************************)
EXTENDS Naturals, Sequences

CONSTANTS
    Datum,   \* the serialized transactions
    MaxData  \* bound: the number of transactions of a block

ASSUME MerkleAssumption == MaxData \in Nat

VARIABLES
    data,   \* the argument, its last item repeated when their number is odd
    nodes,  \* the level built last
    i,      \* the number of passes made
    pc      \* "loop", "done", or "panic" for an index out of range

vars == <<data, nodes, i, pc>>

Odd(n) == n % 2 # 0

\* The argument is padded to an even length.
Padded(d) == IF Odd(Len(d)) THEN Append(d, d[Len(d)]) ELSE d

Arguments == UNION {[1..n -> Datum] : n \in 0..MaxData}

\* Leaves: one node for each item.
Init ==
    \E d \in Arguments :
        /\ data = Padded(d)
        /\ nodes = [k \in 1..Len(Padded(d)) |-> <<Padded(d)[k]>>]
        /\ i = 0
        /\ pc = "loop"

\* With a bug: Level that takes j and j+1 for every j.
LevelOverlapping ==
    /\ pc = "loop"
    /\ i < Len(data) \div 2
    /\ IF Odd(Len(nodes))
       THEN pc' = "panic" /\ UNCHANGED <<data, nodes, i>>
       ELSE /\ nodes' = [k \in 1..(Len(nodes) \div 2) |-> nodes[k] \o nodes[k + 1]]
            /\ i' = i + 1
            /\ UNCHANGED <<data, pc>>

\* A pass joins the nodes in pairs; nodes[j+1] of the last pair does not exist
\* when their number is odd.
Level ==
    /\ pc = "loop"
    /\ i < Len(data) \div 2
    /\ IF Odd(Len(nodes))
       THEN /\ pc' = "panic"
            /\ UNCHANGED <<data, nodes, i>>
       ELSE /\ nodes' = [k \in 1..(Len(nodes) \div 2) |->
                           nodes[2 * k - 1] \o nodes[2 * k]]
            /\ i' = i + 1
            /\ UNCHANGED <<data, pc>>

\* The root is nodes[0], which an empty block does not have.
Return ==
    /\ pc = "loop"
    /\ ~(i < Len(data) \div 2)
    /\ pc' = IF nodes = <<>> THEN "panic" ELSE "done"
    /\ UNCHANGED <<data, nodes, i>>

Next == Level \/ Return

Spec == Init /\ [][Next]_vars

--------------------------------------------------------------------------
(* Properties. *)

\* The root of a tree that is returned stands for all the data, each item
\* once and in order, and no node is left beside it.
RootCoversData == pc = "done" => nodes = <<data>>

\* What the comment at the padding says (merkle.go:46): every level that a pass joins
\* in pairs has an even number of nodes.
EveryLevelIsEven == pc = "loop" /\ i < Len(data) \div 2 => ~Odd(Len(nodes))

\* A tree is returned for one to four transactions and for no other number: the number
\* of passes, half the number of leaves, is that of levels only then, and repeating
\* the last item makes only the leaves even.
OneToFour == /\ pc = "done" => Len(data) \in {2, 4}
             /\ pc = "panic" => Len(data) \notin {2, 4}
==========================================================================
