--------------------------- MODULE MCBlockSync ---------------------------
(***************************************************************************)
(* BlockSync on the tree                                                   *)
(*                                                                         *)
(*      g --- a1 --- a2                                                    *)
(*       \--- b1                                                           *)
(*                                                                         *)
(* with a central node c and nodes m and n.  One of them holds the long    *)
(* chain, the others the genesis block or the fork.  Three nodes that all  *)
(* start twice are too much to explore, so the run begins when some of the *)
(* starts are over.                                                        *)
(***************************************************************************)
EXTENDS BlockSync, TLC

CONSTANTS g, a1, a2, b1, c, m, n

MCHash == {g, a1, a2, b1}
MCPrevHash == (g :> NoHash) @@ (a1 :> g) @@ (a2 :> a1) @@ (b1 :> g)
MCHeight == (g :> 0) @@ (a1 :> 1) @@ (a2 :> 2) @@ (b1 :> 1)

MCNode == {c, m, n}
MCMaxStarts == (c :> 2) @@ (m :> 2) @@ (n :> 1)

\* Two nodes: either is the higher one, with or without a fork.  Three nodes: m starts
\* with the long chain, the central node downloads it while n asks the central node for
\* it; the central node holds the long chain and both ask it; or both m and n announce
\* their chains to it.
TwoTips == {t \in [MCNode -> {g, a2, b1}] : (t[c] = a2 \/ t[m] = a2) /\ t[n] = g}
ThreeTips == {(c :> g) @@ (m :> a2) @@ (n :> g), (c :> a2) @@ (m :> g) @@ (n :> b1),
              (c :> g) @@ (m :> a2) @@ (n :> b1)}
MCTips == TwoTips \cup ThreeTips

\* Nothing runs; the given numbers of starts are over.
After(tips, past) ==
    /\ up = [k \in Node |-> FALSE]
    /\ lh \in tips
    /\ stored = [k \in Node |-> Ancestry[lh[k]]]
    /\ indexed = lh
    /\ transit = [k \in Node |-> <<>>]
    /\ jobs = EmptyBag
    /\ starts = past
    /\ fault = [k \in Node |-> "none"]
    /\ clean = [k \in Node |-> TRUE]

\* With two nodes both start twice; with three the central one does, the others once.
MCInit ==
    \/ After(TwoTips, (c :> 0) @@ (m :> 0) @@ (n :> 1))
    \/ After(ThreeTips, (c :> 0) @@ (m :> 1) @@ (n :> 0))

MCSpec == MCInit /\ [][Next]_vars /\ Fairness
==========================================================================
