------------------------------ MODULE MCRelay ------------------------------
(***************************************************************************)
(* Relay with the central node c, a miner m and a plain node n, which      *)
(* start at most twice each.  All of it at once is too much to explore, so *)
(* the run begins when some of the starts and transactions are over.       *)
(***************************************************************************)
EXTENDS Relay, TLC

CONSTANTS c, m, n, valid, refused

MCNode == {c, m, n}
MCTx == {valid, refused}
MCMaxStarts == [k \in MCNode |-> 2]

\* Nothing runs; of the bounds the given numbers of starts are left.
Left(ofC, ofM, ofN) ==
    /\ up = [k \in Node |-> FALSE]
    /\ known = [k \in Node |-> <<>>]
    /\ pool = [k \in Node |-> {}]
    /\ jobs = EmptyBag
    /\ starts = (c :> 2 - ofC @@ m :> 2 - ofM @@ n :> 2 - ofN)
    /\ lost = [k \in Node |-> FALSE]
    /\ overlap = [k \in Node |-> FALSE]
    /\ slipped = {}

\* Two nodes: both start twice, so that an earlier process of m can be on the list of c
\* and m can lose c, with one transaction; or m does, with two, so that it can mine.
\* Three nodes: each starts once, with one transaction; or c starts twice, with none.
MCInit ==
    \/ Left(2, 2, 0) /\ sent = {valid}
    \/ Left(1, 2, 0) /\ sent = {}
    \/ Left(1, 1, 1) /\ sent = {refused}
    \/ Left(2, 1, 1) /\ sent = MCTx

MCSpec == MCInit /\ [][Next]_vars /\ Fairness
============================================================================
