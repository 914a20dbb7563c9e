----------------------------- MODULE UtxoSet -----------------------------
(***************************************************************************)
(* The index of unspent outputs that a node keeps beside its chain         *)
(* (utxo.go): goroutines of the node that have added a block, and the      *)
(* command reindexutxo, rebuild it; the wallet commands read it.           *)
(*                                                                         *)
(* Reindex is three badger transactions and a walk over the chain with     *)
(* nothing around them, so Reindexes of two goroutines interleave, and a   *)
(* crash leaves what the last transaction left.  None of the transactions  *)
(* that write reads a key, so badger never finds a conflict.               *)
(***************************************************************************)
EXTENDS Transactions

CONSTANTS
    Conn,   \* the goroutines that can be in HandleBlock at the same time
    Trees,  \* the sets of blocks to consider
    Owner   \* the public key hashes that outputs are locked with

\* A block stands for its hash, which covers its transactions and the hash of the
\* block before it: it is named by the chain that ends in it.  Its height is the
\* length of that, as MineBlock makes it.
VARIABLES
    blocks,  \* the blocks that the node can receive
    stored,  \* database: the blocks of them that are there
    tip,     \* database: the block that "lh" names
    index,   \* database: the keys "utxo-<ID>" and their outputs
    proc,    \* the process on the database: "down", "node" or "reindexutxo"
    conn,    \* the goroutines: where each is in Reindex
    trust,   \* history: what Reindexes that overlapped or died left behind
    walked   \* history: the tips whose outputs the index, or a Reindex, can hold

vars == <<blocks, stored, tip, index, proc, conn, trust, walked>>

\* A transaction has an output, and spends outputs of blocks below its own: a
\* miner finds the transactions it spends on the chain, or panics.
IsChain(chain) ==
    /\ chain \in Seq(ToSet(chain))
    /\ \A b \in DOMAIN chain :
          /\ chain[b] \in Seq(ToSet(chain[b]))
          /\ \A tx \in ToSet(chain[b]) :
                /\ tx.ins \in Seq(ToSet(tx.ins))
                /\ tx.outs \in Seq(ToSet(tx.outs)) /\ tx.outs # <<>>
                /\ \A p \in ToSet(tx.ins) :
                      /\ p = Outpoint(p.tx, p.out)
                      /\ \E d \in 1..(b - 1) : p.tx \in ToSet(chain[d])

ASSUME TreesAssumption ==
    \A tree \in Trees : \A block \in tree : block # <<>> /\ IsChain(block)

--------------------------------------------------------------------------
(* What a wallet command reads. *)

\* The outputs FindSpendableOutputs can return for an owner: the position it
\* gives is the position in the index entry.  Which of them are taken depends
\* on the amount and on the order of the keys.
Spendable(owner) ==
    UNION {{Outpoint(tx, k) : k \in {k \in DOMAIN index[tx] : index[tx][k].owner = owner}}
             : tx \in DOMAIN index}

--------------------------------------------------------------------------
(* The index. *)

Idle == [pc |-> "idle", keys |-> {}, found |-> [t \in {} |-> <<>>], alone |-> TRUE]

Others(c) == {d \in Conn \ {c} : conn[d].pc # "idle"}

\* The iterator gets from the block down to the genesis block: none is missing.
Complete(block) == \A k \in DOMAIN block : SubSeq(block, 1, k) \in stored

\* What createblockchain leaves: the genesis block, and the index of that - or
\* no index, when it died between the two.
Init ==
    /\ blocks \in Trees
    /\ tip \in {block \in blocks : Len(block) = 1}
    /\ stored = {tip}
    /\ \/ index = FindUTXO(tip) /\ trust = "whole" /\ walked = {tip}
       \/ index = [t \in {} |-> <<>>] /\ trust = "lost" /\ walked = {}
    /\ proc = "down"
    /\ conn = [c \in Conn |-> Idle]

\* Goroutine c enters Reindex; if others are in it, none of them is alone there
\* from now on.
Enter(c) ==
    conn' = [d \in Conn |->
               IF d = c THEN [Idle EXCEPT !.pc = "collect", !.alone = Others(c) = {}]
               ELSE [conn[d] EXCEPT !.alone = conn[d].pc = "idle"]]

\* HandleBlock.  The tip moves to a new block that is higher, whether or not the
\* block below is there or is the old tip.  Only when no more blocks are in
\* transit does Reindex follow; otherwise the next one is asked for.
AddBlock(c, block) ==
    /\ proc = "node"
    /\ conn[c].pc = "idle"
    /\ stored' = stored \cup {block}
    /\ tip' = IF block \notin stored /\ Len(block) > Len(tip) THEN block ELSE tip
    /\ Enter(c) \/ UNCHANGED conn
    /\ UNCHANGED <<blocks, index, proc, trust, walked>>

\* DeleteByPrefix: collect the keys of a snapshot ...
Collect(c) ==
    /\ conn[c].pc = "collect"
    /\ conn' = [conn EXCEPT ![c].pc = "delete", ![c].keys = DOMAIN index]
    /\ UNCHANGED <<blocks, stored, tip, index, proc, trust, walked>>

\* From an empty index, with no Reindex about to write, earlier tips are gone.
Forget ==
    walked' = IF DOMAIN index' = {} /\ \A d \in Conn : conn[d].pc # "write"
              THEN {} ELSE walked

\* With a bug: Delete that leaves one key, as for a batch counted wrong.
DeleteAllButOne(c) ==
    /\ conn[c].pc = "delete"
    /\ \E k \in conn[c].keys :
          index' = [t \in DOMAIN index \ (conn[c].keys \ {k}) |-> index[t]]
    /\ conn' = [conn EXCEPT ![c].pc = "find", ![c].keys = {}]
    /\ Forget
    /\ UNCHANGED <<blocks, stored, tip, proc, trust>>

\* ... and delete those keys, whatever they hold by now.
Delete(c) ==
    /\ conn[c].pc = "delete"
    /\ index' = [t \in DOMAIN index \ conn[c].keys |-> index[t]]
    /\ conn' = [conn EXCEPT ![c].pc = "find", ![c].keys = {}]
    /\ Forget
    /\ UNCHANGED <<blocks, stored, tip, proc, trust>>

\* FindUTXO on the chain below the LastHash of this moment.
Find(c) ==
    /\ conn[c].pc = "find"
    /\ Complete(tip)
    /\ conn' = [conn EXCEPT ![c].pc = "write", ![c].found = FindUTXO(tip)]
    /\ walked' = walked \cup {tip}
    /\ UNCHANGED <<blocks, stored, tip, index, proc, trust>>

\* With a bug: Write that replaces the whole index.
WriteOver(c) ==
    /\ conn[c].pc = "write"
    /\ index' = conn[c].found
    /\ conn' = [conn EXCEPT ![c] = Idle]
    /\ proc' = IF proc = "reindexutxo" THEN "down" ELSE proc
    /\ trust' = IF conn[c].alone THEN "whole"
                ELSE IF trust = "lost" THEN trust ELSE "mixed"
    /\ UNCHANGED <<blocks, stored, tip, walked>>

\* The entries found are set, over those that are there.  The command ends.
Write(c) ==
    LET found == conn[c].found
    IN  /\ conn[c].pc = "write"
        /\ index' = [t \in DOMAIN index \cup DOMAIN found |->
                       IF t \in DOMAIN found THEN found[t] ELSE index[t]]
        /\ conn' = [conn EXCEPT ![c] = Idle]
        /\ proc' = IF proc = "reindexutxo" THEN "down" ELSE proc
        /\ trust' = IF conn[c].alone THEN "whole"
                    ELSE IF trust = "lost" THEN trust ELSE "mixed"
        /\ UNCHANGED <<blocks, stored, tip, walked>>

\* StartServer.
StartNode ==
    /\ proc = "down"
    /\ proc' = "node"
    /\ UNCHANGED <<blocks, stored, tip, index, conn, trust, walked>>

\* The command reindexutxo, which needs the database for itself.
ReindexCommand(c) ==
    /\ proc = "down"
    /\ proc' = "reindexutxo"
    /\ Enter(c)
    /\ UNCHANGED <<blocks, stored, tip, index, trust, walked>>

\* The process ends: Reindexes that have begun are not finished.
Ends ==
    /\ proc' = "down"
    /\ conn' = [c \in Conn |-> Idle]
    /\ trust' = IF \E c \in Conn : conn[c].pc # "idle" THEN "lost" ELSE trust
    /\ UNCHANGED <<blocks, stored, tip, index, walked>>

\* FindUTXO comes to a block that is missing, as after a download that was cut
\* off: a panic.
FindPanics(c) ==
    /\ conn[c].pc = "find"
    /\ ~Complete(tip)
    /\ Ends

\* A signal, or a panic elsewhere.
Kill == proc # "down" /\ Ends

Step(c) ==
    \/ \E block \in blocks : AddBlock(c, block)
    \/ Collect(c) \/ Delete(c) \/ Find(c) \/ FindPanics(c) \/ Write(c)
    \/ ReindexCommand(c)

Next == StartNode \/ Kill \/ \E c \in Conn : Step(c)

Spec == Init /\ [][Next]_vars

--------------------------------------------------------------------------
(* Properties. *)

\* An entry holds the outputs at the positions ks, in order.
Holds(entry, outs, ks) ==
    /\ DOMAIN entry = 1..Len(entry)
    /\ \E at \in [DOMAIN entry -> ks] :
          /\ ToSet(at) = ks
          /\ \A i, j \in DOMAIN entry : i < j => at[i] < at[j]
          /\ \A i \in DOMAIN entry : entry[i] = outs[at[i]]
Positions(tx) == {k \in DOMAIN tx.outs : Outpoint(tx, k) \in Unspent(tip)}

Quiet == \A c \in Conn : conn[c].pc = "idle"

\* The index is of the tip: the tip has not moved since, as it does when blocks of
\* a download come in or a process dies between AddBlock and Reindex.
UpToDate == Quiet /\ trust = "whole" /\ tip \in walked

\* No transaction is twice on the chain, as two rewards of one miner are.
NoRepeats(chain) ==
    /\ \A b \in DOMAIN chain : IsInjective(chain[b])
    /\ \A b, d \in DOMAIN chain : b # d => ToSet(chain[b]) \cap ToSet(chain[d]) = {}

\* No output of tx is spent that comes before one that is not: it has in an index
\* entry the position that it has in tx.
NoGaps(tx) == \A k \in Positions(tx) : 1..k \subseteq Positions(tx)

\* After a Reindex that had the index for itself and found the present tip, the
\* index holds exactly the unspent outputs of the chain, also when earlier ones
\* overlapped, died, or were of another fork.
IndexIsExact ==
    UpToDate /\ NoRepeats(tip) =>
        /\ DOMAIN index = {p.tx : p \in Unspent(tip)}
        /\ \A tx \in DOMAIN index : Holds(index[tx], tx.outs, Positions(tx))

\* Update and Reindex are two ways to the same index: from the exact index,
\* Update with the next block gives what FindUTXO finds on the longer chain.  It
\* needs entries without gaps, and a block that spends one output of a transaction
\* at most: taking out one moves the others.
Updatable(txs) ==
    /\ \A x, y \in DOMAIN txs : \A i \in DOMAIN txs[x].ins, j \in DOMAIN txs[y].ins :
          txs[x].ins[i].tx = txs[y].ins[j].tx => x = y /\ i = j
    /\ \A tx \in ToSet(txs) : \A in \in ToSet(tx.ins) :
          in.tx \in DOMAIN index /\ NoGaps(in.tx)
UpdateIsReindex ==
    UpToDate =>
        \A next \in blocks :
            LET txs == next[Len(next)]
            IN  Front(next) = tip /\ NoRepeats(next) /\ Updatable(txs) =>
                    Update(index, txs) = FindUTXO(next)

\* However Reindexes overlap, once they are over no output that is unspent on the
\* chain found last is missing from the index: the last write of an entry is never
\* older than its block.  Only an index of an abandoned fork, written late, hides
\* an output that was spent on that fork.
Spent(chain) == UNION {ToSet(tx.ins) : tx \in OnChain(chain)}
NothingUnspentIsMissing ==
    Quiet /\ trust # "lost" /\ tip \in walked =>
        \A p \in Unspent(tip) :
            /\ p.tx \in DOMAIN index
            /\ \/ p.tx.outs[p.out] \in ToSet(index[p.tx])
               \/ \E fork \in walked : p \in Spent(fork)

\* A Reindex that runs alone shows a reader - there is one as soon as the node
\* dies - the index of one tip that a Reindex found or an empty one, never some
\* entries of one and some of another.
Alone == \A c \in Conn : conn[c].alone
NeverAMixture ==
    trust = "whole" /\ Alone =>
        DOMAIN index = {} \/ index \in {FindUTXO(chain) : chain \in walked}

\* FindSpendableOutputs finds outputs that can be spent (utxo.go:22), by "the
\* index of the output in the transaction" (tx.go:24): its owner's, unspent.
SpendableIsUnspent ==
    UpToDate =>
        \A o \in Owner : \A p \in Spendable(o) :
            p \in Unspent(tip) /\ p.tx.outs[p.out].owner = o

\* "If data is empty, data is generated at random" (transaction.go:63), so
\* that two rewards of a miner differ: no entry of the index ever has more
\* outputs than its transaction.
EntriesFitTransactions ==
    \A tx \in DOMAIN index : Len(index[tx]) <= Len(tx.outs)
==========================================================================
