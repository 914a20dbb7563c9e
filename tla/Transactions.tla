--------------------------- MODULE Transactions ---------------------------
(***************************************************************************)
(* Transactions (transaction.go, tx.go), and the two algorithms that turn  *)
(* a chain of them into an index of unspent outputs: FindUTXO walks the    *)
(* whole chain, Update goes from one index to the next by one block.       *)
(*                                                                         *)
(* A chain is a sequence of blocks, genesis first, and a block a sequence  *)
(* of transactions.  A transaction stands for its own ID: the ID is the    *)
(* hash of the inputs and outputs, and equal contents have equal IDs.  An  *)
(* input names an output by transaction and position; Go counts positions  *)
(* from 0, this module from 1.                                             *)
(***************************************************************************)
EXTENDS Lists

Outpoint(tx, k) == [tx |-> tx, out |-> k]

\* The reward of a block.  Its one input names no output, so there is none here;
\* it carries the text in data, which for a miner is always "Coins to
\* <address>": the random bytes are not used.
CoinbaseTx(to, text) ==
    [ins |-> <<>>, data |-> text, outs |-> <<[value |-> 100, owner |-> to]>>]

--------------------------------------------------------------------------
(* FindUTXO. *)

\* With a bug: Walk from the genesis block up.
WalkUp(chain) == FlattenSeq(chain)

\* The transactions in the order FindUTXO meets them: blocks from the tip down.
Walk(chain) == FlattenSeq(Reverse(chain))

\* One step of FindUTXO.  An output is listed unless an input met before spends
\* it; the listed outputs of a transaction move up into the gaps of the others.
Visit(acc, tx) ==
    LET outs == Chosen(tx.outs, {k \in DOMAIN tx.outs : Outpoint(tx, k) \notin acc.spent})
        before == IF tx \in DOMAIN acc.utxo THEN acc.utxo[tx] ELSE <<>>
    IN  [utxo  |-> [t \in DOMAIN acc.utxo \cup (IF outs = <<>> THEN {} ELSE {tx})
                      |-> IF t = tx THEN before \o outs ELSE acc.utxo[t]],
         spent |-> acc.spent \cup ToSet(tx.ins)]

NothingMet == [utxo |-> [t \in {} |-> <<>>], spent |-> {}]

FindUTXO(chain) ==
    LET txs == Walk(chain)
        met[i \in 0..Len(txs)] == IF i = 0 THEN NothingMet ELSE Visit(met[i - 1], txs[i])
    IN  met[Len(txs)].utxo

\* What FindUTXO is to find: the outputs on the chain that no input on it names.
OnChain(chain) == ToSet(Walk(chain))
Unspent(chain) ==
    {p \in UNION {{Outpoint(tx, k) : k \in DOMAIN tx.outs} : tx \in OnChain(chain)} :
       \A tx \in OnChain(chain) : p \notin ToSet(tx.ins)}

--------------------------------------------------------------------------
(* Update: the index after block, from the index before it. *)

SetEntry(index, tx, outs) ==
    [t \in DOMAIN index \cup {tx} |-> IF t = tx THEN outs ELSE index[t]]

\* With a bug: SpendOutput that keeps an entry without outputs.
SpendOutputKeeps(index, in) ==
    SetEntry(index, in.tx, Chosen(index[in.tx], DOMAIN index[in.tx] \ {in.out}))

\* The output at the position of the input leaves the entry; an empty entry
\* leaves the index.  (The entry is there: Update panics if it is not.)
SpendOutput(index, in) ==
    LET outs == Chosen(index[in.tx], DOMAIN index[in.tx] \ {in.out})
    IN  IF outs = <<>> THEN [t \in DOMAIN index \ {in.tx} |-> index[t]]
        ELSE SetEntry(index, in.tx, outs)

\* The inputs of a transaction are taken out before its outputs come in.
UpdateTx(index, tx) ==
    LET spent[i \in 0..Len(tx.ins)] ==
            IF i = 0 THEN index ELSE SpendOutput(spent[i - 1], tx.ins[i])
    IN  SetEntry(spent[Len(tx.ins)], tx, tx.outs)

Update(index, block) ==
    LET updated[i \in 0..Len(block)] ==
            IF i = 0 THEN index ELSE UpdateTx(updated[i - 1], block[i])
    IN  updated[Len(block)]
==========================================================================
