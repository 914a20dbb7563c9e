# TLA+ models of golang-blockchain

The program is a teaching blockchain in Go: nodes keep a chain of blocks in a
badger database, download blocks from each other over TCP, collect
transactions, mine them, and keep an index of unspent outputs for the wallet
commands. This directory holds models of it, the TLC runs that check them and
the theorems that TLAPS proves about them. Paths below are relative to `src/`.

## Inventory

| Component | State | Operations | What is hard | What makes it correct |
|---|---|---|---|---|
| Block store (`blockchain/blockchain.go`, `chain_iter.go`) | database: blocks by hash, key `lh`; memory: `chain.LastHash` | `InitBlockChain`, `ContinueBlockChain`, `AddBlock`, `Iterator`/`Next`, `GetBlock`, `GetBlockHashes`, `GetBestHeight`, `MineBlock`, `FindTransaction` | `AddBlock` runs in a goroutine per connection, each a badger transaction; `LastHash` is written before the commit and without a lock; the process may die anywhere | the tip is stored and is the highest block; blocks are never lost; memory and database agree; concurrent `AddBlock`s amount to some sequence of atomic ones |
| Block download (`network/network.go`) | memory: `blocksInTransit`; connections on their way | `HandleVersion`, `HandleGetBlocks`, `HandleInv`, `HandleGetData`, `HandleBlock`, `StartServer`, `SendData` | one goroutine per message, a list without a lock, lost messages, restarts, two downloads at once, a tip that arrives first | no block of the chain is forgotten; a download ends, and ends complete; nobody panics over the list |
| UTXO index (`blockchain/utxo.go`, `FindUTXO`) | database: keys `utxo-<ID>` | `Reindex`, `DeleteByPrefix`, `FindUTXO`, `FindSpendableOutputs`, `FindUnspentTransactions`, `Update` | `Reindex` is several transactions; two interleave; a crash in between; the tip moves without it during a download, and to other forks | the index is exactly the unspent outputs; readers never see a mixture; the outputs offered for spending can be spent |
| Merkle tree (`blockchain/merkle.go`, `HashTransactions`) | none | `NewMerkleTree` | odd levels, number of passes | the root covers every transaction; which sizes work |
| Transaction relay (`network/network.go`) | memory: `memoryPool`, `KnownNodes` | `HandleTx`, `MineTx`, `HandleVersion`, `HandleInv`, `HandleGetData`, `SendData` | unlocked Go maps and slices, nodes that are down, restarts, pools that are never pruned, verification that panics | who relays; a node that reported stays known; a transaction that is announced arrives; no pool has what the central one has not |
| Transactions (`transaction.go`, `tx.go`) | none | `NewTransaction`, `Sign`, `Verify`, `CoinbaseTx` | an index that a crash left half rebuilt, positions in its entries, one copy for all digests | value is conserved, outputs are the sender's and spent once, what was signed is what is verified |
| Proof of work (`proof.go`) | none | `Run`, `Validate` | the hash leaves out `Timestamp` and `Height` | a block found is a block that validates |
| Wallets (`wallet/`) | the wallet file | `CreateWallets`, `AddWallet`, `SaveFile`, keys and addresses | load-modify-save without a lock; rewriting in place; byte strings cut in half | no wallet is lost; what was joined is what is split |
| Command line (`cli/cli.go`) | none | the commands | two processes on one database | - |

How they interact: a command opens the database (`ContinueBlockChain`), which
badger lets one process do at a time; `startnode` then accepts connections and
handles each in a goroutine of its own (`network.go:501`). All goroutines share
one `BlockChain` (the database and `LastHash`), `blocksInTransit`, `memoryPool`
and `KnownNodes`. `HandleBlock` calls `AddBlock`, and `Reindex` when no block is
in transit. Errors end in `log.Panic`; a panic in a goroutine ends the process,
so what survives an error is what was committed.

`PROJECT.json` lists the components, the hazards at their lines with the
properties that cover them, and for every definition the lines it translates.

## Modules

    BlockTree            hashes, parents, heights
      ChainSpec          what a block store promises, one step per operation
      ChainStore         one node's database with concurrent AddBlock transactions
        MCChainStore     a five-block tree           ChainStore_proofs
      BlockSync          nodes downloading blocks
        MCBlockSync      two and three nodes                  BlockSync_proofs
    Lists                the loops that make a new list of some elements
    Relay                memory pools and lists of known nodes (with Lists)
      MCRelay            two nodes with restarts, three nodes       Relay_proofs
    Transactions         transactions, FindUTXO and Update as functions
      UtxoSet            the index of unspent outputs and its rebuilding
        MCUtxoSet        chains and forks of up to four blocks    UtxoSet_proofs
      Payment            send and getbalance on that index (with KeyBytes)
        MCPayment        the blocks of MCUtxoSet, five payments   Payment_proofs
    KeyBytes             pairs of numbers as byte strings
    WalletFile           createwallet commands on one file        WalletFile_proofs
      MCWalletFile       three at a time
    Merkle               NewMerkleTree, a pass at a time
      MCMerkle                                       Merkle_proofs
    Basics_proofs        lemmas on induction, loops, lists and bags

**BlockTree.** A block is its hash; `PrevHash` and `Height` are constant
functions of it. `AddBlock` validates nothing: there are foreign genesis blocks,
forks, gaps, and heights that need not be the parent's plus one. What is assumed
beside the types is `WalksEnd`: a walk from parent to parent ends, because a hash
covers the hash of the parent. Without it `BlockHashes`, the result of
`GetBlockHashes`, would not be defined; nothing else uses it.

**Lists.** `Chosen` is the loop that appends some elements of a list to a new
one: the unspent outputs of a transaction in `FindUTXO`, the outputs that are left in
`Update`, and, as `Without`, the loops of `SendData` over `KnownNodes` and of
`HandleInv` over `blocksInTransit`.

**ChainStore** and **ChainSpec.** `dir`, `stored` and `lh` are the database,
`proc`, `lastHash` and `conn` the process. `db.Update` is three steps:
`AddBegin` takes the snapshot (`seen`, `head`), `AddSeen`/`AddClosure` run the
closure on it, `AddCommit` writes or fails. `stale` is badger's conflict
detection: the keys others have committed since the snapshot; a commit whose
reads meet them gets `ErrConflict`, and `Handle` panics. `AddClosure` sets
`lastHash`, as line 165 does, before the commit. `InitOpen` and `InitCommit` are
`createblockchain`; between them lies a crash that leaves a directory without
`lh`. `IterBegin` and `IterNext` are any loop over an iterator. `MineBlock` is
the whole of `MineBlock`, which never gets past line 275: the value it decodes
as a block is the hash under `lh`. `Kill` is a signal or a crash. `ChainSpec`
is the same store with an atomic `Add`. `openDB` deletes a `LOCK` file that badger
complains of and opens the database again (`blockchain.go:401-434`). No module has
this retry: that two processes never have the database open at the same time is
assumed of the lock that the operating system holds on the directory, which deleting
the file does not take away.

**BlockSync.** A *job* is a connection: a message on its way, or a handler that
is between two of its steps. `HandleInv` is cut after the request is sent
(`FilterTransit` is the rest), `HandleBlock` after `AddBlock` (`NextBlock`) and
again between sending the next request and taking it off the list
(`PopTransit`), `Reindex` between deleting and rebuilding the index. Messages
of a node to one that is down are lost; the messages to a process that ends are
lost with it. `AddBlock` is one step here; that is what `Refinement` proves it
may be, and `LastHashAlwaysAgrees` is why the model needs no `LastHash` of its
own outside a commit. The panic of a commit that conflicts is covered by
`Kill`. The walk of `GetBlockHashes` and of `FindUTXO` is one step. Left out:
`KnownNodes` (nothing on this path reads it once `StartServer` has sent the
version), transactions, errors of `io.Copy`.

Nodes start with a complete chain. Longer chains exist although `MineBlock`
panics: a node takes any block it is sent.

`clean` is a history variable and controls nothing. It is set when a node starts
with a complete chain and an index of it, or gets an inventory while it is not
downloading (one that covers what its chain lacks: an earlier download may have
left a gap that the new list does not name), and lost when (1) a second inventory
comes in during a download, (2) a block is handled before the goroutine that
requested it has taken it off the list, (3) a peer that owes an answer, or that
it sends a request to, is down. The properties of a download say what holds while it is set; those three
events are what a reader has to fear. (1) and (2) do make the code lose blocks
or panic in the list, and no property denies that.

**Relay** is made like BlockSync, over the other half of `network.go`. A handler
is cut where it sends, where a node did not answer, and where it computes a new
`KnownNodes` before it assigns it. `SendData` is the dial: if the node is down the
handler stands at `fails`, from where `Filter` reads the list as it is by then and
`Drop` assigns what is left of it, so that between the failed dial and the loop the
node may start, report, and be found on the list. `HandleVersion` is `HandleVersion`
up to its answer, `Check` (`NodeIsKnown`: `CheckKnown` and `CheckNew`), and for a new
node `Read` and `Assign` (the `append`). `Relay` is one turn of the loop of `HandleTx`
over the list it began with. A wallet has no address (`NoAddress`). `MineTx` and
`HandleTxAlone` end the process: the first because it gets to `MineBlock`, or to a
transaction without a parent, the second because `KnownNodes[0]` of an empty list is
out of range. `Invalid` are the transactions that `VerifyTransaction` refuses, which
alone let a miner go on. Heights are not modelled, so `HandleVersion` chooses freely
between its three branches. `DialForBlocks` stands for the dials of the block
download, as far as they take a listed node off the list. Left out: an answer to the
answer of a version (it takes a peer that has grown twice meanwhile), `HandleAddr`
(nothing sends `addr`), and headers of slices that are read half written; that a map
is ranged over while it is written is an end of the process, and covered by `Kill`.

Three history variables, which control nothing, say when the properties hold: `lost`
(the central node was down while this process of the node ran, or while an earlier one
did whose connections are still there), `overlap` (two goroutines of this node were
between reading its list and assigning it; `CheckKnown` assigns nothing and does not
count) and `slipped` (the node reported to the central one while a goroutine there
was about to take an earlier process of it off the list). Each is a thing that can go
wrong, and does: `overlap` and `slipped` are the two ways in which the central node
forgets a node that runs, `overlap` the one way to be listed twice, `lost` the reason
for an empty transaction and for a list without the central node. TLC gives
counterexamples to `Remembered` without either of its two premises; what it shows is
that there is no third way.

**Transactions** and **UtxoSet.** `Visit` is the loop body of `FindUTXO`, for
one transaction after the other in the order of the walk; a transaction is its own
ID, since the ID is the hash of its contents. A block is named by the chain that ends
in it, since its hash covers its transactions and the hash of its parent; its height is
the length of that chain, as `MineBlock` makes it, and two blocks with one parent and
the same transactions are one. What `TreesAssumption` says of a chain is that an input
is a transaction and a position in its outputs, and that a transaction has an output
and spends outputs of transactions in blocks below its own, which `MineTx` sees to:
`VerifyTransaction` panics if it does not find them on the chain. `Trees` are the sets
of blocks that a node can receive. `Update` is `UTXOSet.Update`, a function of an index
and a block: its only caller (`cli.go:176`) runs it behind `MineBlock`, so it is
checked as an algorithm and is no action.

`AddBlock` is `HandleBlock`: any block that the node does not have is stored, and the
tip moves to it if it is higher, whether or not its parent is there and whatever fork
the old tip was on. Then either `Reindex` follows, or, when blocks are in transit,
nothing (`network.go:242-246`); which of the two is free here, as `blocksInTransit` is
in BlockSync. So the tip runs ahead of the index, chains have gaps while a download
goes on and after one that was cut off, and a longer fork takes over.
`Enter`/`Collect`/`Delete`/`Find`/`Write` are the steps of `Reindex` between which
other goroutines run or the process may die; `Find` is the walk of `FindUTXO`, which
ends the process when a block below the tip is missing (`FindPanics`). That walk is
one step, from the `LastHash` of one moment: blocks are only added, so a walk that lasts
longer meets the same ones. Left out is a walk that is saved because, while it goes on,
the tip moves and after that a block comes in that was missing below the old tip.

Two history variables, which control nothing, say what the index can be: `trust` is
"whole" after a `Reindex` that had the index for itself, "mixed" after overlapping
ones, "lost" after one that died; `walked` are the tips below which entries of the
index, or of a Reindex about to write, can have been found. `UpToDate` is an index that
a lone Reindex has made of the present tip. `Unspent` is the reference definition that
`FindUTXO` is checked against. Three conditions on the chain appear in the properties
because the code is right only under them: `NoRepeats` (no transaction is on the chain
twice), `NoGaps` (no spent output of a transaction comes before an unspent one) and
`Updatable` (a block spends one output of a transaction at most). What is true of an
index of an older tip is only that it is one (`NeverAMixture`). After a switch between forks an older Reindex that writes late can put the
entry of the old fork in place of that of the new one, and an output that was spent only
on the old fork is then missing: that is the exception in `NothingUnspentIsMissing`.

**Payment** extends UtxoSet by the command `send`, which needs the database for
itself and finds the index as the last process left it. `FindEntry` is one turn
of the iterator of `FindSpendableOutputs` (in any order, the keys are hashes),
`Take` the body of its inner loop, `Build` the rest of `NewTransaction` up to the
signatures, `Sign` the signature of one input. `Found` are the transactions that
`FindTransaction` comes to from the tip before a block is missing; over any other, and
over a position that the transaction does not have, signing panics (`SignPanics`): after
a download that was cut off, after a switch between forks, or where an entry merges two
transactions. The inputs are grouped by
transaction in any order, as `validOutputs` is a Go map. A digest is the record
of everything it covers. A signature is the bytes that are sent, with the pair
of numbers, key and digest that `ecdsa.Verify` can tell apart. `Verify` is what a
miner with the same chain computes; it is no action because it changes nothing. Nor is `getbalance`, which reads the same
entries: `Owned` is what an owner has in one of them, `Balance` the sum.

**KeyBytes.** A number is the bytes of `big.Int.Bytes`, without leading zeros.
`Join` writes two of them one after the other, `Halves` cuts in the middle. One
number in 256 is a byte short, so that this is no rare case: `Fits` says which
pairs survive.

**WalletFile.** `createwallet` is `Load`, `AddWallet`, `Truncate` and `Write`, as
`ioutil.WriteFile` empties the file before it writes. A command that finds an
empty file panics and changes nothing, so it is no step. `rival` is history: the
command overlapped with another one. The loser of such a pair does lose its wallet, and
a command that dies between `Truncate` and `Write` does lose the file; `SavedIsKept`
says that nothing else is lost.

**Merkle.** `Level` is one pass of the outer loop of `NewMerkleTree`; a node is
the sequence of the data below it. `nodes[j+1]` of an odd level is the panic of
an index out of range.

## Runs

| Run | Bounds | What it shows |
|---|---|---|
| `store` | 5 blocks (a fork, a chain of three, a foreign genesis), 2 goroutines, unbounded restarts | `TypeOK`; `TipIsStored`, `TipIsHighest` (no stored block above the tip); `LastHashAgrees`; `ConflictIsReal` (a commit fails exactly when its decision was overtaken); `TipOnlyRises`; `ImplementsChainSpec` |
| `sync` | 4 blocks, `MaxLag` 2; 2 nodes that start twice, or 3 of which the central one does: the long chain is the central node's or another's, and two nodes may announce different chains | `NothingForgotten`, `QuietMeansComplete`, `RequestsAreAnswered` (a node that serves may itself be downloading), `CleanDownloadsDoNotPanic`, and `CatchesUp` under fairness |
| `utxo` | 7 sets of up to five blocks, chains of up to four (all outputs of a transaction spent one after the other, a spent one before an unspent one, two equal outputs of one transaction spent one after the other, two equal rewards, blocks that spend one or two outputs of a transaction, two forks that spend different outputs), taken in any order by 2 goroutines; 5 payments, numbers of one and two bytes | the index: `IndexIsExact`, `NothingUnspentIsMissing`, `NeverAMixture`, `UpdateIsReindex`; payments: `BalanceIsSpendable`, `ValueIsConserved`, `SpendsUnspent`, `SignsUnlessRepeated`, `VerifiesIfItFits` |
| `relay` | 2 nodes that start twice with 1 transaction, or with 2 if the central one starts once; 3 nodes that start once with 1, or of which the central one starts twice with none | `OnlyCentralRelays`, `StaysConnected`, `CentralHasAll`, `NobodyTwice`, `Remembered`, and `Delivered` under fairness |
| `wallets` | 3 commands, 4 wallets | `SavedIsKept` |
| `merkle` | up to 9 transactions of 2 kinds | `RootCoversData` |
| `last_hash` | as `store` | violated: `LastHash` names a block that is not stored yet |
| `mine` | as `store` | violated: `MineBlock` panics |
| `getblocks` | as `sync` | violated: a downloading node that is asked for its hashes dies |
| `utxo_gap` | a chain that spends the first of two outputs | violated: the position offered for spending is a spent one's |
| `utxo_reward` | a chain with two blocks of one miner | violated: two rewards share one entry |
| `merkle_levels` | up to 9 transactions | violated: a level has an odd number of nodes |

Why the bounds are enough. Two goroutines suffice for every pair of
transactions that can conflict, and five blocks for each of them being below,
beside, above or without relation to the other; any number of both is covered
by the proofs. A download of three blocks has a first, a middle and a last
block, so that every branch on the list is taken with a list of two, one and no
hashes; two starts allow a restart at any point. `MaxStarts` bounds starts and,
in BlockSync, so that a node can be started again, kills. `MaxLag` bounds how many goroutines
of a node may still have to take a block off the list when `NextBlock` runs; it
is needed because each such goroutine can request one block more, and a list of
two is emptied by two. It keeps the race itself: one goroutine behind is enough
to request a block twice and to slice an empty list. The forks of `utxo`
share two blocks and go on for one and for two, so that the tip can be on the one,
then on the other, with and without the blocks between; a Reindex of the first can
write after one of the second. Two goroutines leave every kind of index; what more of
them add is covered by the proofs, which are for any number. Nine
transactions are beyond two powers of two. The payments are less than an output,
exactly one or two of them, and more than there is. In `relay`, two processes of
one node make the races over its place on the list; the third node is the one
that must still be told after a dead one. `DialForBlocks` makes one dial at a
time in a process. `sync` and `relay` begin when some of the starts (in `relay` also
some transactions) are over and nothing runs, because all nodes with all their starts
are too much to explore.

Deadlock is checked except in BlockSync, Relay, Merkle and WalletFile: a server
without connections waits, a function that has returned is over, and there is
nothing left to do with a wallet file that cannot be read.

**Fairness.** BlockSync and Relay (`sync`, `relay`) assume weak fairness of `Work`, the handling of some
connection: the accept loop runs and the Go scheduler runs some goroutine that
can. That is weaker than fairness for each goroutine. Starting and killing nodes
is not fair. `CatchesUp` promises a complete chain as high as the peer's unless
the download loses its `clean` or the node goes down. `Delivered` promises
that a node that the central one has begun to tell of a transaction gets it
unless one of the two ends; `Work` suffices because every handler ends after a
bounded number of steps. Every other module states safety only.

## Proofs

`ChainStore_proofs`, for any set of blocks, any parents and heights and any
number of goroutines:

- `TypeCorrect`: `Spec => []TypeOK`.
- `Invariance`: `Spec => []IInv`, from which `TipAlwaysStored`,
  `TipAlwaysHighest`, `LastHashAlwaysAgrees` and `ConflictAlwaysReal` follow.
- `TipRises`: `Spec => TipOnlyRises`.
- `Refinement`: `Spec => ImplementsChainSpec`. `InitCommit` and `AddCommit` map
  to `Create` and `Add`, every other step is a stutter.

`TipIsHighest` is not inductive: a commit compares heights with the head of its
snapshot. `IInv` adds `SnapshotInv`, which ties an open transaction to the
database: what it saw is still stored, its `stale` holds exactly what has
changed, and as long as `lh` is not stale its `head` is still the tip. A commit
without a conflict was therefore decided on the present tip (`CommitIsCurrent`).
`LastHashInv` is what `LastHashAgrees` needs: while some transaction that moves
the tip can still commit, `lastHash` is the block of one that does. When two
such transactions are open the last closure wins `lastHash` and the first commit
wins `lh`; the other then conflicts and the process is over, so the two never
disagree at rest.

The assumptions are `BlockAssumption` (types of the constants) and the model of
badger's conflict detection in `Conflict`.

`Merkle_proofs`, for any set of transactions and any bound on their number:

- `WidthInvariant`: `Spec => []MInv`. For n leaves, a level has n, n/2 and n/4
  nodes after none, one and two passes, and loses at least one more with each
  pass after that; a level is empty only if there are no leaves. As there are
  n/2 passes, only two or four leaves can end in a root.
- `OnlyOneToFour`: `Spec => []OneToFour`: a tree is returned for one to four
  transactions and for no other number. No run has it as a property, because it is no
  promise but what becomes of one: `merkle_levels` refutes what the comment says.
- `RootAlwaysCoversData`: `Spec => []RootCoversData`.

`WalletFile_proofs`, for any number of commands and wallets:

- `WalletTypes` and `WalletInvariance`. `SavedIsKept` is not inductive: the
  invariant adds that two commands under way know of each other (`Rivals`), so
  that a command without a rival held the only copy of the file when it wrote,
  that nothing is saved while there is no file, and that a command holds the
  wallet it has made.
- `SavedAlwaysKept`: `Spec => []SavedIsKept`.

`UtxoSet_proofs`, for any sets of blocks with any gaps and forks
(`TreesAssumption`), in whatever order they come, and any number of goroutines and
crashes:

- `FindUTXOIsRight` (a lemma): what the walk of `FindUTXO` finds on any chain.
  Every unspent output is in the entry of its transaction; and if no transaction is
  repeated, the entries are those of the transactions with an unspent output, and
  each is the list of these outputs in order. The walk from the tip down is what makes
  it true: `SpendersFirst`, whoever spends an output is met before it.
- `UtxoInvariance`: `Spec => []UtxoInv`. Besides the types it says: `LoneReindex`,
  what a Reindex that has the index for itself has done so far (after its `Delete`
  the index is empty, and what it has found is what is below one tip, the only one in
  `walked`); `ExactIndex`, what the index is when the last Reindex was alone: the whole
  of what `FindUTXO` finds below one tip, or, while another one runs alone, that or
  nothing; `Traceable`, for Reindexes that overlap or die: every entry, and all that is
  still to be written, was found below some tip in `walked`; `Covered`, for those that
  overlap: once the present tip has been found, every transaction with an unspent
  output is in the index, or a Reindex that is under way is going to write it. An
  entry found below any other tip has an output that is unspent on this one unless it
  is spent on that one (`StillUnspent`); below an earlier tip of the same chain it
  cannot be, so an entry written late is too large there and never too small.
- `AlwaysExact`, `NothingMissingEver`, `NeverMixed`: `Spec => []` of `IndexIsExact`,
  `NothingUnspentIsMissing` and `NeverAMixture`.
- `UpdateIsAlwaysReindex`: `Spec => []UpdateIsReindex`. An entry without gaps is the
  first outputs of its transaction (`ChosenOfFirst`), so that a position in the entry
  is one in the transaction, and what `Update` takes out is the output that is spent
  (`OutputIsSpent`). Transaction after transaction, what it has made of an exact index
  depends only on which outputs are spent and which transactions have been added
  (`Updated`, kept by `TxIsUpdated`), and with the whole block that is what
  `FindUTXOIsRight` says of the chain with the block on it.

`Payment_proofs`, for any sets of blocks, payments, keys and numbers (`TreesAssumption`
and `PaymentAssumption`: the types, and that no output has a negative value, because
`send` refuses an amount below 1 and makes change only of a surplus):

- `HalvesOfJoin`: `Halves(Join(r, s)) = <<r, s>> <=> Fits(r, s)` for numbers of any
  length. Cutting in the middle cuts where the numbers meet exactly if they fit; if it
  cuts elsewhere, the first number comes out too short, or too long by a byte that is
  not a leading zero of it.
- `VerifyIffItFits`: a transaction signed as `Sign` does verifies exactly if its
  numbers fit. It rests on `HalvesOfJoin` and on `SameDigest`, that `Sign` and
  `Verify` make the same copy.
- `PayInvariance`: `PaySpec => []PayInv`; every signature made so far is the
  sender's, over the digest of its input. That is what `VerifiesIfItFits` needs
  to be inductive: signing the next input changes no digest.
  `AlwaysVerifiesIfItFits`: `PaySpec => []VerifiesIfItFits`.
- `ExactForPayments`, `NothingMissingForPayments`, `NeverMixedForPayments`,
  `UpdateForPayments`: the properties of the index under `PaySpec`. `UtxoInv` stays an invariant when
  commands run in between, because a command has the database for itself
  (`SendIsAlone`) and ends without writing.
- `TakenInvariance`: `PaySpec => []TakenInv`, what the properties of a payment have
  in common. While the index is searched (`Taking`), the outputs taken are the
  sender's at their positions in the index, none twice, none of a key that is still
  to come, worth what was counted, and the amount was not reached before the last.
  While the payment is signed (`Building`), the inputs are such a list for some
  order of the groups. The loop over an entry is `TakeIsSound`, the grouping by
  transaction `InputsAreTaken` and `InputsAreWorth`.
- `ValueIsAlwaysConserved`, `SpendsWhatIsUnspent`, `AlwaysSigns`:
  `PaySpec => []` of `ValueIsConserved`, `SpendsUnspent` and `SignsUnlessRepeated`.
  The last needs a chain without gaps and an index that was found below tips of this
  chain only, but not the present one, and holds whatever Reindexes that overlapped or
  died left behind: an entry is never longer than its transaction as long as none is
  repeated (`EntriesFit`). `SpendsWhatIsUnspent` needs that an entry without gaps
  has the positions of its transaction (`GaplessEntry`).
- `BalanceIsAlwaysSpendable`: `PaySpec => []BalanceIsSpendable`. The invariant is
  `Counted`: as long as the search goes on, what it has counted is all that the sender
  has in the entries met so far, or at least the amount. `getbalance` and the search
  meet the keys in different orders; that it makes no difference is the lemma on sums
  over sets, by which both are the one function that adds an element's value with the
  element (`Additive`, `BalanceAdds`). `EntryCounts` is the loop over an entry. It needs
  that no output is a debt (`PaymentAssumption`), since the search stops at the amount
  and `getbalance` goes on.

What the proofs have changed in these two modules: `SpendsUnspent` and
`UpdateIsReindex` once had as their premise that the entry is a prefix of the outputs
of its transaction. With two equal outputs of which the first is spent that holds and
the properties do not; `TwinTree`, which was added for it, shows TLC the
counterexample. The premise is now `NoGaps`. And an idle goroutine used to count as one
that is not alone, so that with two goroutines `NeverAMixture` said next to nothing;
`Enter` now takes `alone` only from those that are in Reindex. An earlier model had one
growing chain whose every new block was followed by a Reindex; there "the last Reindex
was alone" was premise enough for `IndexIsExact` and `SpendsUnspent`, which it is not:
the tip must also be one that was found (`UpToDate`).

`BlockSync_proofs`, for any tree of blocks, any number of nodes, starts and
kills (`BlockAssumption`, `WalksEnd` and the types of the constants):

- `NothingIsForgotten`, `QuietIsComplete`, `NoRequestIsDropped` (`Spec => []` of
  `NothingForgotten`, `QuietMeansComplete`, `RequestsAreAnswered`),
  `NoPanicWhileClean` (`Spec => CleanDownloadsDoNotPanic`) and `TypeCorrect`.
- `Invariance`: `Spec => []IInv`. None of the properties is inductive alone. What
  is, is said of a node that is up and `clean` (`DownloadInv`). One connection at
  most bears the download, a block requested or on its way or the goroutine that
  deals with it (`OneBearer`), and one goroutine at most has still to take a block
  off the list (`OneLaggard`); the block it will take off is stored or expected
  already, so that nothing is lost with it (`LaggardIsRight`). The node that the
  download comes from has all that is listed (`SourceHasList`). What lies below
  the tip, or below a listed or expected block, is stored, listed or expected
  (`NoGap`). When the index is rebuilt nothing is left to do (`IndexingIsLast`), and
  when nobody bears the download the index is that of the tip (`BornUntilDone`).
  Each handler step is a lemma.
- The invariant showed that `RequestsAreAnswered` is false of a node that is not
  clean: two nodes announce their chains to a third, the second list overwrites
  the first, and the blocks of one are requested from the other. The property is
  therefore about clean nodes, and the third tips in `ThreeTips` were added so
  that the case happens in a run. It also showed that a second inventory does not
  make a node with a gap clean unless it covers the gap.

`Relay_proofs`, for any number of nodes, miners and transactions, and any number
of starts and crashes (`RelayAssumption`):

- `OthersDoNotRelay`, `NoNodeIsCutOff`, `CentralIsAhead`, `ListedOnce`,
  `NoNodeIsForgotten` and `TypeCorrect`: `Spec => []` of `OnlyCentralRelays`,
  `StaysConnected`, `CentralHasAll`, `NobodyTwice`, `Remembered` and `TypeOK`.
- `Invariance`: `Spec => []IInv`, in three layers. `CentralInv` says of every
  connection (`Sound`) what makes its next step right: a list that is about to be
  assigned still has the central node, and first in the central process; a relay
  belongs to the central node and to a transaction that it has pooled; a request
  is about a transaction that the central node has, unless that was down
  meanwhile (`lost`, also of a later process of the node as long as connections of
  an earlier one are there). `ListInv`: while `overlap` is not set there is one
  update of a list at a time, it has the list as it is, and it appends nobody who
  is listed. `MemoryInv`: while neither `overlap` nor `slipped` applies, the
  central node is going to check whether it knows a node that has reported, or keeps
  it, in its list, in every list that it is going to assign, and against every dial
  that has failed.

`Basics_proofs` holds what the others rest on: the least element of a set of
numbers, induction up to n for a set, `Iteration` (a loop has a state after every
pass, so that a recursive function over an interval exists and obeys its equation) and
`LoopIsRun`, what that means for `Chosen` and for `FlattenSeq` (`ChosenLoop`,
`FlattenLoop`), `WithoutIsAList`, what becomes of a bag when one element is
replaced, and sums over finite sets: the fold by which `MapThenSumSet` is defined takes
the elements in the order of `CHOOSE`, and is nevertheless additive
(`AdditiveExists`, `FoldingIsAdditive`).

Not proved: liveness and everything about `ENABLED` (`CatchesUp`, `Delivered`), which
stay with TLC. Every safety and action property of the passing runs is stated by a
theorem. The induction theorems of the library, which take a predicate as a parameter,
cannot be used; where induction over data is needed it is stated of a set or of a
function (`InductionUpTo`, `Iteration`) for the one loop in question.

## Findings

1. `AddBlock` publishes `LastHash` before the commit (`blockchain.go:165`); an
   iterator started meanwhile panics. Run `last_hash`.
2. `MineBlock` decodes the value of `lh` as a block (`blockchain.go:275`) and
   panics on every call. Run `mine`.
3. `getblocks` to a node that is downloading ends it (`blockchain.go:202`). Run
   `getblocks`.
4. `FindSpendableOutputs` gives positions in the index entry, not in the
   transaction (`utxo.go:56`). Run `utxo_gap`.
5. The random data of `CoinbaseTx` is not used (`transaction.go:70`), so rewards
   of a miner share an ID. Run `utxo_reward`.
6. `NewMerkleTree` makes only the leaves even (`merkle.go:63`), where its comment
   promises that of every level (`merkle.go:46`); blocks of five or more transactions
   panic. Run `merkle_levels`; which numbers work is `OnlyOneToFour`.

Besides, without a run of their own: a wallet whose public key does not fit makes transactions that no miner
accepts (`VerifiesIfItFits`); a node that has lost the central one panics at the next
transaction (`StaysConnected`); the central node can forget a node that restarts
(`Remembered`, its premises `overlap` and `slipped`); after a download that was cut off,
reindexutxo and send panic over the gap (`FindPanics`, `SignPanics`); a block of a
download that is not the last moves the tip without any update of the index
(`network.go:242`), so that a process that ends then leaves an index from which `send`
spends what is spent and does not find what is not (the premise `UpToDate`). Of the
last a comment says that `Update` is called for every block that is added
(`utxo.go:147`), which nothing does; of the others no text of the repository says
anything else.

Where the code does go wrong, a property says how far the damage goes, and its premise
names the cause: `clean` (a second inventory, a request for a block twice, a peer that
goes down), `overlap`, `slipped` and `lost` in Relay, `rival` and a file that can be read
in WalletFile, `UpToDate`, `NoRepeats`, `NoGaps`, gaps and forks in UtxoSet and Payment.
Those causes are real; nothing here says that they do not occur.

## Not modelled, and the plan

Next: an abstract specification of the index (a set of unspent outputs that a Reindex
replaces at once) that UtxoSet implements while no Reindex overlaps another, and of the
download (a chain that grows to that of a peer) for BlockSync; BlockSync and UtxoSet
joined, so that whether a Reindex follows is decided by `blocksInTransit`.

Not modelled: the search for a nonce (`proof.go`; only its outcome matters to
the rest), the retry of `openDB` after a `LOCK` error (above), gob encoding, Base58 and hashing (pure functions of libraries),
printing, badger itself beyond snapshot, commit and conflict.
`HandleAddr`, `SendAddr` and `RequestBlocks` have no caller that anything in the
program triggers. A second payment before the first is in a block spends the
same outputs again, and nothing in the code notices: the pools hold both.

## Running

    tlc -workers 2 -config ChainStore.cfg MCChainStore
    tlapm ChainStore_proofs.tla

and likewise for the other configurations listed in `PROJECT.json`. The longest
run, `sync`, takes about three minutes.
