---------------------------- MODULE ChainStore ----------------------------
(***************************************************************************)
(* The block store of one node: the badger database, the process that has  *)
(* it open, and the goroutines of that process, one per connection         *)
(* (network.go:501), that read and extend the chain concurrently.          *)
(*                                                                         *)
(* db.Update runs a closure on a snapshot and commits its writes at the    *)
(* end.  badger refuses the commit with ErrConflict when a key the closure *)
(* read has been committed by another transaction since the snapshot; the  *)
(* code hands every error to Handle, which panics, and a panic in a        *)
(* goroutine ends the process.                                             *)
(***************************************************************************)
EXTENDS BlockTree

CONSTANT Conn  \* the goroutines HandleConnection can be running in

VARIABLES
    dir,       \* the database directory exists (DBexists finds MANIFEST)
    stored,    \* database: the hashes whose block is stored
    lh,        \* database: the value of key "lh", NoHash when there is none
    proc,      \* the process on this database: "down", "creating", "node"
    lastHash,  \* memory of the process: chain.LastHash
    conn,      \* the goroutines: what each is doing, and its transaction
    exit       \* why the last process ended

dbVars == <<dir, stored, lh>>
vars == <<dir, stored, lh, proc, lastHash, conn, exit>>

MaybeHash == Hash \cup {NoHash}

(***************************************************************************)
(* A goroutine.  pc: "idle"; "open": in AddBlock, the transaction has its  *)
(* snapshot; "commit": its closure has returned; "walk": in the loop of an *)
(* iterator.  arg: the block to add, or the iterator's CurrentHash.  seen  *)
(* and head: the blocks and the "lh" of the snapshot.  stale: the keys     *)
(* committed by others since the snapshot (badger's commit timestamps).    *)
(***************************************************************************)
Goroutine == [pc    : {"idle", "open", "commit", "walk"},
              arg   : MaybeHash,
              seen  : SUBSET Hash,
              head  : MaybeHash,
              stale : SUBSET Key]

Idle == [pc |-> "idle", arg |-> NoHash, seen |-> {}, head |-> NoHash, stale |-> {}]

ExitCauses == {"none", "done", "signal", "conflict", "missing", "decode"}

Init ==
    /\ dir = FALSE
    /\ stored = {}
    /\ lh = NoHash
    /\ proc = "down"
    /\ lastHash = NoHash
    /\ conn = [c \in Conn |-> Idle]
    /\ exit = "none"

\* The process ends: goroutines, open transactions and memory are gone, what
\* was committed stays.
Ends(cause) ==
    /\ proc' = "down"
    /\ lastHash' = NoHash
    /\ conn' = [c \in Conn |-> Idle]
    /\ exit' = cause

\* Handle(err) or a failed Deserialize: log.Panic.
Panic(cause) == Ends(cause) /\ UNCHANGED dbVars

--------------------------------------------------------------------------
(* Starting and stopping a process. *)

\* InitBlockChain up to badger.Open: no directory yet, and Open makes one.
InitOpen ==
    /\ proc = "down"
    /\ ~dir
    /\ dir' = TRUE
    /\ proc' = "creating"
    /\ UNCHANGED <<stored, lh, lastHash, conn, exit>>

\* With a bug: "lh" is set in a transaction before that of the block.
InitTipFirst(g) ==
    /\ proc = "creating"
    /\ lh' = g
    /\ IF lh = NoHash
       THEN UNCHANGED <<dir, stored, proc, lastHash, conn, exit>>
       ELSE stored' = {g} /\ Ends("done") /\ UNCHANGED dir

\* The Update of InitBlockChain: mine the genesis block, store it and "lh" in
\* one transaction.  The command then ends.
InitCommit(g) ==
    /\ proc = "creating"
    /\ stored' = {g}
    /\ lh' = g
    /\ Ends("done")
    /\ UNCHANGED dir

\* With a bug: the error of Get is ignored.
ContinueUnchecked ==
    /\ proc = "down"
    /\ dir
    /\ proc' = "node"
    /\ lastHash' = lh
    /\ UNCHANGED <<dir, stored, lh, conn, exit>>

\* ContinueBlockChain: open the directory and read "lh" into memory.  Get
\* fails, and Handle panics, when the directory holds no "lh".
ContinueBlockChain ==
    /\ proc = "down"
    /\ dir
    /\ IF lh = NoHash
       THEN Panic("missing")
       ELSE /\ proc' = "node"
            /\ lastHash' = lh
            /\ UNCHANGED <<dir, stored, lh, conn, exit>>

\* SIGINT or SIGTERM (CloseDB), or a crash of the process.
Kill ==
    /\ proc # "down"
    /\ Panic("signal")

--------------------------------------------------------------------------
(* AddBlock: HandleBlock calls it with whatever block a peer sent. *)

\* With a bug: a block as high as the tip replaces it.
RaisesOrEquals(b, t) == Height[b] >= Height[t]

Raises(b, t) == Height[b] > Height[t]

\* The keys goroutine c's closure read and wrote.
Reads(c) == {conn[c].arg, "lh", conn[c].head}
\* With a bug: Writes where "lh" is set in any case, to what it was.
WritesLastHash(c) == {conn[c].arg, "lh"}

Writes(c) ==
    {conn[c].arg} \cup (IF Raises(conn[c].arg, conn[c].head) THEN {"lh"} ELSE {})

InTransaction(c) == conn[c].pc \in {"open", "commit"}

\* db.Update takes the snapshot.
AddBegin(c, b) ==
    /\ proc = "node"
    /\ conn[c].pc = "idle"
    /\ conn' = [conn EXCEPT ![c] = [pc |-> "open", arg |-> b, seen |-> stored,
                                    head |-> lh, stale |-> {}]]
    /\ UNCHANGED <<dir, stored, lh, proc, lastHash, exit>>

\* The block is stored already: the closure returns with nothing to commit.
AddSeen(c) ==
    /\ conn[c].pc = "open"
    /\ conn[c].arg \in conn[c].seen
    /\ conn' = [conn EXCEPT ![c] = Idle]
    /\ UNCHANGED <<dir, stored, lh, proc, lastHash, exit>>

\* With a bug: the closure leaves chain.LastHash as it is.
AddClosureForgets(c) ==
    /\ conn[c].pc = "open"
    /\ conn[c].arg \notin conn[c].seen
    /\ conn' = [conn EXCEPT ![c].pc = "commit"]
    /\ UNCHANGED <<dir, stored, lh, proc, lastHash, exit>>

\* The closure sets the block and, when it is higher than the last block, "lh"
\* and chain.LastHash - the latter at once, before the transaction commits.
AddClosure(c) ==
    /\ conn[c].pc = "open"
    /\ conn[c].arg \notin conn[c].seen
    /\ IF conn[c].head \notin conn[c].seen
       THEN Panic("missing")
       ELSE /\ conn' = [conn EXCEPT ![c].pc = "commit"]
            /\ lastHash' = IF Raises(conn[c].arg, conn[c].head)
                           THEN conn[c].arg ELSE lastHash
            /\ UNCHANGED <<dir, stored, lh, proc, exit>>

\* With a bug: a database that does not detect conflicts.
NoConflict(c) == FALSE

Conflict(c) == Reads(c) \cap conn[c].stale # {}

\* The commit: all writes at once, or ErrConflict and the panic of Handle.
AddCommit(c) ==
    /\ conn[c].pc = "commit"
    /\ IF Conflict(c)
       THEN Panic("conflict")
       ELSE /\ stored' = stored \cup {conn[c].arg}
            /\ lh' = IF Raises(conn[c].arg, conn[c].head) THEN conn[c].arg ELSE lh
            /\ conn' = [d \in Conn |->
                          IF d = c THEN Idle
                          ELSE IF InTransaction(d)
                               THEN [conn[d] EXCEPT !.stale = @ \cup Writes(c)]
                               ELSE conn[d]]
            /\ UNCHANGED <<dir, proc, lastHash, exit>>

--------------------------------------------------------------------------
(* Iterators, and mining. *)

\* GetBlockHashes, FindUTXO and FindTransaction take an iterator at LastHash.
IterBegin(c) ==
    /\ proc = "node"
    /\ conn[c].pc = "idle"
    /\ conn' = [conn EXCEPT ![c] = [Idle EXCEPT !.pc = "walk", !.arg = lastHash]]
    /\ UNCHANGED <<dir, stored, lh, proc, lastHash, exit>>

\* Next fetches the current block in a View of its own and moves to its parent;
\* the loop ends behind a genesis block.  A block that is not there is a panic.
IterNext(c) ==
    /\ conn[c].pc = "walk"
    /\ IF conn[c].arg \notin stored
       THEN Panic("missing")
       ELSE LET parent == PrevHash[conn[c].arg]
            IN  /\ conn' = [conn EXCEPT ![c] =
                              IF parent = NoHash THEN Idle
                              ELSE [conn[c] EXCEPT !.arg = parent]]
                /\ UNCHANGED <<dir, stored, lh, proc, lastHash, exit>>

\* Whether Deserialize accepts the value stored under key k.  A block is stored
\* under its hash; the value of "lh" is the 32 bytes of a hash, the first two of
\* them zero (Difficulty is 18), which gob refuses as an encoding of a Block.
HoldsBlock(k) == k \in Hash

\* MineBlock takes the item of "lh" for the last block as well (lines 270-275):
\* Deserialize fails, and nothing behind line 275 is ever reached.
MineBlock(c) ==
    /\ proc = "node"
    /\ conn[c].pc = "idle"
    /\ ~HoldsBlock("lh")
    /\ Panic("decode")

--------------------------------------------------------------------------

Step(c) ==
    \/ \E b \in Hash : AddBegin(c, b)
    \/ AddSeen(c)
    \/ AddClosure(c)
    \/ AddCommit(c)
    \/ IterBegin(c)
    \/ IterNext(c)
    \/ MineBlock(c)

Next ==
    \/ InitOpen
    \/ \E g \in Genesis : InitCommit(g)
    \/ ContinueBlockChain
    \/ Kill
    \/ \E c \in Conn : Step(c)

Spec == Init /\ [][Next]_vars

--------------------------------------------------------------------------
(* Properties. *)

\* The variables keep their types: a node's LastHash and a goroutine's argument
\* are never the empty hash, and goroutines exist only in a node that runs.
TypeOK ==
    /\ dir \in BOOLEAN
    /\ stored \in SUBSET Hash
    /\ lh \in MaybeHash
    /\ proc \in {"down", "creating", "node"}
    /\ lastHash \in MaybeHash
    /\ conn \in [Conn -> Goroutine]
    /\ exit \in ExitCauses
    /\ proc = "node" => lastHash \in Hash
    /\ \A c \in Conn : conn[c].pc # "idle" => proc = "node" /\ conn[c].arg \in Hash

\* AddBlock's and GetBestHeight's Get of the block that "lh" names never
\* fails, whatever was committed and wherever the process died.
TipIsStored == IF lh = NoHash THEN stored = {} ELSE dir /\ lh \in stored

\* However AddBlock transactions interleave, no stored block is higher than
\* the one "lh" names: two of them that both want to move "lh" cannot both
\* commit on the strength of the same old value.
TipIsHighest == \A b \in stored : Height[b] <= Height[lh]

\* chain.LastHash, which every iterator starts from, and "lh", which AddBlock
\* and GetBestHeight read, agree whenever no AddBlock that moves the tip is
\* between its closure and its commit.
MovingTip(c) == conn[c].pc = "commit" /\ Raises(conn[c].arg, conn[c].head)
LastHashAgrees ==
    proc = "node" /\ (\A c \in Conn : ~MovingTip(c)) => lastHash = lh

\* A commit of AddBlock fails exactly when what its closure decided on is no
\* longer so: the tip has moved, or somebody else stored the block.
ConflictIsReal ==
    \A c \in Conn : conn[c].pc = "commit" =>
        (Conflict(c) <=> (lh # conn[c].head \/ conn[c].arg \in stored))

\* The tip moves only to a strictly higher block, and blocks are never lost:
\* not by concurrent AddBlocks, not across a crash and a restart.
TipOnlyRises ==
    [][/\ stored \subseteq stored'
       /\ (lh' # lh /\ lh # NoHash) => Raises(lh', lh)]_vars

\* The database implements the one-step-at-a-time store of ChainSpec.
Promise == INSTANCE ChainSpec WITH tip <- lh
ImplementsChainSpec == Promise!Spec

\* LastHash is "the hash of the last block of the chain" (blockchain.go:25):
\* an iterator that starts there finds its first block.
LastHashIsABlock == proc = "node" => lastHash \in stored

\* MineBlock "mines a new block and adds it to the chain"
\* (blockchain.go:251): no call of it ends in a panic.
MineBlockMines == exit # "decode"
==========================================================================
