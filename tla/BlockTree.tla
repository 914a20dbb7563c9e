---------------------------- MODULE BlockTree ----------------------------
(***************************************************************************)
(* The blocks the nodes exchange and store.                                *)
(*                                                                         *)
(* A block is named by its hash.  What AddBlock, the iterator and the      *)
(* network handlers look at in a block is its PrevHash (empty for a        *)
(* genesis block) and its Height; both are constant functions of the hash  *)
(* here, because a stored block is never changed and the proof-of-work     *)
(* hash covers PrevHash.  Nothing in AddBlock validates a block, so the    *)
(* assumption says no more than what the types of the Go fields say.       *)
(***************************************************************************)
EXTENDS Naturals, Sequences

CONSTANTS
    Hash,      \* the hashes of all blocks that any node may hold or send
    NoHash,    \* the empty byte slice: the PrevHash of a genesis block
    PrevHash,  \* PrevHash[h]: the hash of the parent of block h
    Height     \* Height[h]: the height written in block h

ASSUME BlockAssumption ==
    /\ NoHash \notin Hash
    /\ "lh" \notin Hash
    /\ PrevHash \in [Hash -> Hash \cup {NoHash}]
    /\ Height \in [Hash -> Nat]

\* Blocks that Genesis() builds: CreateBlock with an empty previous hash.
Genesis == {h \in Hash : PrevHash[h] = NoHash}

\* Key space of the badger database that the chain uses: one key per block
\* and the key "lh" of the last hash.
Key == Hash \cup {"lh"}

\* The hash of a block covers that of its parent, so a walk from parent to parent
\* ends: every set of blocks has one whose parent is not in it.  Only the walks
\* below rely on it.
ASSUME WalksEnd ==
    \A S \in SUBSET Hash : S # {} => \E h \in S : PrevHash[h] \notin S

\* GetBlockHashes when no block is missing: the hashes from block h down to the
\* genesis block.
BlockHashes ==
    LET path[h \in Hash] ==
            <<h>> \o (IF PrevHash[h] = NoHash THEN <<>> ELSE path[PrevHash[h]])
    IN  path

\* The blocks an iterator meets on its way from h to a genesis block.
Ancestry == [h \in Hash |-> {BlockHashes[h][i] : i \in DOMAIN BlockHashes[h]}]
==========================================================================
