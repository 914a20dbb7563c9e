---------------------------- MODULE BlockSync ----------------------------
(***************************************************************************)
(* How nodes download blocks from each other (network.go): a node that     *)
(* starts sends its height to the central node; whoever is lower asks for  *)
(* the block hashes of the other, gets them as an inventory from the tip   *)
(* down to the genesis block, and then requests one block after the other. *)
(*                                                                         *)
(* Every message is a TCP connection of its own, and HandleConnection runs *)
(* in a goroutine per connection.  A job stands for such a connection: its *)
(* pc is the command while the message waits to be handled, and the place  *)
(* in the handler while the handler runs.  The goroutines of a node share  *)
(* blocksInTransit without a lock, so a handler is cut into steps wherever *)
(* it sends or calls into the database between two accesses to that list.  *)
(*                                                                         *)
(* AddBlock is one step here: that its transactions implement this step is *)
(* what ChainStore_proofs shows.  (The panic on a conflict of two AddBlock *)
(* transactions is not part of this module; Kill covers its effect.)       *)
(* KnownNodes is left out: after StartServer nothing on this path reads it.*)
(***************************************************************************)
EXTENDS BlockTree, Lists, Bags

CONSTANTS
    Node,       \* the nodes, by address
    Central,    \* KnownNodes[0] of every node that starts
    Tips,       \* the initial tips of the nodes: a set of functions
    MaxStarts,  \* bound: how often each node is started
    MaxLag      \* bound: how many goroutines of a node are behind with the list

ASSUME SyncAssumption ==
    /\ Central \in Node
    /\ Tips \subseteq [Node -> Hash]
    /\ MaxStarts \in [Node -> Nat]
    /\ MaxLag \in Nat

VARIABLES
    up,       \* the node's process runs and listens
    stored,   \* database: the blocks
    lh,       \* database: the last hash
    indexed,  \* database: the tip the UTXO index was built for; NoHash: cleared
    transit,  \* memory: blocksInTransit
    jobs,     \* a bag: the connections to the nodes
    starts,   \* counts Start, for the bound
    fault,    \* why the node's process ended last
    clean     \* history: the node's download has run undisturbed so far

dbVars == <<stored, lh, indexed>>
vars == <<up, stored, lh, indexed, transit, jobs, starts, fault, clean>>

Command == {"version", "getblocks", "inv", "getdata", "block"}
Place == {"filter", "next", "pop", "index"}
Faults == {"none", "killed", "getblocks", "slice", "reindex"}

\* A connection to node n.  items: of an inv the hashes; of getdata, block and
\* filter the one hash; of version the sender's last block, whose height is
\* all that the message tells.
Job(n, from, pc, items) == [at |-> n, from |-> from, pc |-> pc, items |-> items]

Connection == [at : Node, from : Node, pc : Command \cup Place, items : Seq(Hash)]

\* GetBestHeight, and whether GetBlock finds block b.
BestHeight(n) == Height[lh[n]]
GetBlock(n, b) == b \in stored[n]

\* An iterator from LastHash finds every block it asks for.
Complete(n) == Ancestry[lh[n]] \subseteq stored[n]

Init ==
    /\ up = [n \in Node |-> FALSE]
    /\ lh \in Tips
    /\ stored = [n \in Node |-> Ancestry[lh[n]]]
    /\ indexed = lh
    /\ transit = [n \in Node |-> <<>>]
    /\ jobs = EmptyBag
    /\ starts = [n \in Node |-> 0]
    /\ fault = [n \in Node |-> "none"]
    /\ clean = [n \in Node |-> TRUE]

--------------------------------------------------------------------------
(* Messages and goroutines. *)

\* SendData: the connection exists if the addressee listens.
Dialled(msg) == IF up[msg.at] THEN {msg} ELSE {}

\* Job j is replaced by the jobs in next: its own continuation, messages sent.
Replace(j, next) == jobs' = (jobs (-) SetToBag({j})) (+) SetToBag(next)

\* The connections of a message that asks its addressee to send something.
Request == {"version", "getblocks", "getdata"}

\* With a bug: Ends where the connections outlive the process.
EndsAlone(n, cause) ==
    /\ up' = [up EXCEPT ![n] = FALSE]
    /\ transit' = [transit EXCEPT ![n] = <<>>]
    /\ fault' = [fault EXCEPT ![n] = cause]
    /\ UNCHANGED <<dbVars, jobs, starts, clean>>

\* n's process ends: its goroutines and the messages to it are gone.
Ends(n, cause) ==
    LET gone == {j \in BagToSet(jobs) : j.at = n}
        lost == {j.from : j \in {j \in gone : j.pc \in Request}}
    IN  /\ up' = [up EXCEPT ![n] = FALSE]
        /\ transit' = [transit EXCEPT ![n] = <<>>]
        /\ jobs' = [j \in BagToSet(jobs) \ gone |-> jobs[j]]
        /\ fault' = [fault EXCEPT ![n] = cause]
        /\ clean' = [m \in Node |-> clean[m] /\ m \notin lost]
        /\ UNCHANGED <<stored, lh, indexed, starts>>

\* Connections of a download of n: a block requested or on its way, and the
\* goroutines of n that deal with one.
OfDownload(n, j) ==
    \/ j.from = n /\ j.pc = "getdata"
    \/ j.at = n /\ j.pc \in {"block"} \cup Place

\* n waits for a block, or a goroutine of n is between two of them.
Downloading(n) ==
    transit[n] # <<>> \/ \E j \in BagToSet(jobs) : OfDownload(n, j)

\* StartServer: open the database, send the version to the central node.
\* A gap, a lost index or an answer to a request of the process before make the
\* history of this one unclean.
Start(n) ==
    /\ ~up[n]
    /\ starts[n] < MaxStarts[n]
    /\ starts' = [starts EXCEPT ![n] = @ + 1]
    /\ up' = [up EXCEPT ![n] = TRUE]
    /\ jobs' = IF n = Central THEN jobs
               ELSE jobs (+) SetToBag(Dialled(Job(Central, n, "version", <<lh[n]>>)))
    /\ clean' = [clean EXCEPT ![n] = /\ Complete(n) /\ indexed[n] = lh[n]
                                      /\ ~Downloading(n)]
    /\ UNCHANGED <<stored, lh, indexed, transit, fault>>

\* A signal, or a crash for a reason outside this module.
Kill(n) ==
    /\ up[n]
    /\ starts[n] < MaxStarts[n]
    /\ Ends(n, "killed")

--------------------------------------------------------------------------
(* The handlers; j is the connection being handled, n the node it is to. *)

\* With a bug: HandleVersion where a higher node does not answer.
HandleVersionSilent(n, j) ==
    LET behind == BestHeight(n) < Height[j.items[1]]
    IN  /\ j.pc = "version"
        /\ Replace(j, IF behind THEN Dialled(Job(j.from, n, "getblocks", <<>>)) ELSE {})
        /\ clean' = [clean EXCEPT ![n] = @ /\ (behind => up[j.from])]
        /\ UNCHANGED <<up, dbVars, transit, starts, fault>>

\* Whoever is higher says so; whoever hears of a higher node asks for its blocks.
HandleVersion(n, j) ==
    LET mine == BestHeight(n)
        theirs == Height[j.items[1]]
        reply == IF mine < theirs THEN Dialled(Job(j.from, n, "getblocks", <<>>))
                 ELSE IF mine > theirs THEN Dialled(Job(j.from, n, "version", <<lh[n]>>))
                 ELSE {}
    IN  /\ j.pc = "version"
        /\ Replace(j, reply)
        /\ clean' = [clean EXCEPT ![n] = @ /\ (mine < theirs => up[j.from])]
        /\ UNCHANGED <<up, dbVars, transit, starts, fault>>

\* With a bug: HandleGetBlocks where the missing blocks are announced as well.
HandleGetBlocksUnchecked(n, j) ==
    /\ j.pc = "getblocks"
    /\ Replace(j, Dialled(Job(j.from, n, "inv", BlockHashes[lh[n]])))
    /\ UNCHANGED <<up, dbVars, transit, starts, fault, clean>>

\* GetBlockHashes panics at the first block that is missing.
HandleGetBlocks(n, j) ==
    /\ j.pc = "getblocks"
    /\ IF ~Complete(n)
       THEN Ends(n, "getblocks")
       ELSE /\ Replace(j, Dialled(Job(j.from, n, "inv", BlockHashes[lh[n]])))
            /\ UNCHANGED <<up, dbVars, transit, starts, fault, clean>>

\* HandleInv up to SendGetData: the list becomes the list in transit, its first
\* block is requested.  A list that is downloaded while another one arrives is
\* overwritten, and a gap that an earlier download has left is closed only if the
\* list covers it: otherwise the history is unclean.
HandleInv(n, j) ==
    /\ j.pc = "inv"
    /\ transit' = [transit EXCEPT ![n] = j.items]
    /\ Replace(j, {Job(n, j.from, "filter", <<j.items[1]>>)}
                    \cup Dialled(Job(j.from, n, "getdata", <<j.items[1]>>)))
    /\ clean' = [clean EXCEPT ![n] = /\ ~Downloading(n) /\ up[j.from]
                                      /\ Ancestry[lh[n]] \subseteq stored[n] \cup ToSet(j.items)]
    /\ UNCHANGED <<up, dbVars, starts, fault>>

\* With a bug: FilterTransit where the new list stays empty.
FilterEverything(n, j) ==
    /\ j.pc = "filter"
    /\ transit' = [transit EXCEPT ![n] = <<>>]
    /\ Replace(j, {})
    /\ UNCHANGED <<up, dbVars, starts, fault, clean>>

\* The rest of HandleInv: the block requested is taken out of the list.
FilterTransit(n, j) ==
    /\ j.pc = "filter"
    /\ transit' = [transit EXCEPT ![n] = Without(@, j.items[1])]
    /\ Replace(j, {})
    /\ UNCHANGED <<up, dbVars, starts, fault, clean>>

\* A block that is not stored gets no answer.
HandleGetData(n, j) ==
    /\ j.pc = "getdata"
    /\ Replace(j, IF GetBlock(n, j.items[1])
                  THEN Dialled(Job(j.from, n, "block", j.items)) ELSE {})
    /\ UNCHANGED <<up, dbVars, transit, starts, fault, clean>>

\* HandleBlock up to AddBlock.
HandleBlock(n, j) ==
    LET b == j.items[1]
    IN  /\ j.pc = "block"
        /\ stored' = [stored EXCEPT ![n] = @ \cup {b}]
        /\ lh' = [lh EXCEPT ![n] = IF b \notin stored[n] /\ Height[b] > Height[@]
                                   THEN b ELSE @]
        /\ Replace(j, {Job(n, j.from, "next", <<>>)})
        /\ UNCHANGED <<up, indexed, transit, starts, fault, clean>>

\* With a bug: NextBlock that rebuilds the index after every block.
NextBlockIndexes(n, j) ==
    /\ j.pc = "next"
    /\ Replace(j, {Job(n, j.from, "index", <<>>)})
    /\ indexed' = [indexed EXCEPT ![n] = NoHash]
    /\ UNCHANGED <<up, stored, lh, transit, starts, fault, clean>>

\* With a bug: NextBlock that does not rebuild the index after the last block.
NextBlockOnly(n, j) ==
    LET more == transit[n] # <<>>
    IN  /\ j.pc = "next"
        /\ Replace(j, IF more
                      THEN {Job(n, j.from, "pop", <<>>)}
                             \cup Dialled(Job(j.from, n, "getdata", <<transit[n][1]>>))
                      ELSE {})
        /\ clean' = [clean EXCEPT ![n] = @ /\ (more => up[j.from])]
        /\ UNCHANGED <<up, dbVars, transit, starts, fault>>

\* HandleBlock: request the first block in transit; when there is none, Reindex
\* deletes the UTXO index.  The history is unclean if the list is read before
\* the goroutine that requested the block before has taken that off the list.
NextBlock(n, j) ==
    LET more == transit[n] # <<>>
        behind == [k \in {k \in BagToSet(jobs) : k.at = n /\ k.pc \in {"filter", "pop"}}
                     |-> jobs[k]]
    IN  /\ j.pc = "next"
        /\ BagCardinality(behind) <= MaxLag
        /\ Replace(j, IF more
                      THEN {Job(n, j.from, "pop", <<>>)}
                             \cup Dialled(Job(j.from, n, "getdata", <<transit[n][1]>>))
                      ELSE {Job(n, j.from, "index", <<>>)})
        /\ indexed' = [indexed EXCEPT ![n] = IF more THEN @ ELSE NoHash]
        /\ clean' = [clean EXCEPT ![n] = @ /\ behind = EmptyBag /\ (more => up[j.from])]
        /\ UNCHANGED <<up, stored, lh, transit, starts, fault>>

\* HandleBlock: blocksInTransit[1:], of whatever the list is by now.
PopTransit(n, j) ==
    /\ j.pc = "pop"
    /\ IF transit[n] = <<>>
       THEN Ends(n, "slice")
       ELSE /\ transit' = [transit EXCEPT ![n] = Tail(@)]
            /\ Replace(j, {})
            /\ UNCHANGED <<up, dbVars, starts, fault, clean>>

\* The rest of Reindex: FindUTXO walks the whole chain, then the index is written.
Reindex(n, j) ==
    /\ j.pc = "index"
    /\ IF ~Complete(n)
       THEN Ends(n, "reindex")
       ELSE /\ indexed' = [indexed EXCEPT ![n] = lh[n]]
            /\ Replace(j, {})
            /\ UNCHANGED <<up, stored, lh, transit, starts, fault, clean>>

HandleConnection(n, j) ==
    \/ HandleVersion(n, j)
    \/ HandleGetBlocks(n, j)
    \/ HandleInv(n, j)
    \/ FilterTransit(n, j)
    \/ HandleGetData(n, j)
    \/ HandleBlock(n, j)
    \/ NextBlock(n, j)
    \/ PopTransit(n, j)
    \/ Reindex(n, j)

Work == \E j \in BagToSet(jobs) : HandleConnection(j.at, j)

Next ==
    \/ \E n \in Node : Start(n) \/ Kill(n)
    \/ Work

\* Connections are accepted and goroutines are scheduled; nobody has to start
\* or kill a node.
Fairness == WF_vars(Work)

Spec == Init /\ [][Next]_vars /\ Fairness

--------------------------------------------------------------------------
(* Properties. *)

\* The variables keep their types; only a running node has jobs and a list.
TypeOK ==
    /\ up \in [Node -> BOOLEAN]
    /\ stored \in [Node -> SUBSET Hash]
    /\ lh \in [Node -> Hash]
    /\ indexed \in [Node -> Hash \cup {NoHash}]
    /\ transit \in [Node -> Seq(Hash)]
    /\ IsABag(jobs)
    /\ BagToSet(jobs) \subseteq Connection
    /\ \A j \in BagToSet(jobs) : up[j.at]
    /\ starts \in [Node -> Nat]
    /\ fault \in [Node -> Faults]
    /\ clean \in [Node -> BOOLEAN]
    /\ \A n \in Node : up[n] \/ transit[n] = <<>>

\* While a download runs undisturbed, a block of the chain that is still
\* missing is on the list, requested, or on its way: blocksInTransit and the
\* requests in flight never lose one between them.
NothingForgotten ==
    \A n \in Node : up[n] /\ clean[n] =>
        \A b \in Ancestry[lh[n]] \ stored[n] :
            \/ \E i \in DOMAIN transit[n] : transit[n][i] = b
            \/ \E j \in BagToSet(jobs) : /\ j.items = <<b>>
                                         /\ \/ j.from = n /\ j.pc = "getdata"
                                            \/ j.at = n /\ j.pc = "block"

\* When an undisturbed node has nothing left to do, its chain has no gap, its
\* list is empty and the UTXO index is that of its tip: a download never stops
\* half-way in silence.
Quiet(n) ==
    \A j \in BagToSet(jobs) : j.at # n /\ ~(j.from = n /\ j.pc \in Request)
QuietMeansComplete ==
    \A n \in Node : up[n] /\ clean[n] /\ Quiet(n) =>
        Complete(n) /\ transit[n] = <<>> /\ indexed[n] = lh[n]

\* A node whose download is undisturbed never asks another one for a block that
\* it does not have: HandleGetData drops no request of it without an answer.  (When
\* two nodes announce their blocks, those of one are requested from the other.)
RequestsAreAnswered ==
    \A j \in BagToSet(jobs) :
        j.pc = "getdata" /\ clean[j.from] => j.items[1] \in stored[j.at]

\* A node whose download is undisturbed panics in HandleGetBlocks at most,
\* never over blocksInTransit and never in Reindex.
CleanDownloadsDoNotPanic ==
    [][\A n \in Node : up[n] /\ clean[n] /\ ~up'[n]
                          => fault'[n] \in {"killed", "getblocks"}]_vars

\* A node that has told a higher one its height ends up with a complete chain
\* that high, unless its download is disturbed or it goes down.
CatchesUp ==
    \A n \in Node, b \in Hash :
        (\E j \in BagToSet(jobs) : /\ j.pc = "version" /\ j.from = n
                                   /\ lh[j.at] = b
                                   /\ Height[j.items[1]] < Height[b])
          ~> (\/ Height[lh[n]] >= Height[b] /\ Complete(n)
              \/ ~clean[n] \/ ~up[n])

\* HandleGetBlocks answers with the "hashes of all blocks in the chain"
\* (blockchain.go:195): it never ends the process instead.
GetBlocksAnswers == \A n \in Node : fault[n] # "getblocks"
==========================================================================
