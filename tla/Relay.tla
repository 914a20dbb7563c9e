------------------------------- MODULE Relay -------------------------------
(***************************************************************************)
(* How transactions reach the memory pools, and how nodes come and go in   *)
(* KnownNodes (network.go).  A wallet sends its transaction to the central *)
(* node, which pools it and announces it to every node it knows; a node    *)
(* that does not have it asks for it, and a miner with two of them mines.  *)
(*                                                                         *)
(* As in BlockSync a job is a connection: a message on its way, or the     *)
(* handler that is between two of its steps.  The goroutines of a node     *)
(* share memoryPool and KnownNodes without a lock.  A handler is cut       *)
(* where it sends, where a node did not answer, and where it computes a    *)
(* new KnownNodes before it assigns it.  What the Go runtime does when it  *)
(* notices a map that is ranged over and written at the same time is an    *)
(* end of the process, and Kill may end it at any point.                   *)
(*                                                                         *)
(* Blocks are left out.  Of their messages only the dialling matters here, *)
(* because it takes nodes that do not answer off the list.                 *)
(***************************************************************************)
EXTENDS Lists, FiniteSets, Bags

CONSTANTS
    Node,       \* the nodes, by address
    Central,    \* KnownNodes[0] of every process that starts
    Miner,      \* the nodes that are started with the address of a miner
    Tx,         \* the transactions of the wallets
    NoTx,       \* the empty transaction, what a Go map gives for a missing key
    Invalid,    \* those that VerifyTransaction refuses
    MaxStarts   \* bound: how often each node is started

ASSUME RelayAssumption ==
    /\ Central \in Node
    /\ Miner \subseteq Node
    /\ NoTx \notin Tx
    /\ Invalid \subseteq Tx
    /\ MaxStarts \in [Node -> Nat]

VARIABLES
    up,       \* the node's process runs and listens
    known,    \* memory: KnownNodes
    pool,     \* memory: memoryPool
    jobs,     \* a bag: the connections to the nodes
    sent,     \* the transactions that wallets have sent
    starts,   \* counts Start, for the bound
    lost,     \* history: the central node was down while this process ran, or one
              \* before it of which there are connections left
    overlap,  \* history: two updates of the node's KnownNodes have overlapped
    slipped   \* history: the nodes that reported to the central process while it was
              \* about to take an earlier process of them off its list

vars == <<up, known, pool, jobs, sent, starts, lost, overlap, slipped>>
history == <<lost, overlap, slipped>>

Command == {"version", "answer", "tx", "inv", "getdata"}
Place == {"check", "read", "append", "relay", "fails", "drop", "end"}

\* The places between reading KnownNodes and assigning it.
Update == {"read", "append", "drop"}

\* A connection to node n.  list: of relay the nodes still to tell, of fails the one
\* that does not answer, of append and drop the KnownNodes to be assigned; next:
\* where fails and drop go on; rest: the nodes still to tell when it is with relay.
Job(n, from, pc, tx) ==
    [at |-> n, from |-> from, pc |-> pc, tx |-> tx, list |-> <<>>, next |-> "end",
     rest |-> <<>>]

\* nodeAddress of a wallet, which does not listen.
NoAddress == ""

Connection ==
    [at : Node, from : Node \cup {NoAddress}, pc : Command \cup Place, tx : Tx \cup {NoTx},
     list : Seq(Node), next : Place, rest : Seq(Node)]

Init ==
    /\ up = [n \in Node |-> FALSE]
    /\ known = [n \in Node |-> <<>>]
    /\ pool = [n \in Node |-> {}]
    /\ jobs = EmptyBag
    /\ sent = {}
    /\ starts = [n \in Node |-> 0]
    /\ lost = [n \in Node |-> FALSE]
    /\ overlap = [n \in Node |-> FALSE]
    /\ slipped = {}

--------------------------------------------------------------------------
(* Connections. *)

\* Job j is replaced by the jobs in next.
Replace(j, next) == jobs' = (jobs (-) SetToBag({j})) (+) SetToBag(next)

\* What is left of a handler: nothing when it is at its end.
Rest(j) == IF j.pc = "end" THEN {} ELSE {j}

\* Another goroutine of n is between reading KnownNodes and assigning it.
Updating(n, j) ==
    \E k \in BagToSet(jobs) : /\ k.at = n /\ k.pc \in Update
                              /\ k = j => jobs[k] > 1

\* SendData, in the handler j of n: then is the handler after it.  A node that
\* does not listen is going to be taken off the list, by Filter and Drop.
SendData(n, j, msg, then) ==
    Replace(j, IF up[msg.at] THEN {msg} \cup Rest(then)
               ELSE {[then EXCEPT !.pc = "fails", !.list = <<msg.at>>, !.next = then.pc,
                                  !.rest = then.list]})

\* The loop of SendData over KnownNodes, as it is by now.
Filter(n, j) ==
    /\ j.pc = "fails"
    /\ Replace(j, {[j EXCEPT !.pc = "drop", !.list = Without(known[n], Head(@))]})
    /\ overlap' = [overlap EXCEPT ![n] = @ \/ Updating(n, j)]
    /\ UNCHANGED <<up, known, pool, sent, starts, lost, slipped>>

\* The assignment in SendData.
Drop(n, j) ==
    /\ j.pc = "drop"
    /\ known' = [known EXCEPT ![n] = j.list]
    /\ Replace(j, Rest([j EXCEPT !.pc = j.next, !.list = j.rest, !.next = "end",
                                 !.rest = <<>>]))
    /\ UNCHANGED <<up, pool, sent, starts, history>>

\* With a bug: Ends where the connections outlive the process.
EndsAlone(n) ==
    /\ up' = [up EXCEPT ![n] = FALSE]
    /\ known' = [known EXCEPT ![n] = <<>>]
    /\ pool' = [pool EXCEPT ![n] = {}]
    /\ lost' = IF n = Central THEN up ELSE lost
    /\ overlap' = [overlap EXCEPT ![n] = FALSE]
    /\ slipped' = IF n = Central THEN {} ELSE slipped
    /\ UNCHANGED <<jobs, sent, starts>>

\* n's process ends, and with it its memory, its goroutines and the messages to it.
Ends(n) ==
    /\ up' = [up EXCEPT ![n] = FALSE]
    /\ known' = [known EXCEPT ![n] = <<>>]
    /\ pool' = [pool EXCEPT ![n] = {}]
    /\ jobs' = [j \in {j \in BagToSet(jobs) : j.at # n} |-> jobs[j]]
    /\ lost' = IF n = Central THEN up ELSE lost
    /\ overlap' = [overlap EXCEPT ![n] = FALSE]
    /\ slipped' = IF n = Central THEN {} ELSE slipped
    /\ UNCHANGED <<sent, starts>>

\* StartServer: the version goes to the central node before anything is accepted;
\* if that is down, no node is left on the list.
Start(n) ==
    LET alone == n # Central /\ ~up[Central]
    IN  /\ ~up[n]
        /\ starts[n] < MaxStarts[n]
        /\ starts' = [starts EXCEPT ![n] = @ + 1]
        /\ up' = [up EXCEPT ![n] = TRUE]
        /\ known' = [known EXCEPT ![n] = IF alone THEN <<>> ELSE <<Central>>]
        /\ lost' = [lost EXCEPT ![n] =
                      n # Central /\ (alone \/ (@ /\ \E j \in BagToSet(jobs) : j.from = n))]
        /\ jobs' = IF n = Central \/ alone THEN jobs
                   ELSE jobs (+) SetToBag({Job(Central, n, "version", NoTx)})
        /\ UNCHANGED <<pool, sent, overlap, slipped>>

Kill(n) ==
    /\ up[n]
    /\ Ends(n)

\* The command send; it has no address.  It does not notice that nobody listens.
Send(tx) ==
    /\ tx \in Tx \ sent
    /\ sent' = sent \cup {tx}
    /\ jobs' = IF up[Central] THEN jobs (+) SetToBag({Job(Central, NoAddress, "tx", tx)}) ELSE jobs
    /\ UNCHANGED <<up, known, pool, starts, history>>

--------------------------------------------------------------------------
(* Handlers. *)

\* HandleVersion, by what the heights say: nothing, getblocks (of which only the
\* dialling shows here) or, to a node that asks for the first time, a version.
HandleVersion(n, j) ==
    LET then == [j EXCEPT !.pc = "check"]
    IN  /\ j.pc \in {"version", "answer"}
        /\ \/ Replace(j, {then})
           \/ /\ ~up[j.from]
              /\ SendData(n, j, Job(j.from, n, "answer", NoTx), then)
           \/ /\ j.pc = "version"
              /\ up[j.from]
              /\ SendData(n, j, Job(j.from, n, "answer", NoTx), then)
        /\ UNCHANGED <<up, known, pool, sent, starts, history>>

\* With a bug: NodeIsKnown that takes every node for known.
EveryNodeIsKnown(n, addr) == TRUE

\* With a bug: NodeIsKnown that never finds the node.
NoNodeIsKnown(n, addr) == FALSE

NodeIsKnown(n, addr) == addr \in ToSet(known[n])

\* Another goroutine of n is about to take m off the list.
Forgetting(n, m) ==
    \E k \in BagToSet(jobs) :
        /\ k.at = n
        /\ \/ k.pc = "fails" /\ Head(k.list) = m
           \/ k.pc = "drop" /\ m \notin ToSet(k.list)

\* The end of HandleVersion: a known node is left where it is ...
CheckKnown(n, j) ==
    /\ NodeIsKnown(n, j.from)
    /\ Replace(j, {})
    /\ UNCHANGED overlap

\* ... and one that is not will be appended, ...
CheckNew(n, j) ==
    /\ ~NodeIsKnown(n, j.from)
    /\ Replace(j, {[j EXCEPT !.pc = "read"]})
    /\ overlap' = [overlap EXCEPT ![n] = @ \/ Updating(n, j)]

Check(n, j) ==
    /\ j.pc = "check"
    /\ CheckKnown(n, j) \/ CheckNew(n, j)
    /\ slipped' = IF n # Central THEN slipped
                  ELSE IF Forgetting(n, j.from) THEN slipped \cup {j.from}
                  ELSE slipped \ {j.from}
    /\ UNCHANGED <<up, known, pool, sent, starts, lost>>

\* With a bug: Read that puts the node first.
ReadFirst(n, j) ==
    /\ j.pc = "read"
    /\ Replace(j, {[j EXCEPT !.pc = "append", !.list = <<j.from>> \o known[n]]})
    /\ UNCHANGED <<up, known, pool, sent, starts, history>>

\* ... to the list as it is then ...
Read(n, j) ==
    /\ j.pc = "read"
    /\ Replace(j, {[j EXCEPT !.pc = "append", !.list = Append(known[n], j.from)]})
    /\ UNCHANGED <<up, known, pool, sent, starts, history>>

\* ... which it assigns.
Assign(n, j) ==
    /\ j.pc = "append"
    /\ known' = [known EXCEPT ![n] = j.list]
    /\ Replace(j, {})
    /\ UNCHANGED <<up, pool, sent, starts, history>>

\* The condition under which HandleTx calls MineTx.
Mines(n) == n \in Miner /\ Cardinality(pool'[n]) >= 2

\* With a bug: HandleTx that pools only what it mines.
HandleTxLate(n, j) ==
    /\ j.pc = "tx"
    /\ pool' = IF n = Central THEN pool ELSE [pool EXCEPT ![n] = @ \cup {j.tx}]
    /\ known[n] # <<>>
    /\ Replace(j, IF n = Central
                  THEN {[j EXCEPT !.pc = "relay", !.list = Without(Tail(known[n]), j.from)]}
                  ELSE {})
    /\ UNCHANGED <<up, known, sent, starts, history>>

\* HandleTx of a node whose list is not empty, and which does not mine: the first
\* node on its list goes on to tell the others.
HandleTx(n, j) ==
    /\ j.pc = "tx"
    /\ known[n] # <<>>
    /\ pool' = [pool EXCEPT ![n] = @ \cup {j.tx}]
    /\ \/ /\ n = Head(known[n])
          /\ Replace(j, {[j EXCEPT !.pc = "relay",
                                   !.list = Without(Without(known[n], n), j.from)]})
       \/ /\ n # Head(known[n])
          /\ Mines(n) => pool'[n] \subseteq Invalid
          /\ Replace(j, {})
    /\ UNCHANGED <<up, known, sent, starts, history>>

\* HandleTx panics over KnownNodes[0] of an empty list.
HandleTxAlone(n, j) ==
    /\ j.pc = "tx"
    /\ known[n] = <<>>
    /\ Ends(n)

\* MineTx of a pool with a transaction that is not refused: the empty transaction
\* and those that verify go to MineBlock, which panics (module ChainStore);
\* VerifyTransaction panics over one whose parent is in no block yet.
MineTx(n, j) ==
    /\ j.pc = "tx"
    /\ known[n] # <<>>
    /\ n # Head(known[n])
    /\ n \in Miner
    /\ Cardinality(pool[n] \cup {j.tx}) >= 2
    /\ ~ (pool[n] \cup {j.tx} \subseteq Invalid)
    /\ Ends(n)

\* With a bug: Relay that tells the first node only.
RelayToOne(n, j) ==
    /\ j.pc = "relay"
    /\ IF j.list = <<>> THEN Replace(j, {})
       ELSE SendData(n, j, Job(Head(j.list), n, "inv", j.tx), [j EXCEPT !.pc = "end"])
    /\ UNCHANGED <<up, known, pool, sent, starts, history>>

\* The loop of HandleTx over the KnownNodes it started with.
Relay(n, j) ==
    /\ j.pc = "relay"
    /\ IF j.list = <<>> THEN Replace(j, {})
       ELSE SendData(n, j, Job(Head(j.list), n, "inv", j.tx), [j EXCEPT !.list = Tail(@)])
    /\ UNCHANGED <<up, known, pool, sent, starts, history>>

\* HandleInv of a transaction.
HandleInv(n, j) ==
    /\ j.pc = "inv"
    /\ IF j.tx \in pool[n] THEN Replace(j, {})
       ELSE SendData(n, j, Job(j.from, n, "getdata", j.tx), [j EXCEPT !.pc = "end"])
    /\ UNCHANGED <<up, known, pool, sent, starts, history>>

\* HandleGetData of a transaction: a missing one is answered as well.
HandleGetData(n, j) ==
    LET tx == IF j.tx \in pool[n] THEN j.tx ELSE NoTx
    IN  /\ j.pc = "getdata"
        /\ SendData(n, j, Job(j.from, n, "tx", tx), [j EXCEPT !.pc = "end"])
        /\ UNCHANGED <<up, known, pool, sent, starts, history>>

HandleConnection(n, j) ==
    \/ HandleVersion(n, j) \/ Check(n, j) \/ Read(n, j) \/ Assign(n, j)
    \/ HandleTx(n, j) \/ HandleTxAlone(n, j) \/ MineTx(n, j) \/ Relay(n, j)
    \/ HandleInv(n, j) \/ HandleGetData(n, j) \/ Filter(n, j) \/ Drop(n, j)

\* A handler of the block download finds that a listed node does not answer.
\* Bound: one at a time in a process.
DialForBlocks(n, m) ==
    /\ up[n]
    /\ ~up[m]
    /\ m \in ToSet(known[n])
    /\ \A k \in BagToSet(jobs) :
          k.at = n /\ k.pc \in {"fails", "drop"} => k.next # "end"
    /\ jobs' = jobs (+) SetToBag({[Job(n, m, "fails", NoTx) EXCEPT !.list = <<m>>]})
    /\ UNCHANGED <<up, known, pool, sent, starts, history>>

Work == \E j \in BagToSet(jobs) : HandleConnection(j.at, j)

Next ==
    \/ Work
    \/ \E n \in Node : Start(n) \/ Kill(n) \/ \E m \in Node : DialForBlocks(n, m)
    \/ \E tx \in Tx : Send(tx)

\* The scheduler of Go lets a goroutine that can run, run.
Fairness == WF_vars(Work)

Spec == Init /\ [][Next]_vars
FairSpec == Spec /\ Fairness

--------------------------------------------------------------------------
(* Properties. *)

\* The variables keep their types; a process that has ended has no memory, no
\* goroutines and no connections.
TypeOK ==
    /\ up \in [Node -> BOOLEAN]
    /\ known \in [Node -> Seq(Node)]
    /\ pool \in [Node -> SUBSET (Tx \cup {NoTx})]
    /\ IsABag(jobs)
    /\ BagToSet(jobs) \subseteq Connection
    /\ \A j \in BagToSet(jobs) : up[j.at] /\ j.pc # "end"
    /\ \A n \in Node : ~up[n] => known[n] = <<>> /\ pool[n] = {}
    /\ sent \subseteq Tx
    /\ \A n \in Node : starts[n] \in 0 .. MaxStarts[n]
    /\ {lost, overlap} \subseteq [Node -> BOOLEAN]
    /\ slipped \subseteq Node

\* HandleTx takes the first of KnownNodes for the central node: that is right in
\* the central process however its list is rewritten, and no other process ever
\* finds itself there and relays.
OnlyCentralRelays ==
    /\ up[Central] => known[Central] # <<>> /\ Head(known[Central]) = Central
    /\ \A n \in Node \ {Central} : n \notin ToSet(known[n])
    /\ \A j \in BagToSet(jobs) : j.pc = "relay" => j.at = Central

\* A node does not lose the central node from its list, over which HandleTx would
\* panic, unless the central node has been down while it ran.
StaysConnected ==
    \A n \in Node : up[n] /\ ~lost[n] => Central \in ToSet(known[n])

\* Unless the central node has been down meanwhile, whatever a node has pooled is
\* pooled by the central node too, so that its getdata is never answered with the
\* empty transaction.
CentralHasAll ==
    \A n \in Node : up[n] /\ ~lost[n] => pool[n] \subseteq (pool[Central] \ {NoTx})

\* As long as updates of KnownNodes do not overlap, no node is listed twice: it
\* would be told of every transaction twice.
NobodyTwice ==
    \A n \in Node : up[n] /\ ~overlap[n] => IsInjective(known[n])

\* A node that has reported to the central node stays on its list, whatever others
\* are appended or taken off and however often it starts again.  There are two
\* exceptions: updates of the list that overlap, and a report of the node that comes
\* between a dial that an earlier process of it did not answer and the assignment of
\* the list without it.
Remembered ==
    \A m \in Node :
        (/\ up[m] /\ ~lost[m] /\ up[Central] /\ ~overlap[Central] /\ m \notin slipped
         /\ \A j \in BagToSet(jobs) : j.at = Central =>
               /\ j.pc \notin Update
               /\ j.from = m => j.pc \notin {"version", "check"} /\ j.next # "check")
        => m \in ToSet(known[Central])

\* The central node is to tell m of tx.
ToTell(m, tx) ==
    \E j \in BagToSet(jobs) :
        /\ j.at = Central /\ j.tx = tx
        /\ \/ j.pc = "relay" /\ m \in ToSet(j.list)
           \/ j.pc \in {"fails", "drop"} /\ j.next = "relay" /\ m \in ToSet(j.rest)

\* A node that the central node sets out to tell of a transaction gets it, even
\* if others on the list do not answer, unless one of the two ends first.
Delivered ==
    \A m \in Node, tx \in Tx :
        ToTell(m, tx) ~> (tx \in pool[m] \/ ~up[m] \/ ~up[Central])
==========================================================================
