----------------------------- MODULE Payment -----------------------------
(***************************************************************************)
(* The commands send and getbalance (cli.go) on the database of UtxoSet.   *)
(* They need it for themselves, so they run between two processes of the   *)
(* node and find the index as the last one left it - also empty or half    *)
(* rebuilt.  send takes outputs from the index until they cover the        *)
(* amount, makes a transaction of them, and signs it with what it finds    *)
(* under the same IDs on the chain; a miner reads the chain again to       *)
(* verify it.                                                              *)
(***************************************************************************)
EXTENDS UtxoSet, KeyBytes

CONSTANTS
    Orders,  \* the payments to try: records of from, to and amount
    Key,     \* Key[o]: the two coordinates of the public key with hash o
    Scalar   \* the numbers that signatures are made of

\* No output is a debt: send refuses an amount below 1, and change is positive.
ASSUME PaymentAssumption ==
    /\ \A p \in Orders : p.from \in Owner /\ p.to \in Owner /\ p.amount \in Nat \ {0}
    /\ \A tree \in Trees : \A block \in tree : \A tx \in OnChain(block) :
          \A out \in ToSet(tx.outs) : out.value \in Nat
    /\ Key \in [Owner -> Number \X Number]
    /\ Scalar \subseteq Number

VARIABLE cmd  \* the command send, and how far it is

payVars == <<vars, cmd>>

\* left: the keys the iterator has not met; taken: the outputs in the order they
\* were taken; tx: the transaction.
NoTx == [ins |-> <<>>, key |-> <<>>, sigs |-> <<>>, outs |-> <<>>]
NoCmd == [pc |-> "off", order |-> [from |-> "", to |-> "", amount |-> 0],
          left |-> {}, acc |-> 0, taken |-> <<>>, tx |-> NoTx]

Values(outs) ==
    LET sum[i \in 0..Len(outs)] == IF i = 0 THEN 0 ELSE sum[i - 1] + outs[i].value
    IN  sum[Len(outs)]

PayInit == Init /\ cmd = NoCmd

--------------------------------------------------------------------------
(* NewTransaction. *)

\* send opens the database; FindSpendableOutputs starts to iterate.
Send(order) ==
    /\ proc = "down"
    /\ proc' = "send"
    /\ cmd' = [NoCmd EXCEPT !.pc = "find", !.order = order, !.left = DOMAIN index]
    /\ UNCHANGED <<blocks, stored, tip, index, conn, trust, walked>>

\* With a bug: Take that gives the position after the output's.
TakeNext(found, out, tx, k) ==
    IF out.owner = cmd.order.from /\ found.acc < cmd.order.amount
    THEN [acc |-> found.acc + out.value,
          taken |-> Append(found.taken, Outpoint(tx, k + 1))]
    ELSE found

\* With a bug: Take that skips an output that is more than what is missing.
TakeSmall(found, out, tx, k) ==
    IF out.owner = cmd.order.from /\ found.acc + out.value <= cmd.order.amount
    THEN [acc |-> found.acc + out.value, taken |-> Append(found.taken, Outpoint(tx, k))]
    ELSE found

\* With a bug: Take that does not look at the owner.
TakeAnyone(found, out, tx, k) ==
    IF found.acc < cmd.order.amount
    THEN [acc |-> found.acc + out.value, taken |-> Append(found.taken, Outpoint(tx, k))]
    ELSE found

\* An output is taken if it is the sender's and the amount is not reached.
Take(found, out, tx, k) ==
    IF out.owner = cmd.order.from /\ found.acc < cmd.order.amount
    THEN [acc |-> found.acc + out.value, taken |-> Append(found.taken, Outpoint(tx, k))]
    ELSE found

\* FindSpendableOutputs looks at one entry.  Keys are hashes: they come in an
\* order that says nothing.
FindEntry(tx) ==
    LET entry == index[tx]
        met[k \in 0..Len(entry)] ==
            IF k = 0 THEN [acc |-> cmd.acc, taken |-> cmd.taken]
            ELSE Take(met[k - 1], entry[k], tx, k)
        found == met[Len(entry)]
    IN  /\ cmd.pc = "find"
        /\ tx \in cmd.left
        /\ cmd' = [cmd EXCEPT !.left = @ \ {tx}, !.acc = found.acc, !.taken = found.taken]
        /\ UNCHANGED vars

\* The public key of a wallet: its two coordinates, joined.
PubKey(owner) == Join(Key[owner][1], Key[owner][2])

\* The inputs, grouped by transaction: validOutputs is a map, ranged over in any
\* order.
Inputs(taken) ==
    {FlattenSeq([k \in DOMAIN txs |->
                   Chosen(taken, {i \in DOMAIN taken : taken[i].tx = txs[k]})])
       : txs \in SetToSeqs({p.tx : p \in ToSet(taken)})}

\* With a bug: Outputs without the change.
OutputsOnly(order, acc) == << [value |-> order.amount, owner |-> order.to] >>

\* The amount to the receiver, the change to the sender.
Outputs(order, acc) ==
    << [value |-> order.amount, owner |-> order.to] >>
      \o IF acc > order.amount
         THEN << [value |-> acc - order.amount, owner |-> order.from] >> ELSE <<>>

\* The process ends.
Exit ==
    /\ proc' = "down"
    /\ cmd' = NoCmd
    /\ UNCHANGED <<blocks, stored, tip, index, conn, trust, walked>>

\* "not enough funds": a panic.
NotEnoughFunds ==
    /\ cmd.pc = "find" /\ cmd.left = {}
    /\ cmd.acc < cmd.order.amount
    /\ Exit

\* NewTransaction makes the transaction.
Build ==
    /\ cmd.pc = "find" /\ cmd.left = {}
    /\ cmd.acc >= cmd.order.amount
    /\ \E ins \in Inputs(cmd.taken) :
          cmd' = [cmd EXCEPT !.pc = "sign", !.taken = <<>>,
                    !.tx = [ins  |-> ins,
                            key  |-> PubKey(cmd.order.from),
                            sigs |-> <<>>,
                            outs |-> Outputs(cmd.order, cmd.acc)]]
    /\ UNCHANGED vars

--------------------------------------------------------------------------
(* Sign and Verify. *)

\* The transactions that FindTransaction finds: it walks from the tip down and
\* panics at the first block that is missing.
Found ==
    UNION {ToSet(tip[k]) : k \in {k \in DOMAIN tip :
                                    \A i \in k..Len(tip) : SubSeq(tip, 1, i) \in stored}}

\* It finds the transaction an input names, and that has the output.
Resolves(in) == in.tx \in Found /\ in.out \in DOMAIN in.tx.outs

\* What is signed for input i: a trimmed copy, without signatures and keys, in
\* which that input holds the hash that its output is locked with.
SignDigest(tx, i) ==
    [ins  |-> tx.ins, outs |-> tx.outs,
     keys |-> [k \in DOMAIN tx.ins |->
                 IF k = i THEN tx.ins[i].tx.outs[tx.ins[i].out].owner ELSE ""]]

\* With a bug: VerifyDigest where the hashes of earlier inputs stay in the copy.
VerifyDigestKeeps(tx, i) ==
    [ins  |-> tx.ins, outs |-> tx.outs,
     keys |-> [k \in DOMAIN tx.ins |->
                 IF k <= i THEN tx.ins[k].tx.outs[tx.ins[k].out].owner ELSE ""]]

\* What Verify makes of the transaction for input i.
VerifyDigest(tx, i) ==
    [ins  |-> tx.ins, outs |-> tx.outs,
     keys |-> [k \in DOMAIN tx.ins |->
                 IF k = i THEN tx.ins[i].tx.outs[tx.ins[i].out].owner ELSE ""]]

\* ecdsa.Sign with the private key of an owner: any two numbers.  The bytes are
\* all that is sent; the other fields are what only ecdsa.Verify can tell.
Signatures(owner, digest) ==
    {[bytes |-> Join(r, s), pair |-> <<r, s>>, by |-> Key[owner], of |-> digest]
       : r \in Scalar, s \in Scalar}

\* The next input is signed.
Sign ==
    LET i == Len(cmd.tx.sigs) + 1
    IN  /\ cmd.pc = "sign"
        /\ i \in DOMAIN cmd.tx.ins
        /\ Resolves(cmd.tx.ins[i])
        /\ \E sig \in Signatures(cmd.order.from, SignDigest(cmd.tx, i)) :
              cmd' = [cmd EXCEPT !.tx.sigs = Append(@, sig)]
        /\ UNCHANGED vars

\* "Transaction does not exist", or an index out of range.
SignPanics ==
    LET i == Len(cmd.tx.sigs) + 1
    IN  /\ cmd.pc = "sign"
        /\ i \in DOMAIN cmd.tx.ins
        /\ ~Resolves(cmd.tx.ins[i])
        /\ Exit

\* All inputs are signed.
Signed == cmd.pc = "sign" /\ DOMAIN cmd.tx.sigs = DOMAIN cmd.tx.ins

\* SendTx to the central node, or MineBlock, which panics; either way the
\* process ends and the database is what it was.
Submit == Signed /\ Exit

\* ecdsa.Verify: the numbers and the key are those of the signature.
EcdsaVerify(key, digest, pair, sig) ==
    key = sig.by /\ digest = sig.of /\ pair = sig.pair

\* Verify, by a miner with the same chain.
Verify(tx) ==
    \A i \in DOMAIN tx.ins :
        EcdsaVerify(Halves(tx.key), VerifyDigest(tx, i), Halves(tx.sigs[i].bytes), tx.sigs[i])

--------------------------------------------------------------------------
\* A signal ends whatever runs.
PayKill == Kill /\ cmd' = NoCmd

SendStep ==
    \/ \E order \in Orders : Send(order)
    \/ \E tx \in cmd.left : FindEntry(tx)
    \/ NotEnoughFunds \/ Build
    \/ Sign \/ SignPanics \/ Submit

NodeStep == StartNode \/ \E c \in Conn : Step(c)

PayNext == SendStep \/ PayKill \/ (NodeStep /\ UNCHANGED cmd)

PaySpec == PayInit /\ [][PayNext]_payVars

--------------------------------------------------------------------------
(* Properties. *)

\* getbalance: the outputs of an owner in an entry, and in the index, added up.
Owned(tx, owner) ==
    Values(Chosen(index[tx], {k \in DOMAIN index[tx] : index[tx][k].owner = owner}))
Balance(owner) == MapThenSumSet(LAMBDA tx : Owned(tx, owner), DOMAIN index)

\* send and getbalance agree, whatever state the index is in and in whatever
\* order the keys come: a payment is refused exactly if the balance is too low.
BalanceIsSpendable ==
    cmd.pc = "find" /\ cmd.left = {} =>
        (cmd.acc >= cmd.order.amount <=> Balance(cmd.order.from) >= cmd.order.amount)

\* The entries a payment takes from have the positions of their transactions.
Aligned == \A p \in ToSet(cmd.tx.ins) : IsPrefix(index[p.tx], p.tx.outs)

\* A transaction spends exactly what the outputs it names hold on the chain: no
\* coin is made or lost, also when the index was old, mixed or half rebuilt.
ValueIsConserved ==
    cmd.pc = "sign" /\ Aligned =>
        Values(cmd.tx.outs)
          = Values([k \in DOMAIN cmd.tx.ins |-> cmd.tx.ins[k].tx.outs[cmd.tx.ins[k].out]])

\* From the exact index of the tip, where its entries have no gaps, a transaction
\* spends the sender's unspent outputs, each one once, and pays the amount.
Gapless == \A p \in ToSet(cmd.tx.ins) : NoGaps(p.tx)
SpendsUnspent ==
    cmd.pc = "sign" /\ UpToDate /\ NoRepeats(tip) /\ Gapless =>
        /\ IsInjective(cmd.tx.ins)
        /\ \A p \in ToSet(cmd.tx.ins) :
              p \in Unspent(tip) /\ p.tx.outs[p.out].owner = cmd.order.from
        /\ [value |-> cmd.order.amount, owner |-> cmd.order.to] \in ToSet(cmd.tx.outs)

\* Signing ends in a panic only where a block is missing below the tip, where the
\* index can hold outputs of a fork that was left, or where a transaction is on
\* the chain twice and the index lists its outputs twice.  That the index is old,
\* or that Reindexes were mixed or died, does not matter.
SignsUnlessRepeated ==
    /\ cmd.pc = "sign" /\ Complete(tip) /\ NoRepeats(tip)
    /\ \A chain \in walked : IsPrefix(chain, tip)
    => \A p \in ToSet(cmd.tx.ins) : Resolves(p)

\* A miner accepts a transaction exactly if every pair of numbers in it can be
\* told apart again: the coordinates of the key, and r and s of each signature.
VerifiesIfItFits ==
    Signed =>
        (Verify(cmd.tx) <=>
            \A i \in DOMAIN cmd.tx.sigs :
                /\ Fits(Key[cmd.order.from][1], Key[cmd.order.from][2])
                /\ Fits(cmd.tx.sigs[i].pair[1], cmd.tx.sigs[i].pair[2]))
==========================================================================
