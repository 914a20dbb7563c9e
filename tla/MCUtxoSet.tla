---------------------------- MODULE MCUtxoSet ----------------------------
(***************************************************************************)
(* UtxoSet on small sets of the blocks that MineTx makes: transactions     *)
(* of wallets a and b, and the reward of a miner.                          *)
(***************************************************************************)
EXTENDS UtxoSet, TLC

CONSTANTS a, b, m, w

Pay(ins, outs) == [ins |-> ins, data |-> "", outs |-> outs]
Out(v, o) == [value |-> v, owner |-> o]
Reward(o) == CoinbaseTx(o, "Coins to")

genesis == CoinbaseTx(a, "First Transaction from Genesis")
\* a pays 30 to b and gets 70 back; b spends the first output of that alone or
\* with a reward, a the second one.
pay == Pay(<<Outpoint(genesis, 1)>>, <<Out(30, b), Out(70, a)>>)
spendFirst == Pay(<<Outpoint(pay, 1)>>, <<Out(10, a), Out(20, b)>>)
spendReward == Pay(<<Outpoint(pay, 1), Outpoint(Reward(b), 1)>>, <<Out(130, a)>>)
spendSecond == Pay(<<Outpoint(pay, 2)>>, <<Out(70, b)>>)

\* The blocks of a chain.
Blocks(chain) == {SubSeq(chain, 1, k) : k \in DOMAIN chain}

\* Both outputs of pay are spent, one after the other, by different blocks; in
\* the end b has three outputs of three transactions.
LongTree == Blocks(<< <<genesis>>, <<pay, Reward(m)>>, <<spendSecond, Reward(w)>>,
                      <<spendFirst, Reward(b)>> >>)

\* The first output of pay is spent, the second is not.
GapTrees == {Blocks(<< <<genesis>>, <<pay, Reward(m)>>, <<spendFirst, Reward(w)>> >>)}

\* The same with two outputs that are alike, one spent after the other.
split == Pay(<<Outpoint(genesis, 1)>>, <<Out(50, a), Out(50, a)>>)
useFirst == Pay(<<Outpoint(split, 1)>>, <<Out(50, b)>>)
useSecond == Pay(<<Outpoint(split, 2)>>, <<Out(50, b)>>)
TwinTree == Blocks(<< <<genesis>>, <<split, Reward(m)>>, <<useFirst, Reward(w)>>,
                      <<useSecond, Reward(b)>> >>)

\* One miner mines two blocks.
RewardTrees == {Blocks(<< <<genesis>>, <<pay, Reward(a)>>, <<spendSecond, Reward(a)>> >>)}

\* A block spends outputs of two transactions, or two outputs of one as well.
WideTrees ==
    {Blocks(<< <<genesis>>, <<pay, Reward(b)>>, <<spendReward, Reward(m)>> >>),
     Blocks(<< <<genesis>>, <<pay, Reward(b)>>, <<spendReward, spendSecond, Reward(m)>> >>)}

\* Two forks spend one output of pay each; the second fork gets longer.
ForkTree ==
    Blocks(<< <<genesis>>, <<pay, Reward(m)>>, <<spendFirst, Reward(w)>> >>)
      \cup Blocks(<< <<genesis>>, <<pay, Reward(m)>>, <<spendSecond, Reward(w)>>,
                     <<Reward(b)>> >>)

MCTrees == {LongTree, TwinTree, ForkTree} \cup GapTrees \cup RewardTrees \cup WideTrees

Goroutines == Permutations(Conn)
==========================================================================
