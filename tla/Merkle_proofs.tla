-------------------------- MODULE Merkle_proofs --------------------------
(***************************************************************************)
(* NewMerkleTree returns a tree for one to four transactions and panics    *)
(* for every other number, whatever the transactions are.                  *)
(***************************************************************************)
EXTENDS Merkle, SequenceTheorems, TLAPS

N == Len(data)
W == Len(nodes)

(***************************************************************************)
(* The inductive invariant.  The first two passes halve the number of      *)
(* nodes; every later one takes at least one away.  So after i passes at   *)
(* most N/4 - (i-2) nodes are left, which is at least one in the end only  *)
(* when the number of passes, N/2, is not too large for N.                 *)
(***************************************************************************)
Width ==
    /\ data \in Seq(Datum)
    /\ ~Odd(N)
    /\ nodes \in Seq(Seq(Datum))
    /\ i \in Nat
    /\ i <= N \div 2
    /\ i = 0 => W = N
    /\ i = 1 => 2 * W = N
    /\ i = 2 => 4 * W = N
    /\ i >= 2 => 4 * W <= N - 4 * (i - 2)
    /\ N > 0 => W > 0

Outcome ==
    /\ pc \in {"loop", "done", "panic"}
    /\ pc = "done" => N \in {2, 4}
    /\ pc = "panic" => N \notin {2, 4}

MInv == Width /\ Outcome

\* Padding makes the length even and empties nothing.
LEMMA PaddedEven ==
    ASSUME NEW d \in Seq(Datum)
    PROVE  Padded(d) \in Seq(Datum) /\ ~Odd(Len(Padded(d)))
<1>1. CASE Odd(Len(d))
  <2>1. Len(d) \in Nat /\ Len(d) # 0
    BY <1>1 DEF Odd
  <2>2. d[Len(d)] \in Datum
    BY <2>1
  <2>3. /\ Padded(d) = Append(d, d[Len(d)])
        /\ Padded(d) \in Seq(Datum)
        /\ Len(Padded(d)) = Len(d) + 1
    BY <1>1, <2>2 DEF Padded
  <2>. QED
    BY <1>1, <2>1, <2>3 DEF Odd
<1>2. CASE ~Odd(Len(d))
  BY <1>2 DEF Padded
<1>. QED
  BY <1>1, <1>2

\* The leaves satisfy the invariant.
LEMMA InitWidth == Init => MInv
<1>. SUFFICES ASSUME Init PROVE MInv
  OBVIOUS
<1>1. PICK d \in Arguments :
        /\ data = Padded(d)
        /\ nodes = [k \in 1..Len(Padded(d)) |-> <<Padded(d)[k]>>]
        /\ i = 0
        /\ pc = "loop"
  BY DEF Init
<1>2. d \in Seq(Datum)
  BY MerkleAssumption DEF Arguments
<1>3. data \in Seq(Datum) /\ ~Odd(N)
  BY <1>1, <1>2, PaddedEven DEF N
<1>4. nodes \in Seq(Seq(Datum)) /\ W = N
  BY <1>1, <1>3 DEF N, W
<1>. QED
  BY <1>1, <1>3, <1>4 DEF MInv, Width, Outcome, N, W

\* The arithmetic of a pass: w nodes of n leaves become v, with w even.
LEMMA Halving ==
    ASSUME NEW n \in Nat, NEW w \in Nat, NEW v \in Nat, NEW k \in Nat,
           w = 2 * v, k < n \div 2, n > 0 => w > 0,
           k = 0 => w = n, k = 1 => 2 * w = n,
           k >= 2 => 4 * w <= n - 4 * (k - 2)
    PROVE  /\ k + 1 <= n \div 2
           /\ k + 1 = 1 => 2 * v = n
           /\ k + 1 = 2 => 4 * v = n
           /\ k + 1 >= 2 => 4 * v <= n - 4 * ((k + 1) - 2)
           /\ v > 0
<1>1. n > 0 /\ n \div 2 \in Nat
  OBVIOUS
<1>2. v > 0
  BY <1>1
<1>3. CASE k = 0
  BY <1>1, <1>2, <1>3
<1>4. CASE k = 1
  BY <1>1, <1>2, <1>4
<1>5. CASE k >= 2
  BY <1>1, <1>2, <1>5
<1>. QED
  BY <1>3, <1>4, <1>5

\* With two or four leaves the number of nodes is even before every pass.
LEMMA EvenBeforePass ==
    ASSUME NEW n \in Nat, NEW w \in Nat, NEW k \in Nat,
           k < n \div 2, n \in {2, 4}, k = 0 => w = n, k = 1 => 2 * w = n
    PROVE  ~Odd(w)
<1>1. CASE n = 2
  <2>1. k = 0
    BY <1>1
  <2>. QED
    BY <1>1, <2>1 DEF Odd
<1>2. CASE n = 4
  <2>1. k = 0 \/ k = 1
    BY <1>2
  <2>2. w = 4 \/ w = 2
    BY <1>2, <2>1
  <2>. QED
    BY <2>2 DEF Odd
<1>. QED
  BY <1>1, <1>2

\* When all passes are made there are two or four leaves, or none.
LEMMA AfterLastPass ==
    ASSUME NEW n \in Nat, NEW w \in Nat, NEW k \in Nat,
           ~Odd(n), k = n \div 2, n > 0 => w > 0,
           k = 0 => w = n, k >= 2 => 4 * w <= n - 4 * (k - 2)
    PROVE  w = 0 <=> n \notin {2, 4}
<1>1. n = 2 * k
  BY DEF Odd
<1>2. CASE k = 0
  BY <1>1, <1>2
<1>3. CASE k = 1
  BY <1>1, <1>3
<1>4. CASE k = 2
  BY <1>1, <1>4
<1>5. CASE k > 2
  <2>1. 4 * w <= 8 - 2 * k
    BY <1>1, <1>5
  <2>2. w > 0
    BY <1>1, <1>5
  <2>. QED
    BY <1>5, <2>1, <2>2
<1>. QED
  BY <1>2, <1>3, <1>4, <1>5

\* A pass keeps the invariant, and one that panics has more than four leaves.
LEMMA LevelWidth == MInv /\ Level => MInv'
<1>. SUFFICES ASSUME MInv, Level PROVE MInv'
  OBVIOUS
<1>. USE DEF MInv, N, W
<1>1. CASE Odd(Len(nodes))
  <2>1. UNCHANGED <<data, nodes, i>> /\ pc' = "panic"
    BY <1>1 DEF Level
  <2>2. Width'
    BY <2>1 DEF Width
  <2>3. N \notin {2, 4}
    <3>1. /\ N \in Nat /\ W \in Nat /\ i \in Nat
          /\ i < N \div 2
          /\ i = 0 => W = N
          /\ i = 1 => 2 * W = N
      BY DEF Width, Level
    <3>. QED
      BY <1>1, <3>1, EvenBeforePass
  <2>. QED
    BY <2>1, <2>2, <2>3 DEF Outcome
<1>2. CASE ~Odd(Len(nodes))
  <2>1. /\ nodes' = [k \in 1..(Len(nodes) \div 2) |-> nodes[2 * k - 1] \o nodes[2 * k]]
        /\ i' = i + 1
        /\ data' = data /\ pc' = pc
        /\ i < N \div 2
    BY <1>2 DEF Level
  <2>2. nodes \in Seq(Seq(Datum)) /\ W \in Nat /\ N \in Nat /\ i \in Nat
    BY DEF Width
  <2>3. nodes' \in Seq(Seq(Datum))
    <3>1. \A k \in 1..(W \div 2) : nodes[2 * k - 1] \o nodes[2 * k] \in Seq(Datum)
      <4>1. TAKE k \in 1..(W \div 2)
      <4>2. 2 * k - 1 \in 1..W /\ 2 * k \in 1..W
        BY <2>2
      <4>. QED
        BY <2>2, <4>2
    <3>. QED
      BY <2>1, <2>2, <3>1
  <2>4. W' = W \div 2
    BY <2>1, <2>2
  <2>5. W = 2 * W' /\ W' \in Nat
    BY <1>2, <2>2, <2>4 DEF Odd
  <2>6. /\ N > 0 => W > 0
        /\ i = 0 => W = N
        /\ i = 1 => 2 * W = N
        /\ i >= 2 => 4 * W <= N - 4 * (i - 2)
        /\ data \in Seq(Datum) /\ ~Odd(N)
    BY DEF Width
  <2>7. /\ i' <= N \div 2
        /\ i' = 1 => 2 * W' = N
        /\ i' = 2 => 4 * W' = N
        /\ i' >= 2 => 4 * W' <= N - 4 * (i' - 2)
        /\ W' > 0
    <3>. HIDE DEF N, W, MInv
    <3>1. i < N \div 2 /\ W = 2 * W' /\ W' \in Nat
      BY <2>1, <2>5
    <3>2. /\ i + 1 <= N \div 2
          /\ i + 1 = 1 => 2 * W' = N
          /\ i + 1 = 2 => 4 * W' = N
          /\ i + 1 >= 2 => 4 * W' <= N - 4 * ((i + 1) - 2)
          /\ W' > 0
      <4>1. PICK n, w, v, k \in Nat : n = N /\ w = W /\ v = W' /\ k = i
        BY <2>2, <3>1
      <4>2. /\ w = 2 * v /\ k < n \div 2 /\ (n > 0 => w > 0)
            /\ (k = 0 => w = n) /\ (k = 1 => 2 * w = n)
            /\ (k >= 2 => 4 * w <= n - 4 * (k - 2))
        BY ONLY <2>6, <3>1, <4>1
      <4>3. /\ k + 1 <= n \div 2
            /\ k + 1 = 1 => 2 * v = n
            /\ k + 1 = 2 => 4 * v = n
            /\ k + 1 >= 2 => 4 * v <= n - 4 * ((k + 1) - 2)
            /\ v > 0
        BY ONLY <4>2, Halving, n \in Nat, w \in Nat, v \in Nat, k \in Nat
      <4>. QED
        BY ONLY <4>3, <4>1
    <3>. QED
      BY ONLY <2>1, <3>2
  <2>8. Width'
    <3>1. N' = N
      BY <2>1
    <3>2. i' \in Nat /\ i' # 0
      BY <2>1, <2>2
    <3>. HIDE DEF N, W, MInv
    <3>. QED
      BY <2>1, <2>3, <2>6, <2>7, <3>1, <3>2 DEF Width
  <2>. QED
    BY <2>1, <2>8 DEF Outcome
<1>. QED
  BY <1>1, <1>2

\* All passes made, at least one node is left only of two or four leaves.
LEMMA ReturnWidth == MInv /\ Return => MInv'
<1>. SUFFICES ASSUME MInv, Return PROVE MInv'
  OBVIOUS
<1>. USE DEF MInv, N, W
<1>1. UNCHANGED <<data, nodes, i>> /\ i = N \div 2
  BY DEF Return, Width
<1>2. Width'
  BY <1>1 DEF Width
<1>3. nodes = <<>> <=> W = 0
  BY DEF Width
<1>4. W = 0 <=> N \notin {2, 4}
  <2>1. /\ N \in Nat /\ W \in Nat /\ i \in Nat /\ ~Odd(N)
        /\ N > 0 => W > 0
        /\ i = 0 => W = N
        /\ i >= 2 => 4 * W <= N - 4 * (i - 2)
    BY DEF Width
  <2>. QED
    BY <1>1, <2>1, AfterLastPass
<1>. QED
  BY <1>1, <1>2, <1>3, <1>4 DEF Return, Outcome

\* The numbers of nodes and passes are as Width says at all times.
THEOREM WidthInvariant == Spec => []MInv
<1>1. MInv /\ UNCHANGED vars => MInv'
  BY DEF MInv, Width, Outcome, N, W, vars
<1>2. MInv /\ [Next]_vars => MInv'
  BY <1>1, LevelWidth, ReturnWidth DEF Next
<1>. QED
  BY <1>2, InitWidth, PTL DEF Spec

\* NewMerkleTree returns for one to four transactions and panics for any other
\* number, whatever bound MaxData puts on it: the comments at merkle.go:41-46 promise a
\* tree for all data and levels that are even, which TLC refutes (EveryLevelIsEven).
THEOREM OnlyOneToFour == Spec => []OneToFour
<1>1. MInv => OneToFour
  BY DEF MInv, Outcome, OneToFour, N
<1>. QED
  BY <1>1, WidthInvariant, PTL
--------------------------------------------------------------------------
(* What the nodes hold. *)

Leaves(d) == [k \in 1..Len(d) |-> <<d[k]>>]
Pairs(d) == [k \in 1..(Len(d) \div 2) |-> <<d[2 * k - 1], d[2 * k]>>]

Content ==
    /\ i = 0 => nodes = Leaves(data)
    /\ i = 1 => nodes = Pairs(data)
    /\ i = 2 /\ N = 4 => nodes = <<data>>
    /\ pc = "done" => i = N \div 2

\* Two leaves joined hold the data of both, in order.
LEMMA JoinLeaves ==
    ASSUME NEW S, NEW a \in S, NEW b \in S
    PROVE  <<a>> \o <<b>> = <<a, b>>
<1>. DEFINE s == <<a>>
            t == <<b>>
            st == <<a, b>>
<1>1. /\ s \in Seq(S) /\ Len(s) = 1 /\ s[1] = a
      /\ t \in Seq(S) /\ Len(t) = 1 /\ t[1] = b
      /\ st \in Seq(S) /\ Len(st) = 2 /\ st[1] = a /\ st[2] = b
  OBVIOUS
<1>. HIDE DEF s, t, st
<1>2. /\ s \o t \in Seq(S) /\ Len(s \o t) = 2
      /\ (s \o t)[1] = a /\ (s \o t)[2] = b
  BY <1>1, ConcatProperties
<1>3. \A p \in 1..Len(s \o t) : (s \o t)[p] = st[p]
  BY <1>1, <1>2
<1>4. s \o t = st
  BY <1>1, <1>2, <1>3, SeqEqual
<1>. QED
  BY <1>4 DEF s, t, st

\* Two pairs of leaves joined hold the data of all four, in order.
LEMMA JoinPairs ==
    ASSUME NEW S, NEW a \in S, NEW b \in S, NEW c \in S, NEW d \in S
    PROVE  <<a, b>> \o <<c, d>> = <<a, b, c, d>>
<1>. DEFINE s == <<a, b>>
            t == <<c, d>>
            st == <<a, b, c, d>>
<1>1. /\ s \in Seq(S) /\ Len(s) = 2 /\ s[1] = a /\ s[2] = b
      /\ t \in Seq(S) /\ Len(t) = 2 /\ t[1] = c /\ t[2] = d
      /\ st \in Seq(S) /\ Len(st) = 4
      /\ st[1] = a /\ st[2] = b /\ st[3] = c /\ st[4] = d
  OBVIOUS
<1>. HIDE DEF s, t, st
<1>2. /\ s \o t \in Seq(S) /\ Len(s \o t) = 4
      /\ (s \o t)[1] = a /\ (s \o t)[2] = b
      /\ (s \o t)[3] = c /\ (s \o t)[4] = d
  <2>1. /\ s \o t \in Seq(S) /\ Len(s \o t) = 4
        /\ \A p \in 1..4 : (s \o t)[p] = IF p <= 2 THEN s[p] ELSE t[p - 2]
    <3>1. /\ Len(s \o t) = Len(s) + Len(t)
          /\ s \o t \in Seq(S)
          /\ \A p \in 1..Len(s) + Len(t) :
                (s \o t)[p] = IF p <= Len(s) THEN s[p] ELSE t[p - Len(s)]
      BY ONLY <1>1, ConcatProperties
    <3>. QED
      BY ONLY <1>1, <3>1
  <2>. QED
    BY <1>1, <2>1
<1>3. \A p \in 1..Len(s \o t) : (s \o t)[p] = st[p]
  BY <1>1, <1>2
<1>4. s \o t = st
  BY <1>1, <1>2, <1>3, SeqEqual
<1>. QED
  BY <1>4 DEF s, t, st

\* A pass joins what the nodes hold.
LEMMA LevelContent == MInv /\ Content /\ Level => Content'
<1>. SUFFICES ASSUME MInv, Content, Level PROVE Content'
  OBVIOUS
<1>. USE DEF N, W
<1>1. CASE Odd(Len(nodes))
  <2>1. UNCHANGED <<data, nodes, i>> /\ pc' = "panic"
    BY <1>1 DEF Level
  <2>. QED
    BY <2>1 DEF Content
<1>2. CASE ~Odd(Len(nodes))
  <2>1. /\ nodes' = [k \in 1..(W \div 2) |-> nodes[2 * k - 1] \o nodes[2 * k]]
        /\ i' = i + 1
        /\ data' = data /\ pc' = "loop"
    BY <1>2 DEF Level
  <2>2. /\ W \in Nat /\ N \in Nat /\ i \in Nat
        /\ data \in Seq(Datum)
        /\ i = 0 => W = N
        /\ i = 1 => 2 * W = N
    BY DEF MInv, Width
  <2>3. CASE i = 0
    <3>1. /\ nodes = [k \in 1..N |-> <<data[k]>>]
          /\ W = N
      BY <2>2, <2>3 DEF Content, Leaves
    <3>2. \A k \in 1..(N \div 2) :
             nodes[2 * k - 1] \o nodes[2 * k] = <<data[2 * k - 1], data[2 * k]>>
      <4>1. TAKE k \in 1..(N \div 2)
      <4>2. 2 * k - 1 \in 1..N /\ 2 * k \in 1..N
        BY <2>2
      <4>3. nodes[2 * k - 1] = <<data[2 * k - 1]>> /\ nodes[2 * k] = <<data[2 * k]>>
        BY <3>1, <4>2
      <4>. QED
        BY <2>2, <4>2, <4>3, JoinLeaves
    <3>3. nodes' = Pairs(data)
      BY <2>1, <3>1, <3>2 DEF Pairs
    <3>. QED
      <4>1. i' = 1 /\ N' = N
        BY <2>1, <2>3
      <4>2. data' = data /\ pc' = "loop"
        BY <2>1
      <4>3. Pairs(data)' = Pairs(data)
        BY ONLY <4>2 DEF Pairs
      <4>. QED
        BY ONLY <3>3, <4>1, <4>2, <4>3 DEF Content
  <2>4. CASE i = 1
    <3>1. ASSUME N = 4
          PROVE  nodes' = <<data>>
      <4>1. /\ nodes = [k \in 1..2 |-> <<data[2 * k - 1], data[2 * k]>>]
            /\ W = 2
        BY <2>2, <2>4, <3>1 DEF Content, Pairs
      <4>2. nodes[1] = <<data[1], data[2]>> /\ nodes[2] = <<data[3], data[4]>>
        BY <4>1
      <4>3. nodes[1] \o nodes[2] = data
        <5>1. \A p \in 1..4 : data[p] \in Datum
          <6>1. Len(data) = 4 /\ data \in Seq(Datum)
            BY <2>2, <3>1
          <6>. QED
            BY ONLY <6>1, ElementOfSeq
        <5>2. /\ data[1] \in Datum /\ data[2] \in Datum
              /\ data[3] \in Datum /\ data[4] \in Datum
          BY <5>1
        <5>3. nodes[1] \o nodes[2] = <<data[1], data[2], data[3], data[4]>>
          BY <4>2, <5>2, JoinPairs
        <5>4. data = <<data[1], data[2], data[3], data[4]>>
          BY <2>2, <3>1
        <5>. QED
          BY <5>3, <5>4
      <4>4. nodes' = [k \in 1..1 |-> nodes[1] \o nodes[2]]
        BY <2>1, <4>1
      <4>. QED
        BY ONLY <4>3, <4>4
    <3>2. i' = 2 /\ data' = data /\ pc' = "loop"
      BY <2>1, <2>4
    <3>. QED
      BY ONLY <3>1, <3>2 DEF Content
  <2>5. CASE i > 1
    <3>1. i' # 0 /\ i' # 1 /\ i' # 2 /\ pc' = "loop"
      BY <2>1, <2>2, <2>5
    <3>. QED
      BY ONLY <3>1 DEF Content
  <2>. QED
    BY <2>2, <2>3, <2>4, <2>5
<1>. QED
  BY <1>1, <1>2

\* The root of a tree that NewMerkleTree returns covers all transactions, in
\* order, for every set of possible transactions.
THEOREM RootAlwaysCoversData == Spec => []RootCoversData
<1>1. Init => Content
  <2>. SUFFICES ASSUME Init PROVE Content
    OBVIOUS
  <2>1. i = 0 /\ pc = "loop" /\ nodes = Leaves(data)
    BY DEF Init, Leaves
  <2>. QED
    BY ONLY <2>1 DEF Content
<1>2. MInv /\ Content /\ Return => Content'
  <2>. SUFFICES ASSUME MInv, Content, Return PROVE Content'
    OBVIOUS
  <2>1. UNCHANGED <<data, nodes, i>> /\ i = N \div 2
    BY DEF MInv, Width, Return, N
  <2>. QED
    BY ONLY <2>1, Content DEF Content, N
<1>3. Content /\ UNCHANGED vars => Content'
  BY DEF Content, vars, N
<1>4. MInv /\ Content /\ [Next]_vars => Content'
  BY <1>2, <1>3, LevelContent DEF Next
<1>5. MInv /\ Content => RootCoversData
  <2>. SUFFICES ASSUME MInv, Content, pc = "done" PROVE nodes = <<data>>
    BY DEF RootCoversData
  <2>1. N \in {2, 4} /\ i = N \div 2 /\ data \in Seq(Datum)
    BY DEF MInv, Width, Outcome, Content
  <2>2. CASE N = 2
    <3>1. nodes = [k \in 1..1 |-> <<data[2 * k - 1], data[2 * k]>>]
      BY <2>1, <2>2 DEF Content, Pairs, N
    <3>2. nodes = <<<<data[1], data[2]>>>>
      BY <3>1
    <3>3. data = <<data[1], data[2]>>
      BY <2>1, <2>2 DEF N
    <3>. QED
      BY <3>2, <3>3
  <2>3. CASE N = 4
    BY <2>1, <2>3 DEF Content
  <2>. QED
    BY <2>1, <2>2, <2>3
<1>. QED
  BY <1>1, <1>4, <1>5, WidthInvariant, PTL DEF Spec
==========================================================================
