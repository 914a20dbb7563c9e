-------------------------- MODULE UtxoSet_proofs --------------------------
(***************************************************************************)
(* What FindUTXO finds, for any chain; and that the index it is kept in is *)
(* what UtxoSet promises, for any chains, any number of goroutines and any *)
(* interleaving and kill of their Reindexes.                               *)
(***************************************************************************)
EXTENDS UtxoSet, Basics_proofs

--------------------------------------------------------------------------
(* Lists. *)

\* Chosen takes the elements at the positions it is given, in their order.
LEMMA ChosenHolds ==
    ASSUME NEW S, NEW list \in Seq(S), NEW ks \in SUBSET DOMAIN list
    PROVE  Chosen(list, ks) \in Seq(S) /\ Holds(Chosen(list, ks), list, ks)
<1>1. PICK n \in Nat : n = Len(list) /\ DOMAIN list = 1..n /\ \A i \in 1..n : list[i] \in S
  OBVIOUS
<1>2. PICK chosen : Choice(chosen, list, ks, S)
  BY ChosenLoop
<1>3. /\ chosen \in [0..n -> Seq(S)]
      /\ chosen[0] = <<>>
      /\ \A i \in 1..n :
            chosen[i] = IF i \in ks THEN Append(chosen[i - 1], list[i]) ELSE chosen[i - 1]
      /\ Chosen(list, ks) = chosen[n]
  BY <1>1, <1>2 DEF Choice
<1>. DEFINE Ks(i) == {k \in ks : k <= i}
            T == {i \in 0..n : Holds(chosen[i], list, Ks(i))}
<1>4. 0 \in T
  <2>1. Ks(0) = {} /\ chosen[0] = <<>> /\ DOMAIN <<>> = {} /\ Len(<<>>) = 0
    BY <1>1, <1>3
  <2>2. PICK c : c = <<>> /\ DOMAIN c = {} /\ 1..Len(c) = {} /\ ToSet(c) = {}
                 /\ c \in [{} -> {}]
    <3>1. PICK c : c = <<>>
      OBVIOUS
    <3>2. DOMAIN c = {} /\ Len(c) = 0
      BY <3>1
    <3>3. c \in Seq({})
      BY <3>1
    <3>4. c \in [{} -> {}]
      BY <3>2, <3>3
    <3>5. 1..Len(c) = {} /\ ToSet(c) = {}
      BY <3>2 DEF ToSet
    <3>. QED
      BY <3>1, <3>2, <3>4, <3>5
  <2>3. Holds(c, list, {})
    BY <2>2 DEF Holds
  <2>. HIDE DEF Ks
  <2>4. Holds(chosen[0], list, Ks(0))
    BY <1>3, <2>1, <2>2, <2>3
  <2>. QED
    BY <1>1, <2>4
<1>5. ASSUME NEW i \in 0..(n - 1), i \in T PROVE i + 1 \in T
  <2>1. i + 1 \in 1..n /\ (i + 1) - 1 = i /\ i \in 0..n /\ i + 1 \in 0..n /\ i \in Int
    BY <1>1
  <2>2. chosen[i] \in Seq(S) /\ list[i + 1] \in S
    BY <1>1, <1>3, <2>1
  <2>3. Holds(chosen[i], list, Ks(i))
    BY <1>5
  <2>4. CASE i + 1 \in ks
    <3>1. Ks(i + 1) = Ks(i) \cup {i + 1}
      BY <1>1, <2>1, <2>4
    <3>2. chosen[i + 1] = Append(chosen[i], list[i + 1])
      BY <1>3, <2>1, <2>4
    <3>. DEFINE c == chosen[i]
                d == chosen[i + 1]
    <3>3. PICK l \in Nat : /\ l = Len(c) /\ DOMAIN c = 1..l
                           /\ DOMAIN d = 1..(l + 1) /\ Len(d) = l + 1
                           /\ d[l + 1] = list[i + 1] /\ \A m \in 1..l : d[m] = c[m]
      BY <2>2, <3>2
    <3>4. PICK at \in [1..l -> Ks(i)] :
                 /\ ToSet(at) = Ks(i)
                 /\ \A p, q \in 1..l : p < q => at[p] < at[q]
                 /\ \A p \in 1..l : c[p] = list[at[p]]
      BY <2>3, <3>3 DEF Holds
    <3>. DEFINE next == [m \in 1..(l + 1) |-> IF m = l + 1 THEN i + 1 ELSE at[m]]
    <3>5. \A m \in 1..(l + 1) : m = l + 1 \/ (m \in 1..l /\ m # l + 1)
      OBVIOUS
    <3>6. next \in [1..(l + 1) -> Ks(i + 1)]
      BY <3>1, <3>4, <3>5
    <3>7. ToSet(next) = Ks(i + 1)
      <4>1. next[l + 1] = i + 1 /\ \A m \in 1..l : next[m] = at[m]
        OBVIOUS
      <4>2. l + 1 \in 1..(l + 1) /\ 1..l \subseteq 1..(l + 1)
        OBVIOUS
      <4>. HIDE DEF next, Ks
      <4>. QED
        BY <3>1, <3>4, <3>5, <3>6, <4>1, <4>2 DEF ToSet
    <3>8. \A p, q \in 1..(l + 1) : p < q => next[p] < next[q]
      <4>. SUFFICES ASSUME NEW p \in 1..(l + 1), NEW q \in 1..(l + 1), p < q
                    PROVE  next[p] < next[q]
        OBVIOUS
      <4>1. p \in 1..l /\ next[p] = at[p]
        OBVIOUS
      <4>2. at[p] \in ks /\ at[p] <= i /\ at[p] \in Int
        BY <1>1, <3>4, <4>1
      <4>3. CASE q = l + 1
        BY <2>1, <4>1, <4>2, <4>3
      <4>4. CASE q # l + 1
        <5>1. q \in 1..l /\ next[q] = at[q]
          BY <4>4
        <5>. QED
          BY <3>4, <4>1, <5>1
      <4>. QED
        BY <4>3, <4>4
    <3>9. \A p \in 1..(l + 1) : d[p] = list[next[p]]
      BY <3>3, <3>4, <3>5
    <3>10. Holds(d, list, Ks(i + 1))
      <4>. HIDE DEF d, next, Ks
      <4>. QED
        BY <3>3, <3>6, <3>7, <3>8, <3>9 DEF Holds
    <3>. QED
      BY <2>1, <3>10
  <2>5. CASE i + 1 \notin ks
    <3>1. chosen[i + 1] = chosen[i]
      BY <1>3, <2>1, <2>5
    <3>2. Ks(i + 1) = Ks(i)
      BY <1>1, <2>1, <2>5
    <3>. QED
      BY <2>1, <2>3, <3>1, <3>2
  <2>. QED
    BY <2>4, <2>5
<1>6. n \in T
  <2>. HIDE DEF T
  <2>1. 0..n \subseteq T
    BY <1>1, <1>4, <1>5, InductionUpTo
  <2>. QED
    BY <1>1, <2>1
<1>7. Ks(n) = ks
  BY <1>1
<1>. QED
  BY <1>1, <1>3, <1>6, <1>7

\* So its elements are the elements at these positions.
LEMMA ChosenElements ==
    ASSUME NEW S, NEW list \in Seq(S), NEW ks \in SUBSET DOMAIN list
    PROVE  ToSet(Chosen(list, ks)) = {list[k] : k \in ks}
<1>. DEFINE c == Chosen(list, ks)
<1>1. PICK at \in [DOMAIN c -> ks] :
             ToSet(at) = ks /\ \A i \in DOMAIN c : c[i] = list[at[i]]
  BY ChosenHolds DEF Holds
<1>. HIDE DEF c
<1>2. ToSet(c) = {list[k] : k \in ks}
  BY <1>1 DEF ToSet
<1>. QED
  BY <1>2 DEF c

\* The first elements of a list are chosen as they are, ...
LEMMA ChosenFirst ==
    ASSUME NEW S, NEW list \in Seq(S), NEW m \in 0..Len(list)
    PROVE  /\ Chosen(list, 1..m) \in Seq(S)
           /\ Len(Chosen(list, 1..m)) = m
           /\ \A j \in 1..m : Chosen(list, 1..m)[j] = list[j]
<1>1. PICK n \in Nat : n = Len(list) /\ DOMAIN list = 1..n /\ \A i \in 1..n : list[i] \in S
  OBVIOUS
<1>m. m \in Nat /\ m <= n
  BY <1>1
<1>2. PICK chosen : Choice(chosen, list, 1..m, S)
  BY ChosenLoop
<1>3. /\ chosen \in [0..n -> Seq(S)]
      /\ chosen[0] = <<>>
      /\ \A i \in 1..n :
            chosen[i] = IF i \in 1..m THEN Append(chosen[i - 1], list[i]) ELSE chosen[i - 1]
      /\ Chosen(list, 1..m) = chosen[n]
  BY <1>1, <1>2 DEF Choice
<1>. DEFINE First(i) == IF i <= m THEN i ELSE m
            T == {i \in 0..n : /\ Len(chosen[i]) = First(i)
                               /\ \A j \in 1..First(i) : chosen[i][j] = list[j]}
<1>4. 0 \in T
  BY <1>1, <1>m, <1>3
<1>5. ASSUME NEW i \in 0..(n - 1), i \in T PROVE i + 1 \in T
  <2>1. i + 1 \in 1..n /\ (i + 1) - 1 = i /\ i \in 0..n /\ i + 1 \in 0..n /\ i \in Nat
    BY <1>1
  <2>2. PICK c \in Seq(S) : c = chosen[i] /\ Len(c) = First(i)
                            /\ \A j \in 1..First(i) : c[j] = list[j]
    BY <1>3, <1>5, <2>1
  <2>3. CASE i + 1 <= m
    <3>0. i + 1 \in 1..m /\ First(i) = i /\ First(i + 1) = i + 1
      BY <1>m, <2>1, <2>3
    <3>1. chosen[i + 1] = Append(c, list[i + 1]) /\ First(i) = i /\ First(i + 1) = i + 1
      <4>1. chosen[i + 1] = Append(chosen[i], list[i + 1])
        BY <1>3, <2>1, <3>0
      <4>. HIDE DEF First
      <4>. QED
        BY <2>2, <3>0, <4>1
    <3>2. PICK x \in S : x = list[i + 1]
      <4>1. list[i + 1] \in S
        BY <1>1, <2>1
      <4>. QED
        BY <4>1
    <3>3. PICK d \in Seq(S) : d = Append(c, x)
      <4>1. Append(c, x) \in Seq(S)
        OBVIOUS
      <4>. QED
        BY <4>1
    <3>l. Len(c) = i /\ \A j \in 1..i : c[j] = list[j]
      BY <2>2, <3>1
    <3>d. Len(d) = i + 1 /\ d[i + 1] = x /\ \A j \in 1..i : d[j] = c[j]
      BY <3>3, <3>l
    <3>4. \A j \in 1..(i + 1) : d[j] = list[j]
      BY <2>1, <3>2, <3>l, <3>d
    <3>. QED
      BY <2>1, <3>1, <3>2, <3>3, <3>4, <3>d
  <2>4. CASE ~(i + 1 <= m)
    <3>1. chosen[i + 1] = c /\ First(i + 1) = First(i)
      BY <1>3, <1>m, <2>1, <2>2, <2>4
    <3>. QED
      BY <2>1, <2>2, <3>1
  <2>. QED
    BY <2>3, <2>4
<1>6. n \in T
  <2>. HIDE DEF T
  <2>1. 0..n \subseteq T
    BY <1>1, <1>4, <1>5, InductionUpTo
  <2>. QED
    BY <1>1, <2>1
<1>. QED
  BY <1>1, <1>m, <1>3, <1>6

\* ... which for all elements is the list itself.
LEMMA ChosenAll ==
    ASSUME NEW S, NEW list \in Seq(S)
    PROVE  Chosen(list, DOMAIN list) = list
<1>1. PICK n \in Nat : n = Len(list) /\ DOMAIN list = 1..n
  OBVIOUS
<1>2. PICK c \in Seq(S) : /\ c = Chosen(list, DOMAIN list) /\ Len(c) = n
                          /\ \A j \in 1..n : c[j] = list[j]
  <2>1. n \in 0..Len(list)
    BY <1>1
  <2>2. /\ Chosen(list, 1..n) \in Seq(S) /\ Len(Chosen(list, 1..n)) = n
        /\ \A j \in 1..n : Chosen(list, 1..n)[j] = list[j]
    BY <2>1, ChosenFirst
  <2>. QED
    BY <1>1, <2>2
<1>. QED
  BY <1>1, <1>2

\* Chosen makes nothing longer, and repeats nothing that the list does not repeat.
LEMMA ChosenShortens ==
    ASSUME NEW S, NEW list \in Seq(S), NEW ks \in SUBSET DOMAIN list
    PROVE  Chosen(list, ks) \in Seq(S) /\ Len(Chosen(list, ks)) <= Len(list)
<1>1. PICK n \in Nat : n = Len(list) /\ DOMAIN list = 1..n /\ \A i \in 1..n : list[i] \in S
  OBVIOUS
<1>2. PICK chosen : Choice(chosen, list, ks, S)
  BY ChosenLoop
<1>3. /\ chosen \in [0..n -> Seq(S)]
      /\ chosen[0] = <<>>
      /\ \A i \in 1..n :
            chosen[i] = IF i \in ks THEN Append(chosen[i - 1], list[i]) ELSE chosen[i - 1]
      /\ Chosen(list, ks) = chosen[n]
  BY <1>1, <1>2 DEF Choice
<1>. DEFINE T == {i \in 0..n : Len(chosen[i]) <= i}
<1>4. 0 \in T
  BY <1>1, <1>3
<1>5. ASSUME NEW i \in 0..(n - 1), i \in T PROVE i + 1 \in T
  <2>1. i + 1 \in 1..n /\ (i + 1) - 1 = i /\ i \in 0..n /\ i + 1 \in 0..n /\ i \in Nat
    BY <1>1
  <2>2. PICK c \in Seq(S) : c = chosen[i] /\ Len(c) <= i
    BY <1>3, <1>5, <2>1
  <2>3. chosen[i + 1] = c \/ chosen[i + 1] = Append(c, list[i + 1])
    BY <1>3, <2>1, <2>2
  <2>4. list[i + 1] \in S
    BY <1>1, <2>1
  <2>. QED
    BY <2>1, <2>2, <2>3, <2>4
<1>6. n \in T
  <2>. HIDE DEF T
  <2>1. 0..n \subseteq T
    BY <1>1, <1>4, <1>5, InductionUpTo
  <2>. QED
    BY <1>1, <2>1
<1>. QED
  BY <1>1, <1>3, <1>6

LEMMA ChosenOnce ==
    ASSUME NEW S, NEW list \in Seq(S), NEW ks \in SUBSET DOMAIN list, IsInjective(list)
    PROVE  IsInjective(Chosen(list, ks))
<1>1. PICK c \in Seq(S) : c = Chosen(list, ks) /\ Holds(c, list, ks)
  BY ChosenHolds
<1>2. PICK at \in [DOMAIN c -> ks] :
             /\ \A i, j \in DOMAIN c : i < j => at[i] < at[j]
             /\ \A i \in DOMAIN c : c[i] = list[at[i]]
  BY <1>1 DEF Holds
<1>3. ASSUME NEW i \in DOMAIN c, NEW j \in DOMAIN c, c[i] = c[j] PROVE i = j
  <2>1. at[i] = at[j] /\ at[i] \in DOMAIN list
    BY <1>2, <1>3 DEF IsInjective
  <2>2. i \in Nat /\ j \in Nat /\ at[i] \in Nat
    BY <2>1
  <2>. QED
    BY <1>2, <2>1, <2>2
<1>. QED
  BY <1>1, <1>3 DEF IsInjective

\* Chosen from the first elements is chosen from the list.
LEMMA ChosenOfFirst ==
    ASSUME NEW S, NEW list \in Seq(S), NEW m \in 0..Len(list), NEW ks \in SUBSET (1..m)
    PROVE  Chosen(Chosen(list, 1..m), ks) = Chosen(list, ks)
<1>1. PICK n \in Nat : n = Len(list) /\ DOMAIN list = 1..n /\ \A i \in 1..n : list[i] \in S
  OBVIOUS
<1>m. m \in Nat /\ m <= n
  BY <1>1
<1>2. PICK first \in Seq(S) : /\ first = Chosen(list, 1..m) /\ Len(first) = m
                              /\ \A j \in 1..m : first[j] = list[j]
  BY ChosenFirst
<1>3. PICK long : Choice(long, list, ks, S)
  BY ChosenLoop
<1>4. PICK short : Choice(short, first, ks, S)
  BY ChosenLoop
<1>5. /\ long[0] = <<>> /\ Chosen(list, ks) = long[n]
      /\ \A i \in 1..n :
            long[i] = IF i \in ks THEN Append(long[i - 1], list[i]) ELSE long[i - 1]
  BY <1>1, <1>3 DEF Choice
<1>6. /\ short[0] = <<>> /\ Chosen(first, ks) = short[m]
      /\ \A i \in 1..m :
            short[i] = IF i \in ks THEN Append(short[i - 1], list[i]) ELSE short[i - 1]
  BY <1>2, <1>4 DEF Choice
<1>. DEFINE T == {i \in 0..n : long[i] = short[IF i <= m THEN i ELSE m]}
<1>7. 0 \in T
  BY <1>1, <1>m, <1>5, <1>6
<1>8. ASSUME NEW i \in 0..(n - 1), i \in T PROVE i + 1 \in T
  <2>1. i + 1 \in 1..n /\ (i + 1) - 1 = i /\ i \in 0..n /\ i + 1 \in 0..n /\ i \in Nat
    BY <1>1
  <2>2. CASE i + 1 <= m
    <3>1. i + 1 \in 1..m /\ i <= m
      BY <1>m, <2>1, <2>2
    <3>2. long[i] = short[i]
      BY <1>8, <3>1
    <3>. QED
      BY <1>5, <1>6, <2>1, <2>2, <3>1, <3>2
  <2>3. CASE ~(i + 1 <= m)
    <3>1. i + 1 \notin ks /\ (i <= m => i = m)
      BY <1>m, <2>1, <2>3
    <3>2. long[i + 1] = long[i]
      BY <1>5, <2>1, <3>1
    <3>3. long[i] = short[m]
      BY <1>8, <3>1
    <3>. QED
      BY <2>1, <2>3, <3>2, <3>3
  <2>. QED
    BY <2>2, <2>3
<1>9. n \in T
  <2>. HIDE DEF T
  <2>1. 0..n \subseteq T
    BY <1>1, <1>7, <1>8, InductionUpTo
  <2>. QED
    BY <1>1, <2>1
<1>. QED
  BY <1>1, <1>m, <1>2, <1>5, <1>6, <1>9

--------------------------------------------------------------------------
(* The order in which FindUTXO meets the transactions of a chain. *)

\* The transactions of a chain, block by block.
Txs(chain) == UNION {ToSet(chain[b]) : b \in DOMAIN chain}

LEMMA ChainOfTxs ==
    ASSUME NEW chain, IsChain(chain)
    PROVE  /\ chain \in Seq(Seq(Txs(chain)))
           /\ DOMAIN chain = 1..Len(chain) /\ Len(chain) \in Nat
<1>1. chain \in Seq(ToSet(chain)) /\ DOMAIN chain = 1..Len(chain) /\ Len(chain) \in Nat
  BY DEF IsChain
<1>2. \A b \in DOMAIN chain : ToSet(chain[b]) \subseteq Txs(chain)
  BY DEF Txs
<1>3. \A b \in DOMAIN chain : chain[b] \in Seq(Txs(chain))
  <2>. SUFFICES ASSUME NEW b \in DOMAIN chain PROVE chain[b] \in Seq(Txs(chain))
    OBVIOUS
  <2>1. chain[b] \in Seq(ToSet(chain[b]))
    BY DEF IsChain
  <2>. QED
    BY <1>2, <2>1
<1>. QED
  BY <1>1, <1>3

\* at[x] is the block of the transaction that is met as number x: every block is
\* met, from the tip down, and none twice.
MetAt(at, w, chain) ==
    /\ w \in Seq(Txs(chain))
    /\ at \in [1..Len(w) -> DOMAIN chain]
    /\ \A x, y \in 1..Len(w) : x < y => at[x] >= at[y]
    /\ \A x \in 1..Len(w) : w[x] \in ToSet(chain[at[x]])
    /\ \A b \in DOMAIN chain : \A tx \in ToSet(chain[b]) :
          \E x \in 1..Len(w) : at[x] = b /\ w[x] = tx
    /\ \A x, y \in 1..Len(w) :
          at[x] = at[y] /\ w[x] = w[y] /\ IsInjective(chain[at[x]]) => x = y

LEMMA WalkMeets ==
    ASSUME NEW chain, IsChain(chain)
    PROVE  \E at : MetAt(at, Walk(chain), chain)
<1>0. PICK n \in Nat : n = Len(chain)
  BY ChainOfTxs
<1>1. PICK T :
        /\ n = Len(chain) /\ T = Txs(chain) /\ DOMAIN chain = 1..n
        /\ \A b \in 1..n : chain[b] \in Seq(T)
  BY <1>0, ChainOfTxs
<1>2. PICK down \in Seq(Seq(T)) :
        /\ Len(down) = n /\ \A i \in 1..n : down[i] = chain[n - i + 1]
        /\ FlattenSeq(down) = Walk(chain)
  <2>1. \A i \in 1..n : n - i + 1 \in 1..n
    BY <1>1
  <2>2. Reverse(chain) = [i \in 1..n |-> chain[n - i + 1]]
    BY <1>1 DEF Reverse
  <2>3. Reverse(chain) \in Seq(Seq(T)) /\ Len(Reverse(chain)) = n
    BY <1>1, <2>1, <2>2
  <2>. QED
    BY <2>2, <2>3 DEF Walk
<1>3. PICK flat : Concatenation(flat, down, T)
  BY FlattenLoop
<1>4. /\ flat \in [0..n -> Seq(T)] /\ flat[0] = <<>> /\ flat[n] = Walk(chain)
      /\ \A i \in 1..n : flat[i] = flat[i - 1] \o chain[n - i + 1]
  BY <1>2, <1>3 DEF Concatenation
<1>. DEFINE Met(at, w, i) ==
              /\ at \in [1..Len(w) -> {b \in 1..n : n - i < b}]
              /\ \A x, y \in 1..Len(w) : x < y => at[x] >= at[y]
              /\ \A x \in 1..Len(w) : w[x] \in ToSet(chain[at[x]])
              /\ \A b \in 1..n : n - i < b =>
                   \A tx \in ToSet(chain[b]) :
                     \E x \in 1..Len(w) : at[x] = b /\ w[x] = tx
              /\ \A x, y \in 1..Len(w) :
                   at[x] = at[y] /\ w[x] = w[y] /\ IsInjective(chain[at[x]]) => x = y
            U == {i \in 0..n : \E at : Met(at, flat[i], i)}
<1>5. 0 \in U
  <2>1. PICK w : w = flat[0] /\ 1..Len(w) = {}
    BY <1>4
  <2>2. PICK at : at \in [{} -> {}]
    <3>1. [x \in {} |-> x] \in [{} -> {}]
      OBVIOUS
    <3>. QED
      BY <3>1
  <2>3. Met(at, w, 0)
    <3>1. {b \in 1..n : n - 0 < b} = {} /\ \A b \in 1..n : ~(n - 0 < b)
      BY <1>1
    <3>. QED
      BY <2>1, <2>2, <3>1
  <2>. HIDE DEF Met
  <2>. QED
    BY <1>1, <2>1, <2>3
<1>6. ASSUME NEW i \in 0..(n - 1), i \in U PROVE i + 1 \in U
  <2>1. i + 1 \in 1..n /\ (i + 1) - 1 = i /\ i \in 0..n /\ i + 1 \in 0..n /\ i \in Nat
    BY <1>1
  <2>2. PICK at : Met(at, flat[i], i)
    BY <1>6
  <2>3. PICK c \in 1..n : c = n - (i + 1) + 1
    <3>1. n - (i + 1) + 1 \in 1..n
      BY <1>1, <2>1
    <3>. QED
      BY <3>1
  <2>4a. PICK v \in Seq(T) : v = flat[i]
    BY <1>4, <2>1
  <2>4b. PICK w \in Seq(T) : w = flat[i + 1]
    BY <1>4, <2>1
  <2>4c. PICK block \in Seq(T) : block = chain[c]
    BY <1>1
  <2>4d. PICK k \in Nat, l \in Nat : k = Len(v) /\ l = Len(block)
    OBVIOUS
  <2>4. /\ v = flat[i] /\ w = flat[i + 1] /\ block = chain[c] /\ w = v \o block
        /\ k = Len(v) /\ l = Len(block)
    <3>1. flat[i + 1] = flat[i] \o chain[c]
      BY <1>4, <2>1, <2>3
    <3>. QED
      BY <2>4a, <2>4b, <2>4c, <2>4d, <3>1
  <2>5. /\ Len(w) = k + l
        /\ \A x \in 1..(k + l) : w[x] = IF x <= k THEN v[x] ELSE block[x - k]
    <3>. DEFINE u == v \o block
    <3>1. Len(u) = k + l /\ \A x \in 1..(k + l) : u[x] = IF x <= k THEN v[x] ELSE block[x - k]
      BY <2>4d
    <3>2. w = u
      BY <2>4
    <3>. HIDE DEF u
    <3>. QED
      BY <3>1, <3>2
  <2>6. \A b \in 1..n : n - (i + 1) < b <=> n - i < b \/ b = c
    BY <1>1, <2>1, <2>3
  <2>7. Met(at, v, i)
    BY <2>2, <2>4
  <2>. DEFINE next == [x \in 1..(k + l) |-> IF x <= k THEN at[x] ELSE c]
  <2>8. \A x \in 1..k : at[x] \in 1..n /\ n - i < at[x]
    BY <2>4, <2>7
  <2>9. \A x \in 1..(k + l) : \/ x <= k /\ x \in 1..k /\ next[x] = at[x] /\ w[x] = v[x]
                              \/ ~(x <= k) /\ x - k \in 1..l /\ next[x] = c
                                           /\ w[x] = block[x - k]
    BY <2>5
  <2>10. next \in [1..(k + l) -> {b \in 1..n : n - (i + 1) < b}]
    <3>1. c \in {b \in 1..n : n - (i + 1) < b}
      BY <2>6
    <3>2. \A x \in 1..k : at[x] \in {b \in 1..n : n - (i + 1) < b}
      BY <2>6, <2>8
    <3>3. \A x \in 1..(k + l) : x <= k => x \in 1..k
      OBVIOUS
    <3>. QED
      BY <3>1, <3>2, <3>3
  <2>11. \A x, y \in 1..(k + l) : x < y => next[x] >= next[y]
    <3>. SUFFICES ASSUME NEW x \in 1..(k + l), NEW y \in 1..(k + l), x < y
                  PROVE  next[x] >= next[y]
      OBVIOUS
    <3>. HIDE DEF next
    <3>1. CASE y <= k
      <4>1. x <= k /\ x \in 1..k /\ y \in 1..k /\ next[x] = at[x] /\ next[y] = at[y]
        <5>1. x <= k
          BY <3>1
        <5>. QED
          BY <2>9, <3>1, <5>1
      <4>. QED
        BY <2>4, <2>7, <4>1
    <3>2. CASE ~(y <= k)
      <4>1. next[y] = c
        BY <2>9, <3>2
      <4>2. c \in Int /\ c = n - i
        BY <1>1, <2>1, <2>3
      <4>3. next[x] \in Int /\ (next[x] > n - i \/ next[x] = c)
        <5>1. next[x] = c \/ (x \in 1..k /\ next[x] = at[x])
          BY <2>9
        <5>. QED
          BY <1>1, <2>1, <2>8, <4>2, <5>1
      <4>. QED
        BY <1>1, <2>1, <4>1, <4>2, <4>3
    <3>. QED
      BY <3>1, <3>2
  <2>12. \A x \in 1..(k + l) : w[x] \in ToSet(chain[next[x]])
    <3>. SUFFICES ASSUME NEW x \in 1..(k + l) PROVE w[x] \in ToSet(chain[next[x]])
      OBVIOUS
    <3>. HIDE DEF next
    <3>1. CASE x <= k
      BY <2>4, <2>7, <2>9, <3>1
    <3>2. CASE ~(x <= k)
      <4>1. x - k \in 1..l /\ next[x] = c /\ w[x] = block[x - k]
        BY <2>9, <3>2
      <4>2. DOMAIN block = 1..l
        BY <2>4
      <4>. QED
        BY <2>4, <4>1, <4>2 DEF ToSet
    <3>. QED
      BY <3>1, <3>2
  <2>13. ASSUME NEW b \in 1..n, n - (i + 1) < b, NEW tx \in ToSet(chain[b])
         PROVE  \E x \in 1..(k + l) : next[x] = b /\ w[x] = tx
    <3>1. CASE n - i < b
      <4>1. PICK x \in 1..k : at[x] = b /\ v[x] = tx
        BY <2>4, <2>7, <3>1
      <4>2. x \in 1..(k + l) /\ x <= k
        OBVIOUS
      <4>. HIDE DEF next
      <4>. QED
        BY <2>9, <4>1, <4>2
    <3>2. CASE b = c
      <4>1. PICK j \in 1..l : block[j] = tx
        BY <2>4, <3>2 DEF ToSet
      <4>2. k + j \in 1..(k + l) /\ ~(k + j <= k) /\ (k + j) - k = j
        OBVIOUS
      <4>. HIDE DEF next
      <4>. QED
        BY <2>9, <3>2, <4>1, <4>2
    <3>. QED
      BY <2>6, <2>13, <3>1, <3>2
  <2>14. ASSUME NEW x \in 1..(k + l), NEW y \in 1..(k + l),
                next[x] = next[y], w[x] = w[y], IsInjective(chain[next[x]])
         PROVE  x = y
    <3>. HIDE DEF next
    <3>1. c \in Int /\ c = n - i
      BY <1>1, <2>1, <2>3
    <3>2. \A z \in 1..k : at[z] # c
      BY <1>1, <2>1, <2>8, <3>1
    <3>3. CASE x <= k
      <4>1. x \in 1..k /\ next[x] = at[x] /\ w[x] = v[x]
        BY <2>9, <3>3
      <4>2. y \in 1..k /\ next[y] = at[y] /\ w[y] = v[y]
        BY <2>9, <2>14, <3>2, <4>1
      <4>3. \A p, q \in 1..k :
                at[p] = at[q] /\ v[p] = v[q] /\ IsInjective(chain[at[p]]) => p = q
        BY <2>4, <2>7
      <4>. HIDE DEF Met
      <4>. QED
        BY <2>14, <4>1, <4>2, <4>3
    <3>4. CASE ~(x <= k)
      <4>1. x - k \in 1..l /\ next[x] = c /\ w[x] = block[x - k]
        BY <2>9, <3>4
      <4>2. y - k \in 1..l /\ w[y] = block[y - k]
        BY <2>9, <2>14, <3>2, <4>1
      <4>3. x - k = y - k
        <5>1. DOMAIN block = 1..l /\ IsInjective(block)
          BY <2>4, <2>14, <4>1
        <5>. QED
          BY <2>14, <4>1, <4>2, <5>1 DEF IsInjective
      <4>. QED
        BY <2>4d, <4>3
    <3>. QED
      BY <3>3, <3>4
  <2>15. Met(next, w, i + 1)
    <3>. HIDE DEF next
    <3>1. Len(w) = k + l
      BY <2>5
    <3>2. \A x, y \in 1..(k + l) :
              next[x] = next[y] /\ w[x] = w[y] /\ IsInjective(chain[next[x]]) => x = y
      BY <2>14
    <3>. QED
      BY <2>10, <2>11, <2>12, <2>13, <3>1, <3>2
  <2>. HIDE DEF Met, next
  <2>. QED
    BY <2>1, <2>4, <2>15
<1>7. n \in U
  <2>. HIDE DEF U
  <2>1. 0..n \subseteq U
    BY <1>1, <1>5, <1>6, InductionUpTo
  <2>. QED
    BY <1>1, <2>1
<1>8. PICK at : Met(at, Walk(chain), n)
  <2>. HIDE DEF Met
  <2>. QED
    BY <1>4, <1>7
<1>9. Walk(chain) \in Seq(T) /\ {b \in 1..n : n - n < b} = 1..n /\ \A b \in 1..n : n - n < b
  BY <1>1, <1>4
<1>10. MetAt(at, Walk(chain), chain)
  BY <1>1, <1>8, <1>9 DEF MetAt
<1>. QED
  BY <1>10

\* Walk meets the transactions of the chain and no others.
LEMMA WalkMeetsTheChain ==
    ASSUME NEW chain, IsChain(chain)
    PROVE  /\ Walk(chain) \in Seq(Txs(chain))
           /\ OnChain(chain) = Txs(chain)
<1>1. PICK at : MetAt(at, Walk(chain), chain)
  BY WalkMeets
<1>2. PICK w \in Seq(Txs(chain)) :
        w = Walk(chain) /\ DOMAIN w = 1..Len(w) /\ MetAt(at, w, chain)
  BY <1>1 DEF MetAt
<1>3. ToSet(w) \subseteq Txs(chain)
  BY <1>2 DEF ToSet
<1>4. Txs(chain) \subseteq ToSet(w)
  <2>. SUFFICES ASSUME NEW b \in DOMAIN chain, NEW tx \in ToSet(chain[b])
                PROVE  tx \in ToSet(w)
    BY DEF Txs
  <2>1. PICK x \in 1..Len(w) : w[x] = tx
    BY <1>2 DEF MetAt
  <2>. QED
    BY <1>2, <2>1 DEF ToSet
<1>. QED
  BY <1>2, <1>3, <1>4 DEF OnChain

\* Where no transaction is twice on the chain, none is met twice, ...
LEMMA WalkOnce ==
    ASSUME NEW chain, IsChain(chain), NoRepeats(chain)
    PROVE  IsInjective(Walk(chain))
<1>1. PICK at : MetAt(at, Walk(chain), chain)
  BY WalkMeets
<1>2. PICK w \in Seq(Txs(chain)) :
        w = Walk(chain) /\ DOMAIN w = 1..Len(w) /\ MetAt(at, w, chain)
  BY <1>1 DEF MetAt
<1>3. ASSUME NEW x \in DOMAIN w, NEW y \in DOMAIN w, w[x] = w[y] PROVE x = y
  <2>1. at[x] \in DOMAIN chain /\ at[y] \in DOMAIN chain
    BY <1>2 DEF MetAt
  <2>2. w[x] \in ToSet(chain[at[x]]) /\ w[x] \in ToSet(chain[at[y]])
    BY <1>2, <1>3 DEF MetAt
  <2>3. at[x] = at[y] /\ IsInjective(chain[at[x]])
    BY <2>1, <2>2 DEF NoRepeats
  <2>. QED
    BY <1>2, <1>3, <2>3 DEF MetAt
<1>. QED
  BY <1>2, <1>3 DEF IsInjective

\* ... and one is met after all that spend outputs of it.
LEMMA SpendersFirst ==
    ASSUME NEW chain, IsChain(chain), IsInjective(Walk(chain)),
           NEW x \in DOMAIN Walk(chain), NEW y \in DOMAIN Walk(chain),
           NEW p \in ToSet(Walk(chain)[x].ins), p.tx = Walk(chain)[y]
    PROVE  x < y
<1>1. PICK at : MetAt(at, Walk(chain), chain)
  BY WalkMeets
<1>2. PICK w \in Seq(Txs(chain)) :
        /\ w = Walk(chain) /\ DOMAIN w = 1..Len(w) /\ MetAt(at, w, chain)
        /\ Len(w) \in Nat
  BY <1>1 DEF MetAt
<1>3. DOMAIN chain = 1..Len(chain) /\ Len(chain) \in Nat
  BY ChainOfTxs
<1>4. at[x] \in DOMAIN chain /\ w[x] \in ToSet(chain[at[x]])
  BY <1>2 DEF MetAt
<1>5. PICK d \in 1..(at[x] - 1) : p.tx \in ToSet(chain[d])
  BY <1>2, <1>4 DEF IsChain
<1>6. d \in DOMAIN chain /\ d < at[x]
  BY <1>3, <1>4
<1>7. PICK z \in 1..Len(w) : at[z] = d /\ w[z] = p.tx
  BY <1>2, <1>5, <1>6 DEF MetAt
<1>8. z = y
  BY <1>2, <1>7 DEF IsInjective
<1>9. x \in 1..Len(w) /\ y \in 1..Len(w) /\ at[y] < at[x]
  BY <1>2, <1>6, <1>7, <1>8
<1>10. y < x => at[y] >= at[x]
  BY <1>2, <1>9 DEF MetAt
<1>. QED
  BY <1>2, <1>3, <1>4, <1>6, <1>7, <1>8, <1>9, <1>10

--------------------------------------------------------------------------
(* What FindUTXO finds. *)

\* The types of its two maps, for the transactions of a chain.
Outs(chain) == UNION {ToSet(tx.outs) : tx \in Txs(chain)}
Ins(chain) == UNION {ToSet(tx.ins) : tx \in Txs(chain)}
Utxos(chain) == UNION {[D -> Seq(Outs(chain))] : D \in SUBSET Txs(chain)}
Maps(chain) == [utxo : Utxos(chain), spent : SUBSET Ins(chain)]

LEMMA ListsOfTx ==
    ASSUME NEW chain, IsChain(chain), NEW tx \in Txs(chain)
    PROVE  /\ tx.outs \in Seq(Outs(chain)) /\ tx.outs # <<>>
           /\ tx.ins \in Seq(Ins(chain))
<1>1. /\ tx.outs \in Seq(ToSet(tx.outs)) /\ tx.outs # <<>>
      /\ tx.ins \in Seq(ToSet(tx.ins))
  BY DEF Txs, IsChain
<1>2. ToSet(tx.outs) \subseteq Outs(chain) /\ ToSet(tx.ins) \subseteq Ins(chain)
  BY DEF Outs, Ins
<1>3. PICK outs \in Seq(ToSet(tx.outs)), ins \in Seq(ToSet(tx.ins)) :
        outs = tx.outs /\ ins = tx.ins
  BY <1>1
<1>. QED
  BY <1>1, <1>2, <1>3

LEMMA UtxosType ==
    ASSUME NEW chain, NEW f
    PROVE  f \in Utxos(chain) <=> /\ f = [t \in DOMAIN f |-> f[t]]
                                  /\ DOMAIN f \subseteq Txs(chain)
                                  /\ \A t \in DOMAIN f : f[t] \in Seq(Outs(chain))
BY DEF Utxos

\* The positions that a step of FindUTXO keeps, given what it has met.
Kept(tx, spent) == {k \in DOMAIN tx.outs : Outpoint(tx, k) \notin spent}

\* What one step does, beside keeping the types.
Visited(next, acc, tx) ==
    /\ next.spent = acc.spent \cup ToSet(tx.ins)
    /\ DOMAIN next.utxo
         = DOMAIN acc.utxo \cup (IF Kept(tx, acc.spent) = {} THEN {} ELSE {tx})
    /\ \A t \in DOMAIN acc.utxo : ToSet(acc.utxo[t]) \subseteq ToSet(next.utxo[t])
    /\ \A t \in DOMAIN acc.utxo \ {tx} : next.utxo[t] = acc.utxo[t]
    /\ \A k \in Kept(tx, acc.spent) : tx.outs[k] \in ToSet(next.utxo[tx])
    /\ tx \notin DOMAIN acc.utxo /\ Kept(tx, acc.spent) # {}
         => next.utxo[tx] = Chosen(tx.outs, Kept(tx, acc.spent))

\* The elements of two lists one after the other.
LEMMA ConcatElements ==
    ASSUME NEW S, NEW s \in Seq(S), NEW t \in Seq(S)
    PROVE  /\ s \o t \in Seq(S)
           /\ ToSet(s) \subseteq ToSet(s \o t)
           /\ ToSet(t) \subseteq ToSet(s \o t)
<1>. DEFINE u == s \o t
<1>1. PICK k \in Nat, l \in Nat :
        /\ k = Len(s) /\ l = Len(t) /\ DOMAIN s = 1..k /\ DOMAIN t = 1..l
        /\ DOMAIN u = 1..(k + l)
        /\ \A x \in 1..(k + l) : u[x] = IF x <= k THEN s[x] ELSE t[x - k]
  <2>1. PICK k \in Nat, l \in Nat : k = Len(s) /\ l = Len(t)
    OBVIOUS
  <2>2. DOMAIN s = 1..k /\ DOMAIN t = 1..l /\ DOMAIN u = 1..(k + l)
    BY <2>1
  <2>3. \A x \in 1..(k + l) : u[x] = IF x <= k THEN s[x] ELSE t[x - k]
    BY <2>1
  <2>. HIDE DEF u
  <2>. QED
    BY <2>1, <2>2, <2>3
<1>2. u \in Seq(S)
  OBVIOUS
<1>. HIDE DEF u
<1>3. ASSUME NEW i \in 1..k PROVE i \in DOMAIN u /\ u[i] = s[i]
  BY <1>1
<1>4. ASSUME NEW i \in 1..l PROVE i + k \in DOMAIN u /\ u[i + k] = t[i]
  <2>1. i + k \in 1..(k + l) /\ ~(i + k <= k) /\ (i + k) - k = i
    OBVIOUS
  <2>. QED
    BY <1>1, <2>1
<1>5. ToSet(s) \subseteq ToSet(u) /\ ToSet(t) \subseteq ToSet(u)
  <2>1. \A i \in DOMAIN s : \E j \in DOMAIN u : u[j] = s[i]
    BY <1>1, <1>3
  <2>2. \A i \in DOMAIN t : \E j \in DOMAIN u : u[j] = t[i]
    BY <1>1, <1>4
  <2>. QED
    BY <2>1, <2>2 DEF ToSet
<1>. QED
  BY <1>2, <1>5 DEF u

LEMMA VisitStep ==
    ASSUME NEW chain, IsChain(chain), NEW acc \in Maps(chain), NEW tx \in Txs(chain)
    PROVE  Visit(acc, tx) \in Maps(chain) /\ Visited(Visit(acc, tx), acc, tx)
<1>. DEFINE next == Visit(acc, tx)
            O == Outs(chain)
            u == acc.utxo
<1>1. /\ u = [t \in DOMAIN u |-> u[t]] /\ DOMAIN u \subseteq Txs(chain)
      /\ \A t \in DOMAIN u : u[t] \in Seq(O)
      /\ acc.spent \subseteq Ins(chain)
  <2>1. u \in Utxos(chain) /\ acc.spent \subseteq Ins(chain)
    BY DEF Maps
  <2>. QED
    BY <2>1, UtxosType
<1>2. tx.outs \in Seq(O)
  <2>1. tx.outs \in Seq(ToSet(tx.outs))
    BY DEF IsChain, Txs
  <2>2. ToSet(tx.outs) \subseteq O
    BY DEF Outs
  <2>. QED
    BY <2>1, <2>2
<1>3. PICK ks : ks = Kept(tx, acc.spent) /\ ks \in SUBSET DOMAIN tx.outs
  BY DEF Kept
<1>4. PICK outs \in Seq(O) : outs = Chosen(tx.outs, ks) /\ ToSet(outs) = {tx.outs[k] : k \in ks}
  BY <1>2, <1>3, ChosenHolds, ChosenElements
<1>5. outs = <<>> <=> ks = {}
  <2>1. outs = <<>> => ToSet(outs) = {}
    BY DEF ToSet
  <2>2. outs # <<>> => 1 \in DOMAIN outs
    OBVIOUS
  <2>. QED
    BY <1>4, <2>1, <2>2 DEF ToSet
<1>6. PICK before \in Seq(O) : before = IF tx \in DOMAIN u THEN u[tx] ELSE <<>>
  <2>1. <<>> \in Seq(O)
    OBVIOUS
  <2>. QED
    BY <1>1, <2>1
<1>7. next = [utxo  |-> [t \in DOMAIN u \cup (IF outs = <<>> THEN {} ELSE {tx})
                           |-> IF t = tx THEN before \o outs ELSE u[t]],
              spent |-> acc.spent \cup ToSet(tx.ins)]
  BY <1>3, <1>4, <1>6 DEF Visit, Kept
<1>8. PICK both \in Seq(O) :
        /\ both = before \o outs
        /\ ToSet(before) \subseteq ToSet(both) /\ ToSet(outs) \subseteq ToSet(both)
  BY ConcatElements
<1>9. /\ next.spent = acc.spent \cup ToSet(tx.ins)
      /\ next.utxo = [t \in DOMAIN next.utxo |-> next.utxo[t]]
      /\ DOMAIN next.utxo = DOMAIN u \cup (IF ks = {} THEN {} ELSE {tx})
      /\ \A t \in DOMAIN next.utxo : next.utxo[t] = IF t = tx THEN both ELSE u[t]
      /\ next = [utxo |-> next.utxo, spent |-> next.spent]
  BY <1>5, <1>7, <1>8
<1>. HIDE DEF next
<1>10. next \in Maps(chain)
  <2>1. next.utxo \in Utxos(chain)
    <3>1. \A t \in DOMAIN next.utxo : next.utxo[t] \in Seq(O)
      BY <1>1, <1>9
    <3>. QED
      BY <1>1, <1>9, <3>1, UtxosType
  <2>2. next.spent \subseteq Ins(chain)
    BY <1>1, <1>9 DEF Ins
  <2>. QED
    BY <1>9, <2>1, <2>2 DEF Maps
<1>11. \A t \in DOMAIN u : ToSet(u[t]) \subseteq ToSet(next.utxo[t])
  BY <1>6, <1>8, <1>9
<1>12. \A k \in ks : tx.outs[k] \in ToSet(next.utxo[tx])
  <2>1. \A k \in ks : tx.outs[k] \in ToSet(both)
    BY <1>4, <1>8
  <2>. QED
    BY <1>9, <2>1
<1>13. tx \notin DOMAIN u /\ ks # {} => next.utxo[tx] = outs
  <2>1. tx \notin DOMAIN u => both = outs
    BY <1>6, <1>8
  <2>. QED
    BY <1>9, <2>1
<1>14. Visited(next, acc, tx)
  BY <1>3, <1>4, <1>9, <1>11, <1>12, <1>13 DEF Visited
<1>. QED
  BY <1>10, <1>14 DEF next

\* The maps after each step of FindUTXO.
Finding(met, chain) ==
    /\ met \in [0..Len(Walk(chain)) -> Maps(chain)]
    /\ met[0] = NothingMet
    /\ \A i \in 1..Len(Walk(chain)) : Visited(met[i], met[i - 1], Walk(chain)[i])
    /\ FindUTXO(chain) = met[Len(Walk(chain))].utxo

LEMMA FindLoop ==
    ASSUME NEW chain, IsChain(chain)
    PROVE  \E met : Finding(met, chain)
<1>0. PICK w \in Seq(Txs(chain)) : w = Walk(chain)
  BY WalkMeetsTheChain
<1>1. PICK n \in Nat : /\ w = Walk(chain) /\ n = Len(w)
                       /\ \A i \in 1..n : w[i] \in Txs(chain)
  BY <1>0
<1>2. PICK A, e : A = Maps(chain) /\ e = NothingMet /\ e \in A
  <2>1. NothingMet \in Maps(chain)
    <3>1. NothingMet.utxo \in Utxos(chain)
      BY UtxosType DEF NothingMet
    <3>. QED
      BY <3>1 DEF NothingMet, Maps
  <2>. QED
    BY <2>1
<1>. DEFINE Pass(s, i) == IF i \in 1..n THEN Visit(s, w[i]) ELSE s
<1>3. \A s \in A, i \in Nat : Pass(s, i) \in A
  BY <1>1, <1>2, VisitStep
<1>4. PICK g \in [A \X Nat -> A] : \A s \in A, i \in Nat : g[<<s, i>>] = Pass(s, i)
  <2>. DEFINE h == [p \in A \X Nat |-> Pass(p[1], p[2])]
  <2>1. h \in [A \X Nat -> A] /\ \A s \in A, i \in Nat : h[<<s, i>>] = Pass(s, i)
    <3>. HIDE DEF Pass
    <3>. QED
      BY <1>3
  <2>. QED
    BY <2>1
<1>5. PICK r : IsRun(r, n, A, e, g)
  BY <1>2, Iteration
<1>6. /\ r \in [0..n -> A]
      /\ r[0] = e /\ \A i \in 1..n : r[i] = g[<<r[i - 1], i>>]
  BY <1>5 DEF IsRun
<1>. DEFINE Steps(h) == [i \in 0..n |-> IF i = 0 THEN NothingMet ELSE Visit(h[i - 1], w[i])]
            met == CHOOSE h : h = Steps(h)
<1>7. r = Steps(r)
  <2>1. ASSUME NEW i \in 0..n, i # 0 PROVE r[i] = Visit(r[i - 1], w[i])
    <3>1. i \in 1..n /\ i \in Nat /\ i - 1 \in 0..n
      BY <1>1, <2>1
    <3>2. r[i] = Pass(r[i - 1], i)
      <4>1. r[i - 1] \in A
        BY <1>6, <3>1
      <4>. HIDE DEF Pass
      <4>. QED
        BY <1>4, <1>6, <3>1, <4>1
    <3>. QED
      BY <3>1, <3>2
  <2>2. \A i \in 0..n : r[i] = IF i = 0 THEN NothingMet ELSE Visit(r[i - 1], w[i])
    BY <1>2, <1>6, <2>1
  <2>3. r = [i \in 0..n |-> r[i]]
    BY <1>6
  <2>. HIDE DEF Pass
  <2>. QED
    BY <2>2, <2>3
<1>8. met = Steps(met)
  <2>. HIDE DEF Steps
  <2>. QED
    BY <1>7
<1>9. FindUTXO(chain) = met[n].utxo
  BY <1>1 DEF FindUTXO
<1>. HIDE DEF met
<1>10. /\ met[0] = NothingMet
       /\ \A i \in 1..n : met[i] = Visit(met[i - 1], w[i])
       /\ met = [i \in 0..n |-> met[i]]
  <2>1. 0 \in 0..n /\ \A i \in 1..n : i \in 0..n /\ i # 0
    BY <1>1
  <2>. QED
    BY <1>8, <2>1
<1>11. ASSUME NEW i \in 1..n, met[i - 1] \in A
       PROVE  met[i] = g[<<met[i - 1], i>>]
  <2>1. i \in Nat /\ g[<<met[i - 1], i>>] = Pass(met[i - 1], i)
    <3>1. i \in Nat
      BY <1>1
    <3>. HIDE DEF Pass
    <3>. QED
      BY <1>4, <1>11, <3>1
  <2>2. met[i] = Visit(met[i - 1], w[i])
    BY <1>10
  <2>. QED
    BY <2>1, <2>2
<1>12. met \in [0..n -> A]
  <2>1. IsRun(met, n, A, e, g)
    <3>. HIDE DEF Steps
    <3>. QED
      BY <1>2, <1>10, <1>11, LoopIsRun
  <2>. QED
    BY <2>1 DEF IsRun
<1>13. \A i \in 1..n : Visited(met[i], met[i - 1], w[i])
  <2>. SUFFICES ASSUME NEW i \in 1..n PROVE Visited(met[i], met[i - 1], w[i])
    OBVIOUS
  <2>1. i - 1 \in 0..n
    BY <1>1
  <2>2. met[i - 1] \in Maps(chain) /\ w[i] \in Txs(chain)
    BY <1>1, <1>2, <1>12, <2>1
  <2>. QED
    BY <1>10, <2>2, VisitStep
<1>. HIDE DEF Steps, Pass
<1>. QED
  BY <1>1, <1>2, <1>9, <1>10, <1>12, <1>13 DEF Finding

\* What the inputs met in the first i steps spend.
SpentBy(w, i) == UNION {ToSet(w[j].ins) : j \in 1..i}

\* After i steps there is an entry for each transaction met that had an output
\* to keep.  It has these outputs, and only these if the transaction is met once.
FoundSoFar(acc, w, i) ==
    /\ acc.spent = SpentBy(w, i)
    /\ DOMAIN acc.utxo = {w[j] : j \in {j \in 1..i : Kept(w[j], SpentBy(w, j - 1)) # {}}}
    /\ \A j \in 1..i : \A k \in Kept(w[j], SpentBy(w, j - 1)) :
          w[j].outs[k] \in ToSet(acc.utxo[w[j]])
    /\ IsInjective(w) =>
          \A j \in 1..i :
             Kept(w[j], SpentBy(w, j - 1)) # {} =>
                acc.utxo[w[j]] = Chosen(w[j].outs, Kept(w[j], SpentBy(w, j - 1)))

LEMMA FindUTXOFinds ==
    ASSUME NEW chain, IsChain(chain)
    PROVE  \E acc \in Maps(chain) : /\ FindUTXO(chain) = acc.utxo
                                    /\ FoundSoFar(acc, Walk(chain), Len(Walk(chain)))
<1>0. PICK w \in Seq(Txs(chain)) : w = Walk(chain)
  BY WalkMeetsTheChain
<1>1. PICK n \in Nat : /\ w = Walk(chain) /\ n = Len(w) /\ DOMAIN w = 1..n
                       /\ \A i \in 1..n : w[i] \in Txs(chain)
  BY <1>0
<1>2. PICK met : Finding(met, chain)
  BY FindLoop
<1>3. /\ met \in [0..n -> Maps(chain)] /\ met[0] = NothingMet
      /\ \A i \in 1..n : Visited(met[i], met[i - 1], w[i])
      /\ FindUTXO(chain) = met[n].utxo
  BY <1>1, <1>2 DEF Finding
<1>. DEFINE T == {i \in 0..n : FoundSoFar(met[i], w, i)}
<1>4. 0 \in T
  <2>1. met[0].spent = {} /\ DOMAIN met[0].utxo = {}
    BY <1>3 DEF NothingMet
  <2>2. 1..0 = {}
    OBVIOUS
  <2>3. SpentBy(w, 0) = {}
    BY <2>2 DEF SpentBy
  <2>4. FoundSoFar(met[0], w, 0)
    BY <2>1, <2>2, <2>3 DEF FoundSoFar
  <2>. QED
    BY <1>1, <2>4
<1>5. ASSUME NEW i \in 0..(n - 1), i \in T PROVE i + 1 \in T
  <2>1. i + 1 \in 1..n /\ (i + 1) - 1 = i /\ i \in 0..n /\ i + 1 \in 0..n /\ i \in Nat
    BY <1>1
  <2>2. FoundSoFar(met[i], w, i) /\ Visited(met[i + 1], met[i], w[i + 1])
    BY <1>3, <1>5, <2>1
  <2>3. PICK acc, next, tx, m : acc = met[i] /\ next = met[i + 1] /\ tx = w[i + 1] /\ m = i + 1
    OBVIOUS
  <2>4. PICK had : had = [j \in 1..n |-> Kept(w[j], SpentBy(w, j - 1))]
    OBVIOUS
  <2>5. \A j \in 1..m : (j \in 1..i /\ j # m) \/ (j = m /\ w[j] = tx)
    BY <2>1, <2>3
  <2>6. m \in 1..m /\ m \in 1..n /\ w[m] = tx /\ \A j \in 1..i : j \in 1..m /\ j \in 1..n /\ j # m
    BY <1>1, <2>1, <2>3
  <2>7. SpentBy(w, m) = SpentBy(w, i) \cup ToSet(tx.ins)
    <3>. SUFFICES ASSUME NEW p
                  PROVE  p \in SpentBy(w, m) <=> p \in SpentBy(w, i) \cup ToSet(tx.ins)
      OBVIOUS
    <3>1. p \in SpentBy(w, m) <=> \E j \in 1..m : p \in ToSet(w[j].ins)
      BY DEF SpentBy
    <3>2. p \in SpentBy(w, i) <=> \E j \in 1..i : p \in ToSet(w[j].ins)
      BY DEF SpentBy
    <3>. QED
      BY <2>5, <2>6, <3>1, <3>2
  <2>8. /\ acc.spent = SpentBy(w, i)
        /\ DOMAIN acc.utxo = {w[j] : j \in {j \in 1..i : had[j] # {}}}
        /\ \A j \in 1..i : \A k \in had[j] : w[j].outs[k] \in ToSet(acc.utxo[w[j]])
        /\ IsInjective(w) =>
             \A j \in 1..i : had[j] # {} => acc.utxo[w[j]] = Chosen(w[j].outs, had[j])
    BY <2>2, <2>3, <2>4, <2>6 DEF FoundSoFar
  <2>9. had[m] = Kept(tx, acc.spent)
    BY <2>1, <2>3, <2>4, <2>6, <2>8
  <2>10. /\ next.spent = acc.spent \cup ToSet(tx.ins)
         /\ DOMAIN next.utxo = DOMAIN acc.utxo \cup (IF had[m] = {} THEN {} ELSE {tx})
         /\ \A t \in DOMAIN acc.utxo : ToSet(acc.utxo[t]) \subseteq ToSet(next.utxo[t])
         /\ \A t \in DOMAIN acc.utxo \ {tx} : next.utxo[t] = acc.utxo[t]
         /\ \A k \in had[m] : tx.outs[k] \in ToSet(next.utxo[tx])
         /\ tx \notin DOMAIN acc.utxo /\ had[m] # {}
              => next.utxo[tx] = Chosen(tx.outs, had[m])
    BY <2>2, <2>3, <2>9 DEF Visited
  <2>11. next.spent = SpentBy(w, m)
    BY <2>7, <2>8, <2>10
  <2>12. DOMAIN next.utxo = {w[j] : j \in {j \in 1..m : had[j] # {}}}
    BY <2>5, <2>6, <2>8, <2>10
  <2>13. \A j \in 1..m : \A k \in had[j] : w[j].outs[k] \in ToSet(next.utxo[w[j]])
    <3>. SUFFICES ASSUME NEW j \in 1..m, NEW k \in had[j]
                  PROVE  w[j].outs[k] \in ToSet(next.utxo[w[j]])
      OBVIOUS
    <3>1. CASE j = m
      BY <2>6, <2>10, <3>1
    <3>2. CASE j \in 1..i
      <4>1. w[j] \in DOMAIN acc.utxo
        BY <2>8, <3>2
      <4>. QED
        BY <2>8, <2>10, <3>2, <4>1
    <3>. QED
      BY <2>5, <3>1, <3>2
  <2>14. ASSUME IsInjective(w), NEW j \in 1..m, had[j] # {}
         PROVE  next.utxo[w[j]] = Chosen(w[j].outs, had[j])
    <3>1. \A l \in 1..i : w[l] # tx
      BY <1>1, <2>6, <2>14 DEF IsInjective
    <3>2. CASE j = m
      BY <2>6, <2>8, <2>10, <2>14, <3>1, <3>2
    <3>3. CASE j \in 1..i
      <4>1. w[j] \in DOMAIN acc.utxo \ {tx}
        BY <2>8, <2>14, <3>1, <3>3
      <4>. QED
        BY <2>8, <2>10, <2>14, <3>3, <4>1
    <3>. QED
      BY <2>5, <3>2, <3>3
  <2>15. \A j \in 1..m : had[j] = Kept(w[j], SpentBy(w, j - 1))
    BY <2>4, <2>5, <2>6
  <2>16. FoundSoFar(next, w, m)
    BY <2>11, <2>12, <2>13, <2>14, <2>15 DEF FoundSoFar
  <2>. QED
    BY <2>1, <2>3, <2>16
<1>6. n \in T
  <2>. HIDE DEF T
  <2>1. 0..n \subseteq T
    BY <1>1, <1>4, <1>5, InductionUpTo
  <2>. QED
    BY <1>1, <2>1
<1>. QED
  BY <1>1, <1>3, <1>6

\* The positions of the outputs of tx that are unspent.
Open(tx, chain) == {k \in DOMAIN tx.outs : Outpoint(tx, k) \in Unspent(chain)}

\* FindUTXO misses no unspent output of a chain, and where no transaction is on the
\* chain twice it finds exactly these, in the order of their transactions.
LEMMA FindUTXOIsRight ==
    ASSUME NEW chain, IsChain(chain)
    PROVE  /\ FindUTXO(chain) \in Utxos(chain)
           /\ \A p \in Unspent(chain) :
                /\ p.tx \in DOMAIN FindUTXO(chain)
                /\ p.tx.outs[p.out] \in ToSet(FindUTXO(chain)[p.tx])
           /\ NoRepeats(chain) =>
                /\ DOMAIN FindUTXO(chain) = {p.tx : p \in Unspent(chain)}
                /\ \A tx \in DOMAIN FindUTXO(chain) :
                     FindUTXO(chain)[tx] = Chosen(tx.outs, Open(tx, chain))
<1>1. PICK acc \in Maps(chain) : /\ FindUTXO(chain) = acc.utxo
                                 /\ FoundSoFar(acc, Walk(chain), Len(Walk(chain)))
  BY FindUTXOFinds
<1>2. PICK w \in Seq(Txs(chain)) : w = Walk(chain)
  BY WalkMeetsTheChain
<1>3. PICK n \in Nat : n = Len(w) /\ DOMAIN w = 1..n
  BY <1>2
<1>4. OnChain(chain) = {w[j] : j \in 1..n}
  BY <1>2, <1>3 DEF OnChain, ToSet
<1>5. PICK had : had = [j \in 1..n |-> Kept(w[j], SpentBy(w, j - 1))]
  OBVIOUS
<1>6. PICK u : u = FindUTXO(chain) /\ u \in Utxos(chain)
  BY <1>1 DEF Maps
<1>7. /\ DOMAIN u = {w[j] : j \in {j \in 1..n : had[j] # {}}}
      /\ \A j \in 1..n : \A k \in had[j] : w[j].outs[k] \in ToSet(u[w[j]])
      /\ IsInjective(w) =>
           \A j \in 1..n : had[j] # {} => u[w[j]] = Chosen(w[j].outs, had[j])
  BY <1>1, <1>2, <1>3, <1>5, <1>6 DEF FoundSoFar
<1>8. \A j \in 1..n : \A k : k \in had[j] <=>
        /\ k \in DOMAIN w[j].outs
        /\ \A x \in 1..(j - 1) : Outpoint(w[j], k) \notin ToSet(w[x].ins)
  BY <1>5 DEF Kept, SpentBy
<1>9. \A j \in 1..n : \A k : Outpoint(w[j], k) \in Unspent(chain) <=>
        /\ k \in DOMAIN w[j].outs
        /\ \A x \in 1..n : Outpoint(w[j], k) \notin ToSet(w[x].ins)
  <2>. SUFFICES ASSUME NEW j \in 1..n, NEW k
                PROVE  Outpoint(w[j], k) \in Unspent(chain) <=>
                         /\ k \in DOMAIN w[j].outs
                         /\ \A x \in 1..n : Outpoint(w[j], k) \notin ToSet(w[x].ins)
    OBVIOUS
  <2>1. Outpoint(w[j], k) \in UNION {{Outpoint(tx, m) : m \in DOMAIN tx.outs}
                                      : tx \in OnChain(chain)}
          <=> k \in DOMAIN w[j].outs
    <3>. DEFINE U == UNION {{Outpoint(tx, m) : m \in DOMAIN tx.outs} : tx \in OnChain(chain)}
    <3>1. \A p : p \in U <=> \E tx \in OnChain(chain) : \E m \in DOMAIN tx.outs :
                                p = Outpoint(tx, m)
      OBVIOUS
    <3>2. \A tx, m : Outpoint(tx, m) = Outpoint(w[j], k) => tx = w[j] /\ m = k
      BY DEF Outpoint
    <3>3. w[j] \in OnChain(chain)
      BY <1>4
    <3>. HIDE DEF U
    <3>4. Outpoint(w[j], k) \in U <=> k \in DOMAIN w[j].outs
      BY <3>1, <3>2, <3>3
    <3>. QED
      BY <3>4 DEF U
  <2>2. (\A tx \in OnChain(chain) : Outpoint(w[j], k) \notin ToSet(tx.ins))
          <=> \A x \in 1..n : Outpoint(w[j], k) \notin ToSet(w[x].ins)
    BY <1>4
  <2>. QED
    BY <2>1, <2>2 DEF Unspent
<1>10. \A p \in Unspent(chain) : \E j \in 1..n : \E k \in DOMAIN w[j].outs : p = Outpoint(w[j], k)
  BY <1>4 DEF Unspent
<1>11. \A j \in 1..n : \A x \in 1..(j - 1) : x \in 1..n
  BY <1>3
<1>12. ASSUME NEW p \in Unspent(chain)
       PROVE  p.tx \in DOMAIN u /\ p.tx.outs[p.out] \in ToSet(u[p.tx])
  <2>0. PICK j \in 1..n : \E k \in DOMAIN w[j].outs : p = Outpoint(w[j], k)
    BY <1>10
  <2>1. PICK k \in DOMAIN w[j].outs : p = Outpoint(w[j], k)
    BY <2>0
  <2>2. k \in had[j] /\ p.tx = w[j] /\ p.out = k
    <3>1. p.tx = w[j] /\ p.out = k
      BY <2>1 DEF Outpoint
    <3>. QED
      BY <1>8, <1>9, <1>11, <2>1, <3>1
  <2>. QED
    BY <1>7, <2>2
<1>13. ASSUME NoRepeats(chain)
       PROVE  /\ DOMAIN u = {p.tx : p \in Unspent(chain)}
              /\ \A tx \in DOMAIN u : u[tx] = Chosen(tx.outs, Open(tx, chain))
  <2>w. IsInjective(w)
    BY <1>2, <1>13, WalkOnce
  <2>1. ASSUME NEW j \in 1..n, NEW k
        PROVE  k \in had[j] <=> Outpoint(w[j], k) \in Unspent(chain)
    <3>1. ASSUME NEW x \in 1..n, Outpoint(w[j], k) \in ToSet(w[x].ins)
          PROVE  x \in 1..(j - 1)
      <4>1. Outpoint(w[j], k).tx = w[j]
        BY DEF Outpoint
      <4>2. x < j
        BY <1>2, <1>3, <2>w, <3>1, <4>1, SpendersFirst
      <4>. QED
        BY <1>3, <4>2
    <3>. QED
      BY <1>8, <1>9, <1>11, <3>1
  <2>2. \A j \in 1..n :
          had[j] = {k \in DOMAIN w[j].outs : Outpoint(w[j], k) \in Unspent(chain)}
    BY <1>8, <2>1
  <2>3. {p.tx : p \in Unspent(chain)} \subseteq DOMAIN u
    BY <1>12
  <2>4. ASSUME NEW j \in 1..n, had[j] # {}
        PROVE  /\ w[j] \in {p.tx : p \in Unspent(chain)}
               /\ u[w[j]] = Chosen(w[j].outs, had[j])
    <3>1. PICK k \in had[j] : TRUE
      BY <2>4
    <3>2. Outpoint(w[j], k) \in Unspent(chain) /\ Outpoint(w[j], k).tx = w[j]
      BY <2>1 DEF Outpoint
    <3>3. u[w[j]] = Chosen(w[j].outs, had[j])
      BY <1>7, <2>w, <2>4
    <3>. QED
      BY <3>2, <3>3
  <2>5. \A tx \in DOMAIN u : \E j \in 1..n : tx = w[j] /\ had[j] # {}
    BY <1>7
  <2>6. ASSUME NEW tx \in DOMAIN u
        PROVE  /\ tx \in {p.tx : p \in Unspent(chain)}
               /\ u[tx] = Chosen(tx.outs, Open(tx, chain))
    <3>1. PICK j \in 1..n : tx = w[j] /\ had[j] # {}
      BY <2>5
    <3>2. had[j] = Open(tx, chain)
      BY <2>2, <3>1 DEF Open
    <3>. QED
      BY <2>4, <3>1, <3>2
  <2>. QED
    BY <2>3, <2>6
<1>. QED
  BY <1>2, <1>6, <1>12, <1>13

--------------------------------------------------------------------------
(* The chain below the tips that a node has in the course of time. *)

LEMMA PrefixIsChain ==
    ASSUME NEW chain, IsChain(chain), NEW k \in 0..Len(chain)
    PROVE  /\ IsChain(SubSeq(chain, 1, k))
           /\ DOMAIN SubSeq(chain, 1, k) = 1..k
           /\ \A b \in 1..k : SubSeq(chain, 1, k)[b] = chain[b]
           /\ 1..k \subseteq DOMAIN chain
<1>1. PICK n \in Nat : n = Len(chain) /\ DOMAIN chain = 1..n /\ k \in 0..n /\ k \in Nat
  BY ChainOfTxs
<1>2. PICK T : chain \in Seq(T)
  BY DEF IsChain
<1>3. PICK s \in Seq(T) : /\ s = SubSeq(chain, 1, k) /\ Len(s) = k /\ DOMAIN s = 1..k
                          /\ \A b \in 1..k : s[b] = chain[b]
  <2>. DEFINE u == SubSeq(chain, 1, k)
  <2>1. u \in Seq(T) /\ Len(u) = k /\ \A b \in 1..k : u[b] = chain[b]
    BY <1>1, <1>2
  <2>. HIDE DEF u
  <2>2. DOMAIN u = 1..k
    BY <2>1
  <2>. QED
    BY <2>1, <2>2 DEF u
<1>4. \A b \in 1..k : b \in 1..n /\ \A d \in 1..(b - 1) : d \in 1..k
  BY <1>1
<1>5. s \in Seq(ToSet(s))
  <2>1. \A b \in 1..Len(s) : s[b] \in ToSet(s)
    BY <1>3 DEF ToSet
  <2>. QED
    BY <1>3, <2>1
<1>6. IsChain(s)
  <2>. SUFFICES ASSUME NEW b \in 1..k
                PROVE  /\ s[b] \in Seq(ToSet(s[b]))
                       /\ \A tx \in ToSet(s[b]) :
                            /\ tx.ins \in Seq(ToSet(tx.ins))
                            /\ tx.outs \in Seq(ToSet(tx.outs)) /\ tx.outs # <<>>
                            /\ \A p \in ToSet(tx.ins) :
                                 /\ p = Outpoint(p.tx, p.out)
                                 /\ \E d \in 1..(b - 1) : p.tx \in ToSet(s[d])
    BY <1>3, <1>5 DEF IsChain
  <2>1. b \in DOMAIN chain /\ s[b] = chain[b]
    BY <1>1, <1>3, <1>4
  <2>2. \A tx \in ToSet(s[b]) : \A p \in ToSet(tx.ins) :
           \E d \in 1..(b - 1) : p.tx \in ToSet(s[d])
    BY <1>3, <1>4, <2>1 DEF IsChain
  <2>. QED
    BY <2>1, <2>2 DEF IsChain
<1>. QED
  BY <1>1, <1>3, <1>4, <1>6

\* A longer chain has all transactions of a shorter one.
LEMMA PrefixHasLess ==
    ASSUME NEW chain, IsChain(chain), NEW m \in 0..Len(chain), NEW k \in 0..m
    PROVE  /\ IsChain(SubSeq(chain, 1, k))
           /\ Txs(SubSeq(chain, 1, k)) \subseteq Txs(SubSeq(chain, 1, m))
           /\ Txs(SubSeq(chain, 1, k)) \subseteq Txs(chain)
<1>1. k \in 0..Len(chain) /\ 1..k \subseteq 1..m
  BY ChainOfTxs
<1>2. PICK s, t : s = SubSeq(chain, 1, k) /\ t = SubSeq(chain, 1, m)
  OBVIOUS
<1>3. /\ IsChain(s) /\ DOMAIN s = 1..k /\ \A b \in 1..k : s[b] = chain[b]
      /\ 1..k \subseteq DOMAIN chain
  BY <1>1, <1>2, PrefixIsChain
<1>4. DOMAIN t = 1..m /\ \A b \in 1..m : t[b] = chain[b]
  BY <1>2, PrefixIsChain
<1>. QED
  BY <1>1, <1>2, <1>3, <1>4 DEF Txs

\* A shorter chain repeats no transaction that a longer one does not repeat.
LEMMA PrefixNoRepeats ==
    ASSUME NEW chain, IsChain(chain), NEW m \in 0..Len(chain), NEW k \in 0..m,
           NoRepeats(SubSeq(chain, 1, m))
    PROVE  NoRepeats(SubSeq(chain, 1, k))
<1>1. k \in 0..Len(chain) /\ 1..k \subseteq 1..m
  BY ChainOfTxs
<1>2. PICK s, t : s = SubSeq(chain, 1, k) /\ t = SubSeq(chain, 1, m)
  OBVIOUS
<1>3. DOMAIN s = 1..k /\ \A b \in 1..k : s[b] = chain[b]
  BY <1>1, <1>2, PrefixIsChain
<1>4. DOMAIN t = 1..m /\ \A b \in 1..m : t[b] = chain[b]
  BY <1>2, PrefixIsChain
<1>5. NoRepeats(t)
  BY <1>2
<1>6. NoRepeats(s)
  BY <1>1, <1>3, <1>4, <1>5 DEF NoRepeats
<1>. QED
  BY <1>2, <1>6

\* All transactions of a chain make a finite set.
LEMMA TxsAreFinite ==
    ASSUME NEW chain, IsChain(chain)
    PROVE  IsFiniteSet(Txs(chain))
<1>1. PICK w \in Seq(Txs(chain)) : Txs(chain) = ToSet(w)
  <2>1. Walk(chain) \in Seq(Txs(chain)) /\ ToSet(Walk(chain)) = Txs(chain)
    BY WalkMeetsTheChain DEF OnChain
  <2>. QED
    BY <2>1
<1>2. PICK m \in Nat : DOMAIN w = 1..m
  OBVIOUS
<1>3. IsFiniteSet(1..m)
  BY FS_Interval
<1>4. w \in Surjection(1..m, ToSet(w))
  <2>1. w \in [1..m -> ToSet(w)]
    BY <1>2 DEF ToSet
  <2>2. ASSUME NEW t \in ToSet(w) PROVE \E k \in 1..m : w[k] = t
    BY <1>2 DEF ToSet
  <2>. QED
    BY <2>1, <2>2 DEF Surjection
<1>. QED
  BY <1>1, <1>3, <1>4, FS_Surjection

\* What is unspent on one chain, and not spent on another that has its
\* transaction, is found on that one too.
LEMMA StillUnspent ==
    ASSUME NEW chain, IsChain(chain), NEW other, IsChain(other),
           NEW p \in Unspent(chain), p \notin Spent(other),
           p.tx \in DOMAIN FindUTXO(other)
    PROVE  p.tx.outs[p.out] \in ToSet(FindUTXO(other)[p.tx])
<1>1. OnChain(other) = Txs(other)
  BY WalkMeetsTheChain
<1>2. p.tx \in OnChain(other)
  <2>1. FindUTXO(other) \in Utxos(other)
    BY FindUTXOIsRight
  <2>2. DOMAIN FindUTXO(other) \subseteq Txs(other)
    BY <2>1, UtxosType
  <2>. QED
    BY <1>1, <2>2
<1>3. PICK tx \in OnChain(chain) : \E j \in DOMAIN tx.outs : p = Outpoint(tx, j)
  BY DEF Unspent
<1>4. p \in Unspent(other)
  <2>1. p.tx = tx
    BY <1>3 DEF Outpoint
  <2>2. \A x \in OnChain(other) : p \notin ToSet(x.ins)
    BY DEF Spent
  <2>3. p \in {Outpoint(tx, j) : j \in DOMAIN tx.outs}
    BY <1>3
  <2>. QED
    BY <1>2, <2>1, <2>2, <2>3 DEF Unspent
<1>. QED
  BY <1>4, FindUTXOIsRight

--------------------------------------------------------------------------
(***************************************************************************)
(* The inductive invariant.  It speaks of the goroutines in the middle of  *)
(* a Reindex, where the properties speak of the index once they are over.  *)
(***************************************************************************)

\* The types of an index, for the transactions of all blocks there are.
TreeTxs(tree) == UNION {Txs(block) : block \in tree}
TreeOuts(tree) == UNION {Outs(block) : block \in tree}
Indexes(tree) ==
    UNION {[D -> Seq(TreeOuts(tree))] : D \in {D \in SUBSET TreeTxs(tree) : IsFiniteSet(D)}}
NoEntries == [t \in {} |-> <<>>]

Reindexings(tree) ==
    [pc : {"idle", "collect", "delete", "find", "write"},
     keys : SUBSET TreeTxs(tree), found : Indexes(tree), alone : BOOLEAN]

UtxoTypes ==
    /\ blocks \in Trees
    /\ stored \in SUBSET blocks
    /\ tip \in stored
    /\ walked \in SUBSET stored
    /\ index \in Indexes(blocks)
    /\ trust \in {"whole", "mixed", "lost"}
    /\ conn \in [Conn -> Reindexings(blocks)]

\* The commands run alone.
CommandsAreAlone ==
    /\ proc \in {"down", "send"} => Quiet
    /\ proc = "reindexutxo" =>
          \A c, d \in Conn : conn[c].pc # "idle" /\ conn[d].pc # "idle" => c = d

\* A Reindex that is alone has collected all keys there are, has deleted them all,
\* and has found what there is to find below one tip.
LoneReindex ==
    \A c \in Conn :
        /\ conn[c].pc = "idle" => conn[c].alone
        /\ conn[c].alone /\ conn[c].pc # "idle" =>
              \A d \in Conn \ {c} : conn[d].pc = "idle"
        /\ conn[c].alone /\ conn[c].pc = "delete" => conn[c].keys = DOMAIN index
        /\ conn[c].alone /\ conn[c].pc = "find" => index = NoEntries /\ walked = {}
        /\ conn[c].alone /\ conn[c].pc = "write" =>
              /\ index = NoEntries
              /\ \E chain : walked = {chain} /\ conn[c].found = FindUTXO(chain)

\* What a whole index is, between Reindexes and while one runs alone.
ExactIndex ==
    trust = "whole" =>
        /\ Quiet => \E chain : walked = {chain} /\ index = FindUTXO(chain)
        /\ Alone => index = NoEntries \/ \E chain \in walked : index = FindUTXO(chain)

\* Every entry, and all that a Reindex is going to write, was found below a tip
\* that is remembered.
Traceable ==
    /\ \A t \in DOMAIN index : \E chain \in walked :
          t \in DOMAIN FindUTXO(chain) /\ index[t] = FindUTXO(chain)[t]
    /\ \A c \in Conn :
          conn[c].pc = "write" => \E chain \in walked : conn[c].found = FindUTXO(chain)

\* Once the tip has been found, a transaction with unspent outputs has an entry,
\* or some Reindex is going to write one.
WillWrite(c, t) ==
    \/ conn[c].pc \in {"collect", "delete", "find"}
    \/ conn[c].pc = "write" /\ t \in DOMAIN conn[c].found
Covered ==
    trust # "lost" /\ tip \in walked =>
        \A p \in Unspent(tip) :
            p.tx \in DOMAIN index \/ \E c \in Conn : WillWrite(c, p.tx)

UtxoInv ==
    UtxoTypes /\ CommandsAreAlone /\ LoneReindex /\ ExactIndex /\ Traceable /\ Covered

LEMMA IndexesType ==
    ASSUME NEW tree, NEW f
    PROVE  f \in Indexes(tree) <=> /\ f = [t \in DOMAIN f |-> f[t]]
                                   /\ DOMAIN f \subseteq TreeTxs(tree)
                                   /\ IsFiniteSet(DOMAIN f)
                                   /\ \A t \in DOMAIN f : f[t] \in Seq(TreeOuts(tree))
BY DEF Indexes

LEMMA NoEntriesType ==
    ASSUME NEW tree
    PROVE  NoEntries \in Indexes(tree) /\ DOMAIN NoEntries = {}
<1>1. PICK f : f = NoEntries
  OBVIOUS
<1>2. DOMAIN f = {}
  BY <1>1 DEF NoEntries
<1>3. f = [t \in DOMAIN f |-> f[t]]
  <2>1. [t \in {} |-> f[t]] = [t \in {} |-> <<>>]
    OBVIOUS
  <2>. QED
    BY <1>1, <1>2, <2>1 DEF NoEntries
<1>4. IsFiniteSet(DOMAIN f)
  BY <1>2, FS_EmptySet
<1>5. f \in Indexes(tree)
  BY <1>2, <1>3, <1>4, IndexesType
<1>. QED
  BY <1>1, <1>2, <1>5

\* What FindUTXO finds below any block is an index.
LEMMA FoundType ==
    ASSUME NEW tree \in Trees, NEW block \in tree
    PROVE  /\ IsChain(block) /\ block # <<>>
           /\ FindUTXO(block) \in Indexes(tree)
           /\ DOMAIN FindUTXO(block) \subseteq Txs(block)
<1>1. IsChain(block) /\ block # <<>>
  BY TreesAssumption
<1>2. PICK f : f = FindUTXO(block) /\ f \in Utxos(block)
  BY <1>1, FindUTXOIsRight
<1>3. /\ f = [t \in DOMAIN f |-> f[t]] /\ DOMAIN f \subseteq Txs(block)
      /\ \A t \in DOMAIN f : f[t] \in Seq(Outs(block))
  BY <1>2, UtxosType
<1>4. Txs(block) \subseteq TreeTxs(tree) /\ Outs(block) \subseteq TreeOuts(tree)
  BY DEF TreeTxs, TreeOuts
<1>5. \A t \in DOMAIN f : f[t] \in Seq(TreeOuts(tree))
  BY <1>3, <1>4
<1>6. IsFiniteSet(DOMAIN f)
  BY <1>1, <1>3, TxsAreFinite, FS_Subset
<1>7. f \in Indexes(tree)
  BY <1>3, <1>4, <1>5, <1>6, IndexesType
<1>. QED
  BY <1>1, <1>2, <1>3, <1>7

LEMMA TipIsChain ==
    ASSUME UtxoTypes
    PROVE  /\ IsChain(tip) /\ tip \in blocks
           /\ FindUTXO(tip) \in Indexes(blocks)
           /\ \A p \in Unspent(tip) : p.tx \in DOMAIN FindUTXO(tip)
<1>1. tip \in blocks /\ blocks \in Trees
  BY DEF UtxoTypes
<1>2. IsChain(tip) /\ FindUTXO(tip) \in Indexes(blocks)
  BY <1>1, FoundType
<1>. QED
  BY <1>1, <1>2, FindUTXOIsRight

LEMMA IdleType ==
    ASSUME NEW tree
    PROVE  /\ Idle \in Reindexings(tree) /\ Idle.pc = "idle" /\ Idle.alone
           /\ Idle.keys = {} /\ Idle.found = NoEntries
<1>1. Idle = [pc |-> "idle", keys |-> {}, found |-> NoEntries, alone |-> TRUE]
  BY Zenon DEF Idle, NoEntries
<1>2. NoEntries \in Indexes(tree)
  BY NoEntriesType
<1>. QED
  BY <1>1, <1>2 DEF Reindexings

LEMMA UtxoInvInit == Init => UtxoInv
<1>. SUFFICES ASSUME Init PROVE UtxoInv
  OBVIOUS
<1>1. blocks \in Trees /\ tip \in blocks /\ stored = {tip}
  BY DEF Init
<1>2. \/ index = FindUTXO(tip) /\ trust = "whole" /\ walked = {tip}
      \/ index = NoEntries /\ trust = "lost" /\ walked = {}
  BY DEF Init, NoEntries
<1>3. FindUTXO(tip) \in Indexes(blocks) /\ NoEntries \in Indexes(blocks)
      /\ DOMAIN NoEntries = {}
  BY <1>1, FoundType, NoEntriesType
<1>4. /\ conn \in [Conn -> Reindexings(blocks)]
      /\ \A c \in Conn : conn[c].pc = "idle" /\ conn[c].alone
  <2>1. conn = [c \in Conn |-> Idle]
    BY DEF Init
  <2>. QED
    BY <2>1, IdleType
<1>5. UtxoTypes
  BY <1>1, <1>2, <1>3, <1>4 DEF UtxoTypes
<1>6. CommandsAreAlone /\ LoneReindex
  BY <1>4 DEF CommandsAreAlone, LoneReindex, Quiet
<1>7. ExactIndex
  BY <1>2 DEF ExactIndex
<1>8. Traceable
  <2>1. \A c \in Conn : conn[c].pc # "write"
    BY <1>4
  <2>. QED
    BY <1>2, <1>3, <2>1 DEF Traceable
<1>9. Covered
  BY <1>2, <1>5, TipIsChain DEF Covered
<1>. QED
  BY <1>5, <1>6, <1>7, <1>8, <1>9 DEF UtxoInv

--------------------------------------------------------------------------
(* The steps. *)

\* What a step of goroutine c says of the goroutines, the types kept.
Moves(c, pc, keys, found, alone) ==
    /\ conn' \in [Conn -> Reindexings(blocks)]
    /\ conn'[c].pc = pc
    /\ conn'[c].keys = keys
    /\ conn'[c].found = found
    /\ conn'[c].alone = alone
    /\ \A d \in Conn \ {c} : conn'[d] = conn[d]

LEMMA CollectMoves ==
    ASSUME UtxoTypes, NEW c \in Conn, Collect(c)
    PROVE  Moves(c, "delete", DOMAIN index, conn[c].found, conn[c].alone)
<1>1. DOMAIN index \subseteq TreeTxs(blocks)
  BY IndexesType DEF UtxoTypes
<1>. QED
  BY <1>1 DEF UtxoTypes, Reindexings, Collect, Moves

LEMMA DeleteMoves ==
    ASSUME UtxoTypes, NEW c \in Conn, Delete(c)
    PROVE  Moves(c, "find", {}, conn[c].found, conn[c].alone)
BY DEF UtxoTypes, Reindexings, Delete, Moves

LEMMA FindMoves ==
    ASSUME UtxoTypes, NEW c \in Conn, Find(c)
    PROVE  Moves(c, "write", conn[c].keys, FindUTXO(tip), conn[c].alone)
<1>1. FindUTXO(tip) \in Indexes(blocks)
  BY TipIsChain
<1>. QED
  BY <1>1 DEF UtxoTypes, Reindexings, Find, Moves

LEMMA WriteMoves ==
    ASSUME UtxoTypes, NEW c \in Conn, Write(c)
    PROVE  Moves(c, "idle", {}, NoEntries, TRUE)
<1>1. /\ Idle \in Reindexings(blocks) /\ Idle.pc = "idle" /\ Idle.alone = TRUE
      /\ Idle.keys = {} /\ Idle.found = NoEntries
  BY IdleType DEF Reindexings
<1>2. conn' = [conn EXCEPT ![c] = Idle]
  BY DEF Write
<1>. QED
  BY <1>1, <1>2 DEF UtxoTypes, Moves

\* A goroutine that enters Reindex.
Enters(c) ==
    /\ conn' \in [Conn -> Reindexings(blocks)]
    /\ conn'[c].pc = "collect"
    /\ conn'[c].alone <=> \A d \in Conn \ {c} : conn[d].pc = "idle"
    /\ \A d \in Conn \ {c} :
          /\ conn'[d].pc = conn[d].pc
          /\ conn'[d].keys = conn[d].keys
          /\ conn'[d].found = conn[d].found
          /\ conn'[d].alone <=> conn[d].pc = "idle"

LEMMA EnterEnters ==
    ASSUME UtxoTypes, NEW c \in Conn, Enter(c)
    PROVE  Enters(c)
<1>1. PICK first : /\ first = [Idle EXCEPT !.pc = "collect", !.alone = Others(c) = {}]
                   /\ first \in Reindexings(blocks) /\ first.pc = "collect"
                   /\ first.alone <=> \A d \in Conn \ {c} : conn[d].pc = "idle"
  <2>1. Idle \in Reindexings(blocks)
    BY IdleType
  <2>2. PICK alone \in BOOLEAN : alone = (Others(c) = {})
    OBVIOUS
  <2>3. PICK first : first = [Idle EXCEPT !.pc = "collect", !.alone = alone]
    OBVIOUS
  <2>4. first \in Reindexings(blocks) /\ first.pc = "collect" /\ first.alone = alone
    BY <2>1, <2>3 DEF Reindexings
  <2>5. Others(c) = {} <=> \A d \in Conn \ {c} : conn[d].pc = "idle"
    BY DEF Others
  <2>6. first = [Idle EXCEPT !.pc = "collect", !.alone = Others(c) = {}]
    BY <2>2, <2>3
  <2>. QED
    BY <2>2, <2>4, <2>5, <2>6
<1>2. conn' = [d \in Conn |-> IF d = c THEN first
                              ELSE [conn[d] EXCEPT !.alone = conn[d].pc = "idle"]]
  BY <1>1 DEF Enter
<1>3. ASSUME NEW d \in Conn \ {c}
      PROVE  /\ conn'[d] \in Reindexings(blocks)
             /\ conn'[d].pc = conn[d].pc
             /\ conn'[d].keys = conn[d].keys
             /\ conn'[d].found = conn[d].found
             /\ conn'[d].alone <=> conn[d].pc = "idle"
  <2>1. conn'[d] = [conn[d] EXCEPT !.alone = conn[d].pc = "idle"]
    BY <1>2
  <2>2. conn[d] \in Reindexings(blocks)
    BY DEF UtxoTypes
  <2>. QED
    BY <2>1, <2>2 DEF Reindexings
<1>4. conn'[c] = first /\ DOMAIN conn' = Conn /\ conn' = [d \in Conn |-> conn'[d]]
  BY <1>2
<1>5. \A d \in Conn : conn'[d] \in Reindexings(blocks)
  BY <1>1, <1>3, <1>4
<1>6. conn' \in [Conn -> Reindexings(blocks)]
  BY <1>4, <1>5
<1>. QED
  BY <1>1, <1>3, <1>4, <1>6 DEF Enters

\* AddBlock stores a block, and the tip stays or is one that no Reindex has found.
Receives ==
    /\ stored' \in SUBSET blocks /\ stored \subseteq stored'
    /\ tip' \in stored' /\ (tip' = tip \/ tip' \notin walked)
    /\ UNCHANGED <<blocks, index, trust, walked>>

\* AddBlock and ReindexCommand.
EntersReindex(c) ==
    /\ Receives /\ Enter(c) /\ conn[c].pc = "idle"
    /\ \/ proc' = "node"
       \/ proc' = "reindexutxo" /\ Quiet

LEMMA AddBlockReceives ==
    ASSUME UtxoTypes, NEW c \in Conn, NEW block \in blocks, AddBlock(c, block)
    PROVE  Receives
<1>1. stored' = stored \cup {block} /\ stored' \in SUBSET blocks
  BY DEF UtxoTypes, AddBlock
<1>2. tip' = tip \/ (tip' = block /\ block \notin stored)
  BY DEF AddBlock
<1>3. tip \in stored /\ walked \in SUBSET stored
  BY DEF UtxoTypes
<1>. QED
  BY <1>1, <1>2, <1>3 DEF Receives, AddBlock

LEMMA CommandEnters ==
    ASSUME UtxoInv, NEW c \in Conn, ReindexCommand(c)
    PROVE  EntersReindex(c)
<1>1. Quiet
  BY DEF UtxoInv, CommandsAreAlone, ReindexCommand
<1>2. Receives
  BY DEF UtxoInv, UtxoTypes, ReindexCommand, Receives
<1>. QED
  BY <1>1, <1>2 DEF ReindexCommand, EntersReindex, Quiet

LEMMA UtxoInvEnter ==
    ASSUME UtxoInv, NEW c \in Conn, EntersReindex(c)
    PROVE  UtxoInv'
<1>. USE DEF UtxoInv
<1>1. Enters(c) /\ conn[c].pc = "idle"
  BY EnterEnters DEF EntersReindex
<1>2. UNCHANGED <<blocks, index, trust, walked>> /\ (tip' = tip \/ tip' \notin walked)
  BY DEF EntersReindex, Receives
<1>3. UtxoTypes'
  <2>1. stored' \in SUBSET blocks /\ tip' \in stored' /\ walked \in SUBSET stored'
    BY DEF EntersReindex, Receives, UtxoTypes
  <2>. QED
    BY <1>1, <1>2, <2>1 DEF UtxoTypes, Enters
<1>4. /\ \A d \in Conn \ {c} : /\ conn'[d].pc = conn[d].pc
                               /\ conn'[d].found = conn[d].found
      /\ conn'[c].pc = "collect"
      /\ conn'[c].alone <=> \A d \in Conn \ {c} : conn[d].pc = "idle"
      /\ \A d \in Conn \ {c} : conn'[d].alone <=> conn[d].pc = "idle"
  BY <1>1 DEF Enters
<1>5. CommandsAreAlone'
  BY <1>4 DEF EntersReindex, CommandsAreAlone, Quiet
<1>6. LoneReindex'
  <2>1. ASSUME NEW d \in Conn \ {c}
        PROVE  /\ conn'[d].pc = "idle" => conn'[d].alone
               /\ conn'[d].alone => conn'[d].pc = "idle"
    BY <1>4
  <2>2. conn'[c].alone => \A d \in Conn \ {c} : conn'[d].pc = "idle"
    BY <1>4
  <2>. QED
    BY <1>4, <2>1, <2>2 DEF LoneReindex
<1>7. ExactIndex'
  <2>. SUFFICES ASSUME trust = "whole", Alone'
                PROVE  \E chain \in walked : index = FindUTXO(chain)
    <3>1. ~Quiet'
      BY <1>4 DEF Quiet
    <3>. QED
      BY <1>2, <3>1 DEF ExactIndex
  <2>1. Quiet
    BY <1>1, <1>4 DEF Alone, Quiet
  <2>. QED
    BY <2>1 DEF ExactIndex
<1>8. Traceable'
  BY <1>2, <1>4 DEF Traceable
<1>9. Covered'
  BY <1>4 DEF Covered, WillWrite
<1>. QED
  BY <1>3, <1>5, <1>6, <1>7, <1>8, <1>9

\* HandleBlock with more blocks in transit.
LEMMA UtxoInvReceive ==
    ASSUME UtxoInv, Receives, proc = "node", UNCHANGED <<proc, conn>>
    PROVE  UtxoInv'
<1>. USE DEF UtxoInv
<1>1. UNCHANGED <<blocks, index, trust, walked, proc, conn>>
      /\ (tip' = tip \/ tip' \notin walked)
  BY DEF Receives
<1>2. UtxoTypes'
  BY <1>1 DEF UtxoTypes, Receives
<1>3. CommandsAreAlone' /\ LoneReindex' /\ Traceable'
  BY <1>1 DEF CommandsAreAlone, LoneReindex, Traceable, Quiet
<1>4. ExactIndex'
  BY <1>1 DEF ExactIndex, Quiet, Alone
<1>5. Covered'
  BY <1>1 DEF Covered, WillWrite
<1>. QED
  BY <1>2, <1>3, <1>4, <1>5

LEMMA UtxoInvAddBlock ==
    ASSUME UtxoInv, NEW c \in Conn, NEW block \in blocks, AddBlock(c, block)
    PROVE  UtxoInv'
<1>1. Receives /\ proc = "node" /\ proc' = proc /\ conn[c].pc = "idle"
  BY AddBlockReceives DEF UtxoInv, AddBlock
<1>2. CASE Enter(c)
  BY <1>1, <1>2, UtxoInvEnter DEF EntersReindex
<1>3. CASE UNCHANGED conn
  BY <1>1, <1>3, UtxoInvReceive
<1>. QED
  BY <1>2, <1>3 DEF AddBlock

LEMMA UtxoInvCollect ==
    ASSUME UtxoInv, NEW c \in Conn, Collect(c)
    PROVE  UtxoInv'
<1>. USE DEF UtxoInv
<1>1. Moves(c, "delete", DOMAIN index, conn[c].found, conn[c].alone)
  BY CollectMoves
<1>2. /\ UNCHANGED <<blocks, stored, tip, index, proc, trust, walked>>
      /\ conn[c].pc = "collect"
  BY DEF Collect
<1>3. UtxoTypes'
  BY <1>1, <1>2 DEF UtxoTypes, Moves
<1>4. CommandsAreAlone'
  BY <1>1, <1>2 DEF CommandsAreAlone, Quiet, Moves
<1>5. LoneReindex'
  BY <1>1, <1>2 DEF LoneReindex, Moves
<1>6. ExactIndex'
  <2>1. ~Quiet'
    BY <1>1 DEF Quiet, Moves
  <2>2. Alone' => Alone
    BY <1>1 DEF Alone, Moves
  <2>. QED
    BY <1>2, <2>1, <2>2 DEF ExactIndex
<1>7. Traceable'
  BY <1>1, <1>2 DEF Traceable, Moves
<1>8. Covered'
  BY <1>1, <1>2 DEF Covered, WillWrite, Moves
<1>. QED
  BY <1>3, <1>4, <1>5, <1>6, <1>7, <1>8

LEMMA UtxoInvDelete ==
    ASSUME UtxoInv, NEW c \in Conn, Delete(c)
    PROVE  UtxoInv'
<1>. USE DEF UtxoInv
<1>1. Moves(c, "find", {}, conn[c].found, conn[c].alone)
  BY DeleteMoves
<1>2. /\ UNCHANGED <<blocks, stored, tip, proc, trust>>
      /\ conn[c].pc = "delete"
      /\ index' = [t \in DOMAIN index \ conn[c].keys |-> index[t]]
  BY DEF Delete
<1>3. \/ walked' = walked
      \/ walked' = {} /\ DOMAIN index' = {} /\ \A d \in Conn : conn[d].pc # "write"
  BY DEF Delete, Forget
<1>4. UtxoTypes'
  <2>1. /\ DOMAIN index \subseteq TreeTxs(blocks) /\ IsFiniteSet(DOMAIN index)
        /\ \A t \in DOMAIN index : index[t] \in Seq(TreeOuts(blocks))
    BY IndexesType DEF UtxoTypes
  <2>2. IsFiniteSet(DOMAIN index \ conn[c].keys)
    BY <2>1, FS_Subset
  <2>3. PICK f : f = index'
    OBVIOUS
  <2>4. /\ DOMAIN f = DOMAIN index \ conn[c].keys
        /\ f = [t \in DOMAIN f |-> f[t]]
        /\ \A t \in DOMAIN f : f[t] = index[t]
    BY <1>2, <2>3
  <2>5. f \in Indexes(blocks)
    BY <2>1, <2>2, <2>4, IndexesType
  <2>6. walked' \in SUBSET stored
    BY <1>3 DEF UtxoTypes
  <2>. QED
    BY <1>1, <1>2, <2>3, <2>5, <2>6 DEF UtxoTypes, Moves
<1>5. CommandsAreAlone'
  BY <1>1, <1>2 DEF CommandsAreAlone, Quiet, Moves
<1>6. conn[c].alone => index' = NoEntries /\ walked' = {}
  <2>. SUFFICES ASSUME conn[c].alone PROVE index' = NoEntries /\ walked' = {}
    OBVIOUS
  <2>1. conn[c].keys = DOMAIN index /\ \A d \in Conn : conn[d].pc # "write"
    BY <1>2 DEF LoneReindex
  <2>2. DOMAIN index \ conn[c].keys = {}
    BY <2>1
  <2>3. index' = NoEntries /\ DOMAIN index' = {}
    BY <1>2, <2>2 DEF NoEntries
  <2>. QED
    BY <2>1, <2>3 DEF Delete, Forget
<1>7. LoneReindex'
  <2>1. ASSUME NEW d \in Conn \ {c}
        PROVE  conn[d].alone => conn[d].pc = "idle"
    BY <1>2 DEF LoneReindex
  <2>2. \A d \in Conn : conn[d].pc = "idle" => conn[d].alone
    BY DEF LoneReindex
  <2>3. conn[c].alone => \A d \in Conn \ {c} : conn[d].pc = "idle"
    BY <1>2 DEF LoneReindex
  <2>. QED
    BY <1>1, <1>6, <2>1, <2>2, <2>3 DEF LoneReindex, Moves
<1>8. ExactIndex'
  <2>1. ~Quiet'
    BY <1>1 DEF Quiet, Moves
  <2>2. Alone' => conn[c].alone
    BY <1>1 DEF Alone, Moves
  <2>. QED
    BY <1>6, <2>1, <2>2 DEF ExactIndex
<1>9. Traceable'
  <2>1. \A d \in Conn : conn'[d].pc = "write" =>
           conn[d].pc = "write" /\ conn'[d].found = conn[d].found
    BY <1>1 DEF Moves
  <2>2. \A t \in DOMAIN index' : t \in DOMAIN index /\ index'[t] = index[t]
    BY <1>2
  <2>3. CASE walked' = walked
    BY <2>1, <2>2, <2>3 DEF Traceable
  <2>4. CASE DOMAIN index' = {} /\ \A d \in Conn : conn[d].pc # "write"
    BY <2>1, <2>4 DEF Traceable
  <2>. QED
    BY <1>3, <2>3, <2>4
<1>10. Covered'
  <2>1. \A t : WillWrite(c, t)'
    BY <1>1 DEF WillWrite, Moves
  <2>. QED
    BY <2>1 DEF Covered
<1>. QED
  BY <1>4, <1>5, <1>7, <1>8, <1>9, <1>10

LEMMA UtxoInvFind ==
    ASSUME UtxoInv, NEW c \in Conn, Find(c)
    PROVE  UtxoInv'
<1>. USE DEF UtxoInv
<1>1. Moves(c, "write", conn[c].keys, FindUTXO(tip), conn[c].alone)
  BY FindMoves
<1>2. /\ UNCHANGED <<blocks, stored, tip, index, proc, trust>>
      /\ conn[c].pc = "find"
      /\ walked' = walked \cup {tip}
  BY DEF Find
<1>3. UtxoTypes'
  BY <1>1, <1>2 DEF UtxoTypes, Moves
<1>4. CommandsAreAlone'
  BY <1>1, <1>2 DEF CommandsAreAlone, Quiet, Moves
<1>5. LoneReindex'
  <2>1. conn[c].alone => walked' = {tip} /\ index = NoEntries
    BY <1>2 DEF LoneReindex
  <2>2. ASSUME NEW d \in Conn \ {c}
        PROVE  conn[d].alone => conn[d].pc = "idle"
    BY <1>2 DEF LoneReindex
  <2>3. \A d \in Conn : conn[d].pc = "idle" => conn[d].alone
    BY DEF LoneReindex
  <2>4. conn[c].alone => \A d \in Conn \ {c} : conn[d].pc = "idle"
    BY <1>2 DEF LoneReindex
  <2>. QED
    BY <1>1, <1>2, <2>1, <2>2, <2>3, <2>4 DEF LoneReindex, Moves
<1>6. ExactIndex'
  <2>1. ~Quiet'
    BY <1>1 DEF Quiet, Moves
  <2>2. Alone' => Alone
    BY <1>1 DEF Alone, Moves
  <2>. QED
    BY <1>2, <2>1, <2>2 DEF ExactIndex
<1>7. Traceable'
  <2>1. \A t \in DOMAIN index : \E chain \in walked' :
           t \in DOMAIN FindUTXO(chain) /\ index[t] = FindUTXO(chain)[t]
    BY <1>2 DEF Traceable
  <2>2. \A d \in Conn \ {c} : conn[d].pc = "write" =>
           \E chain \in walked' : conn[d].found = FindUTXO(chain)
    BY <1>2 DEF Traceable
  <2>3. \E chain \in walked' : conn'[c].found = FindUTXO(chain)
    BY <1>1, <1>2 DEF Moves
  <2>4. \A d \in Conn \ {c} : conn'[d] = conn[d]
    BY <1>1 DEF Moves
  <2>5. \A d \in Conn : conn'[d].pc = "write" =>
           \E chain \in walked' : conn'[d].found = FindUTXO(chain)
    BY <2>2, <2>3, <2>4
  <2>. QED
    BY <1>2, <2>1, <2>5 DEF Traceable
<1>8. Covered'
  <2>1. \A p \in Unspent(tip) : p.tx \in DOMAIN FindUTXO(tip)
    BY TipIsChain
  <2>2. conn'[c].pc = "write" /\ conn'[c].found = FindUTXO(tip)
    BY <1>1 DEF Moves
  <2>. QED
    BY <1>2, <2>1, <2>2 DEF Covered, WillWrite
<1>. QED
  BY <1>3, <1>4, <1>5, <1>6, <1>7, <1>8

LEMMA UtxoInvWrite ==
    ASSUME UtxoInv, NEW c \in Conn, Write(c)
    PROVE  UtxoInv'
<1>. USE DEF UtxoInv
<1>. DEFINE found == conn[c].found
<1>1. Moves(c, "idle", {}, NoEntries, TRUE)
  BY WriteMoves
<1>2. /\ UNCHANGED <<blocks, stored, tip, walked>>
      /\ conn[c].pc = "write"
      /\ index' = [t \in DOMAIN index \cup DOMAIN found |->
                     IF t \in DOMAIN found THEN found[t] ELSE index[t]]
      /\ proc' = IF proc = "reindexutxo" THEN "down" ELSE proc
  BY DEF Write
<1>3. /\ conn[c].alone => trust' = "whole"
      /\ ~conn[c].alone => trust' \in {"mixed", "lost"} /\ (trust' # "lost" => trust # "lost")
  BY DEF Write, UtxoTypes
<1>4. found \in Indexes(blocks) /\ index \in Indexes(blocks)
  BY DEF UtxoTypes, Reindexings
<1>5. ASSUME conn[c].alone
      PROVE  /\ \E chain : walked = {chain} /\ index' = FindUTXO(chain)
             /\ \A d \in Conn \ {c} : conn[d].pc = "idle"
  <2>1. DOMAIN index = {}
    BY <1>2, <1>5, NoEntriesType DEF LoneReindex
  <2>2. found = [t \in DOMAIN found |-> found[t]]
    BY <1>4, IndexesType
  <2>3. index' = found
    BY <1>2, <2>1, <2>2
  <2>. QED
    BY <1>2, <1>5, <2>3 DEF LoneReindex
<1>6. UtxoTypes'
  <2>1. index' \in Indexes(blocks)
    <3>. HIDE DEF found
    <3>1. /\ DOMAIN index \subseteq TreeTxs(blocks) /\ IsFiniteSet(DOMAIN index)
          /\ \A t \in DOMAIN index : index[t] \in Seq(TreeOuts(blocks))
      BY <1>4, IndexesType
    <3>2. /\ DOMAIN found \subseteq TreeTxs(blocks) /\ IsFiniteSet(DOMAIN found)
          /\ \A t \in DOMAIN found : found[t] \in Seq(TreeOuts(blocks))
      BY <1>4, IndexesType
    <3>3. IsFiniteSet(DOMAIN index \cup DOMAIN found)
      BY <3>1, <3>2, FS_Union
    <3>4. PICK f : f = index'
      OBVIOUS
    <3>5. /\ DOMAIN f = DOMAIN index \cup DOMAIN found
          /\ f = [t \in DOMAIN f |-> f[t]]
          /\ \A t \in DOMAIN f : f[t] = IF t \in DOMAIN found THEN found[t] ELSE index[t]
      BY <1>2, <3>4
    <3>6. \A t \in DOMAIN f : f[t] \in Seq(TreeOuts(blocks))
      BY <3>1, <3>2, <3>5
    <3>7. f \in Indexes(blocks)
      BY <3>1, <3>2, <3>3, <3>5, <3>6, IndexesType
    <3>. QED
      BY <3>4, <3>7
  <2>2. trust' \in {"whole", "mixed", "lost"}
    BY <1>3
  <2>. QED
    BY <1>1, <1>2, <2>1, <2>2 DEF UtxoTypes, Moves
<1>7. CommandsAreAlone'
  BY <1>1, <1>2 DEF CommandsAreAlone, Quiet, Moves
<1>8. LoneReindex'
  <2>1. ASSUME NEW d \in Conn \ {c}
        PROVE  /\ conn[d].pc = "idle" => conn[d].alone
               /\ conn[d].alone => conn[d].pc = "idle"
    BY <1>2 DEF LoneReindex
  <2>. QED
    BY <1>1, <1>2, <2>1 DEF LoneReindex, Moves
<1>9. ExactIndex'
  BY <1>2, <1>3, <1>5 DEF ExactIndex
<1>10. Traceable'
  <2>1. PICK chain \in walked : found = FindUTXO(chain)
    BY <1>2 DEF Traceable
  <2>2. ASSUME NEW t \in DOMAIN index'
        PROVE  \E other \in walked : /\ t \in DOMAIN FindUTXO(other)
                                     /\ index'[t] = FindUTXO(other)[t]
    <3>. HIDE DEF found
    <3>1. CASE t \in DOMAIN found
      <4>1. index'[t] = found[t]
        BY <1>2, <3>1
      <4>. QED
        BY <2>1, <3>1, <4>1
    <3>2. CASE t \notin DOMAIN found
      <4>1. index'[t] = index[t] /\ t \in DOMAIN index
        BY <1>2, <3>2
      <4>. QED
        BY <4>1 DEF Traceable
    <3>. QED
      BY <3>1, <3>2
  <2>3. \A d \in Conn : conn'[d].pc = "write" => conn'[d].found = conn[d].found /\ conn[d].pc = "write"
    BY <1>1 DEF Moves
  <2>. QED
    BY <1>2, <2>2, <2>3 DEF Traceable
<1>11. Covered'
  <2>1. CASE conn[c].alone
    <3>1. tip \in walked => index' = FindUTXO(tip)
      BY <1>5, <2>1
    <3>. QED
      BY <1>2, <3>1, TipIsChain DEF Covered
  <2>2. CASE ~conn[c].alone
    <3>. SUFFICES ASSUME trust' # "lost", tip \in walked, NEW p \in Unspent(tip)
                  PROVE  p.tx \in DOMAIN index' \/ \E d \in Conn : WillWrite(d, p.tx)'
      BY <1>2 DEF Covered
    <3>1. p.tx \in DOMAIN index \/ \E d \in Conn : WillWrite(d, p.tx)
      BY <1>3, <2>2 DEF Covered
    <3>2. WillWrite(c, p.tx) => p.tx \in DOMAIN found
      BY <1>2 DEF WillWrite
    <3>3. \A d \in Conn \ {c} : WillWrite(d, p.tx) => WillWrite(d, p.tx)'
      BY <1>1 DEF WillWrite, Moves
    <3>. QED
      BY <1>2, <3>1, <3>2, <3>3
  <2>. QED
    BY <2>1, <2>2
<1>. QED
  BY <1>6, <1>7, <1>8, <1>9, <1>10, <1>11

LEMMA UtxoInvEnds ==
    ASSUME UtxoInv, Ends
    PROVE  UtxoInv'
<1>. USE DEF UtxoInv
<1>1. /\ UNCHANGED <<blocks, stored, tip, index, walked>>
      /\ proc' = "down"
      /\ trust' = IF Quiet THEN trust ELSE "lost"
  BY DEF Ends, Quiet
<1>2. /\ conn' \in [Conn -> Reindexings(blocks)]
      /\ \A c \in Conn : conn'[c].pc = "idle" /\ conn'[c].alone
  <2>1. conn' = [c \in Conn |-> Idle]
    BY DEF Ends
  <2>. QED
    BY <2>1, IdleType
<1>3. UtxoTypes'
  BY <1>1, <1>2 DEF UtxoTypes
<1>4. CommandsAreAlone' /\ LoneReindex'
  BY <1>2 DEF CommandsAreAlone, LoneReindex, Quiet
<1>5. ExactIndex'
  BY <1>1 DEF ExactIndex
<1>6. Traceable'
  BY <1>1, <1>2 DEF Traceable
<1>7. Covered'
  <2>1. Quiet => \A c \in Conn : \A t : ~WillWrite(c, t)
    BY DEF Quiet, WillWrite
  <2>. QED
    BY <1>1, <2>1 DEF Covered
<1>. QED
  BY <1>3, <1>4, <1>5, <1>6, <1>7

\* StartNode, a command that comes or goes and leaves the rest alone, and no step
\* at all.
LEMMA UtxoInvProcess ==
    ASSUME UtxoInv, UNCHANGED <<blocks, stored, tip, index, conn, trust, walked>>,
           \/ proc' = proc
           \/ proc' = "node"
           \/ proc \in {"down", "send"} /\ proc' \in {"down", "send"}
    PROVE  UtxoInv'
<1>. USE DEF UtxoInv
<1>1. UtxoTypes' /\ LoneReindex' /\ Traceable'
  BY DEF UtxoTypes, LoneReindex, Traceable
<1>2. CommandsAreAlone'
  BY DEF CommandsAreAlone, Quiet
<1>3. ExactIndex'
  BY DEF ExactIndex, Quiet, Alone
<1>4. Covered'
  BY DEF Covered, WillWrite
<1>. QED
  BY <1>1, <1>2, <1>3, <1>4

LEMMA UtxoInvStep ==
    ASSUME UtxoInv, NEW c \in Conn, Step(c)
    PROVE  UtxoInv'
<1>1. CASE \E block \in blocks : AddBlock(c, block)
  BY <1>1, UtxoInvAddBlock
<1>2. CASE ReindexCommand(c)
  BY <1>2, CommandEnters, UtxoInvEnter
<1>3. CASE Collect(c)
  BY <1>3, UtxoInvCollect
<1>4. CASE Delete(c)
  BY <1>4, UtxoInvDelete
<1>5. CASE Find(c)
  BY <1>5, UtxoInvFind
<1>6. CASE FindPanics(c)
  BY <1>6, UtxoInvEnds DEF FindPanics
<1>7. CASE Write(c)
  BY <1>7, UtxoInvWrite
<1>. QED
  BY <1>1, <1>2, <1>3, <1>4, <1>5, <1>6, <1>7 DEF Step

LEMMA UtxoInvNext == UtxoInv /\ [Next]_vars => UtxoInv'
<1>. SUFFICES ASSUME UtxoInv, [Next]_vars PROVE UtxoInv'
  OBVIOUS
<1>1. CASE StartNode
  BY <1>1, UtxoInvProcess DEF StartNode
<1>2. CASE Kill
  BY <1>2, UtxoInvEnds DEF Kill
<1>3. CASE \E c \in Conn : Step(c)
  BY <1>3, UtxoInvStep
<1>4. CASE UNCHANGED vars
  BY <1>4, UtxoInvProcess DEF vars
<1>. QED
  BY <1>1, <1>2, <1>3, <1>4 DEF Next

--------------------------------------------------------------------------
(* The properties. *)

\* An index that is up to date, on a chain without repetitions.
LEMMA IndexWithoutRepeats ==
    ASSUME UtxoInv, UpToDate, NoRepeats(tip)
    PROVE  /\ index = FindUTXO(tip)
           /\ DOMAIN index = {p.tx : p \in Unspent(tip)}
           /\ DOMAIN index \subseteq Txs(tip)
           /\ \A tx \in DOMAIN index : index[tx] = Chosen(tx.outs, Positions(tx))
<1>1. index = FindUTXO(tip)
  BY DEF UtxoInv, ExactIndex, UpToDate
<1>2. IsChain(tip)
  BY TipIsChain DEF UtxoInv
<1>3. \A tx : Positions(tx) = Open(tx, tip)
  BY DEF Positions, Open
<1>4. DOMAIN index \subseteq Txs(tip)
  <2>1. index \in Utxos(tip)
    BY <1>1, <1>2, FindUTXOIsRight
  <2>. QED
    BY <2>1, UtxosType
<1>. QED
  BY <1>1, <1>2, <1>3, <1>4, FindUTXOIsRight

\* Without repetitions, an index entry has no more outputs than its transaction,
\* also if it comes from a Reindex that was overtaken or died - unless that was on
\* another fork.
LEMMA EntriesFit ==
    ASSUME UtxoInv, NoRepeats(tip), \A chain \in walked : IsPrefix(chain, tip),
           NEW t \in DOMAIN index
    PROVE  t \in OnChain(tip) /\ DOMAIN index[t] \subseteq DOMAIN t.outs
<1>1. PICK s \in walked : t \in DOMAIN FindUTXO(s) /\ index[t] = FindUTXO(s)[t]
  BY DEF UtxoInv, Traceable
<1>2. IsChain(tip) /\ IsChain(s) /\ DOMAIN FindUTXO(s) \subseteq Txs(s)
  <2>1. s \in blocks /\ blocks \in Trees
    BY DEF UtxoInv, UtxoTypes
  <2>. QED
    BY <2>1, FoundType, TipIsChain DEF UtxoInv
<1>3. PICK k \in Nat : k = Len(s)
  BY <1>2, ChainOfTxs
<1>4. k \in 0..Len(tip) /\ Len(tip) \in 0..Len(tip)
  <2>1. k <= Len(tip) /\ Len(tip) \in Nat
    BY <1>2, <1>3, ChainOfTxs DEF IsPrefix
  <2>. QED
    BY <2>1
<1>5. s = SubSeq(tip, 1, k)
  <2>1. SubSeq(s, 1, k) = SubSeq(tip, 1, k)
    BY <1>3 DEF IsPrefix
  <2>2. PICK S : s \in Seq(S)
    BY <1>2 DEF IsChain
  <2>3. SubSeq(s, 1, k) = s
    BY <1>3, <2>2
  <2>. QED
    BY <2>1, <2>3
<1>6. tip = SubSeq(tip, 1, Len(tip))
  <2>1. PICK S : tip \in Seq(S)
    BY <1>2 DEF IsChain
  <2>. QED
    BY <2>1
<1>7. Txs(s) \subseteq Txs(tip)
  BY <1>2, <1>4, <1>5, PrefixHasLess
<1>8. NoRepeats(s)
  BY <1>2, <1>4, <1>5, <1>6, PrefixNoRepeats
<1>9. index[t] = Chosen(t.outs, Open(t, s)) /\ t \in Txs(s)
  BY <1>1, <1>2, <1>8, FindUTXOIsRight
<1>10. t \in OnChain(tip)
  BY <1>2, <1>7, <1>9, WalkMeetsTheChain
<1>11. PICK outs \in Seq(Outs(s)) : outs = t.outs
  BY <1>2, <1>9, ListsOfTx
<1>12. PICK entry \in Seq(Outs(s)) : entry = index[t] /\ Len(entry) <= Len(outs)
  <2>1. Open(t, s) \in SUBSET DOMAIN outs
    BY <1>11 DEF Open
  <2>. QED
    BY <1>9, <1>11, <2>1, ChosenShortens
<1>13. DOMAIN entry \subseteq DOMAIN outs
  BY <1>12
<1>. QED
  BY <1>10, <1>11, <1>12, <1>13

\* Positions without gaps are the first ones.
LEMMA FirstPositions ==
    ASSUME NEW tx, NEW O, tx.outs \in Seq(O), NoGaps(tx)
    PROVE  \E m \in 0..Len(tx.outs) : Positions(tx) = 1..m
<1>1. PICK n \in Nat : n = Len(tx.outs) /\ DOMAIN tx.outs = 1..n
  <2>1. PICK outs \in Seq(O) : outs = tx.outs
    OBVIOUS
  <2>. QED
    BY <2>1
<1>2. PICK P \in SUBSET (1..n) : P = Positions(tx) /\ \A k \in P : 1..k \subseteq P
  BY <1>1 DEF Positions, NoGaps
<1>. DEFINE T == {i \in 0..n : \E m \in 0..i : P \cap (1..i) = 1..m}
<1>3. 0 \in T
  <2>1. P \cap (1..0) = 1..0 /\ 0 \in 0..0
    BY <1>1
  <2>. QED
    BY <1>1, <2>1
<1>4. ASSUME NEW i \in 0..(n - 1), i \in T PROVE i + 1 \in T
  <2>1. i + 1 \in 0..n /\ i + 1 \in 0..(i + 1) /\ i \in Nat
    BY <1>1
  <2>2. PICK m \in 0..i : P \cap (1..i) = 1..m
    BY <1>4
  <2>3. CASE i + 1 \in P
    <3>1. P \cap (1..(i + 1)) = 1..(i + 1)
      BY <1>2, <2>1, <2>3
    <3>. QED
      BY <2>1, <3>1
  <2>4. CASE i + 1 \notin P
    <3>1. P \cap (1..(i + 1)) = P \cap (1..i)
      BY <1>2, <2>1, <2>4
    <3>2. m \in 0..(i + 1)
      BY <2>1
    <3>. QED
      BY <2>1, <2>2, <3>1, <3>2
  <2>. QED
    BY <2>3, <2>4
<1>5. n \in T
  <2>. HIDE DEF T
  <2>1. 0..n \subseteq T
    BY <1>1, <1>3, <1>4, InductionUpTo
  <2>. QED
    BY <1>1, <2>1
<1>6. P \cap (1..n) = P
  OBVIOUS
<1>. QED
  BY <1>1, <1>2, <1>5, <1>6

\* In an exact index, an entry without gaps has its outputs where the transaction
\* has them, and they are unspent.
LEMMA GaplessEntry ==
    ASSUME UtxoInv, UpToDate, NoRepeats(tip), NEW tx \in DOMAIN index, NoGaps(tx)
    PROVE  \E m \in 0..Len(tx.outs) :
             /\ Positions(tx) = 1..m
             /\ index[tx] = Chosen(tx.outs, 1..m)
             /\ DOMAIN index[tx] = 1..m
             /\ \A k \in 1..m : index[tx][k] = tx.outs[k]
<1>1. tx \in Txs(tip) /\ index[tx] = Chosen(tx.outs, Positions(tx))
  BY IndexWithoutRepeats
<1>2. PICK outs \in Seq(Outs(tip)) : outs = tx.outs
  BY <1>1, TipIsChain, ListsOfTx DEF UtxoInv
<1>3. PICK m \in 0..Len(outs) : Positions(tx) = 1..m
  BY <1>2, FirstPositions
<1>4. PICK entry \in Seq(Outs(tip)) :
        /\ entry = Chosen(outs, 1..m) /\ Len(entry) = m
        /\ \A k \in 1..m : entry[k] = outs[k]
  BY ChosenFirst
<1>5. DOMAIN entry = 1..m
  BY <1>4
<1>. QED
  BY <1>1, <1>2, <1>3, <1>4, <1>5

LEMMA IndexIsExactOfInv == UtxoInv => IndexIsExact
<1>. SUFFICES ASSUME UtxoInv, UpToDate, NoRepeats(tip)
              PROVE  /\ DOMAIN index = {p.tx : p \in Unspent(tip)}
                     /\ \A tx \in DOMAIN index : Holds(index[tx], tx.outs, Positions(tx))
  BY DEF IndexIsExact
<1>1. /\ DOMAIN index = {p.tx : p \in Unspent(tip)}
      /\ DOMAIN index \subseteq Txs(tip)
      /\ \A tx \in DOMAIN index : index[tx] = Chosen(tx.outs, Positions(tx))
  BY IndexWithoutRepeats
<1>2. ASSUME NEW tx \in DOMAIN index
      PROVE  Holds(index[tx], tx.outs, Positions(tx))
  <2>1. tx.outs \in Seq(Outs(tip))
    BY <1>1, TipIsChain, ListsOfTx DEF UtxoInv
  <2>2. Positions(tx) \in SUBSET DOMAIN tx.outs
    BY DEF Positions
  <2>. QED
    BY <1>1, <2>1, <2>2, ChosenHolds
<1>. QED
  BY <1>1, <1>2

LEMMA NothingUnspentIsMissingOfInv == UtxoInv => NothingUnspentIsMissing
<1>. SUFFICES ASSUME UtxoInv, Quiet, trust # "lost", tip \in walked, NEW p \in Unspent(tip)
              PROVE  /\ p.tx \in DOMAIN index
                     /\ \/ p.tx.outs[p.out] \in ToSet(index[p.tx])
                        \/ \E fork \in walked : p \in Spent(fork)
  BY DEF NothingUnspentIsMissing
<1>1. p.tx \in DOMAIN index
  BY DEF UtxoInv, Covered, WillWrite, Quiet
<1>2. PICK chain \in walked :
        p.tx \in DOMAIN FindUTXO(chain) /\ index[p.tx] = FindUTXO(chain)[p.tx]
  BY <1>1 DEF UtxoInv, Traceable
<1>3. IsChain(tip) /\ IsChain(chain)
  <2>1. chain \in blocks /\ blocks \in Trees
    BY DEF UtxoInv, UtxoTypes
  <2>. QED
    BY <2>1, FoundType, TipIsChain DEF UtxoInv
<1>4. CASE p \notin Spent(chain)
  BY <1>1, <1>2, <1>3, <1>4, StillUnspent
<1>. QED
  BY <1>1, <1>4

LEMMA NeverAMixtureOfInv == UtxoInv => NeverAMixture
BY NoEntriesType DEF UtxoInv, ExactIndex, NeverAMixture

\* However blocks arrive and Reindexes interleave, die and are followed by others,
\* what is in the index was found at some tip, and what is missing from it, once
\* the tip has been found, is still to be written.
THEOREM UtxoInvariance == Spec => []UtxoInv
BY UtxoInvInit, UtxoInvNext, PTL DEF Spec

\* Once a Reindex that was alone with the index has found the tip, and until the
\* tip moves or the next Reindex begins, the index holds exactly the unspent
\* outputs at their positions, for any blocks and any number of goroutines.
THEOREM AlwaysExact == Spec => []IndexIsExact
BY UtxoInvariance, IndexIsExactOfInv, PTL

\* Reindexes that overlap in any way, if none of them is killed, leave no output out
\* of the index that is unspent on the chain found last and was not spent on
\* another fork.
THEOREM NothingMissingEver == Spec => []NothingUnspentIsMissing
BY UtxoInvariance, NothingUnspentIsMissingOfInv, PTL

\* At any moment of a Reindex that is alone, the index is empty or that of one tip.
THEOREM NeverMixed == Spec => []NeverAMixture
BY UtxoInvariance, NeverAMixtureOfInv, PTL

--------------------------------------------------------------------------
(* Update.  It takes outputs out of the entries one after the other; what it *)
(* has made of an exact index so far depends only on which outputs have been *)
(* spent and which transactions entered.                                     *)

\* The unspent outputs of a stored transaction that are not in S.
Left(tx, S) == {k \in Positions(tx) : Outpoint(tx, k) \notin S}

\* The index when the outputs in S are spent and the transactions in A entered.
Updated(S, A) ==
    [t \in {t \in DOMAIN index : Left(t, S) # {}} \cup A
       |-> IF t \in A THEN t.outs ELSE Chosen(t.outs, Left(t, S))]

ExactBefore == UtxoInv /\ UpToDate /\ NoRepeats(tip)

\* Nothing is spent, nothing has entered.
LEMMA UpdatedOfNothing ==
    ASSUME ExactBefore
    PROVE  index = Updated({}, {})
<1>1. /\ DOMAIN index = {p.tx : p \in Unspent(tip)}
      /\ \A tx \in DOMAIN index : index[tx] = Chosen(tx.outs, Positions(tx))
  BY IndexWithoutRepeats DEF ExactBefore
<1>2. index = [t \in DOMAIN index |-> index[t]]
  BY IndexesType DEF ExactBefore, UtxoInv, UtxoTypes
<1>3. \A t : Left(t, {}) = Positions(t)
  BY DEF Left
<1>4. ASSUME NEW t \in DOMAIN index PROVE Left(t, {}) # {}
  <2>1. PICK p \in Unspent(tip) : t = p.tx
    BY <1>1
  <2>2. PICK tx \in OnChain(tip) : \E k \in DOMAIN tx.outs : p = Outpoint(tx, k)
    BY <2>1 DEF Unspent
  <2>3. PICK k \in DOMAIN tx.outs : p = Outpoint(tx, k)
    BY <2>2
  <2>4. tx = t
    BY <2>1, <2>3 DEF Outpoint
  <2>5. k \in Positions(t)
    BY <2>3, <2>4 DEF Positions
  <2>. QED
    BY <1>3, <2>5
<1>. DEFINE D == {t \in DOMAIN index : Left(t, {}) # {}} \cup {}
<1>5. D = DOMAIN index
  BY <1>4
<1>. HIDE DEF D
<1>6. Updated({}, {}) = [t \in D |-> Chosen(t.outs, Left(t, {}))]
  BY DEF Updated, D
<1>7. \A t \in D : Chosen(t.outs, Left(t, {})) = index[t]
  BY <1>1, <1>3, <1>5
<1>. QED
  BY <1>2, <1>5, <1>6, <1>7

\* An input takes its output out of an entry that nothing has been taken out of.
LEMMA OutputIsSpent ==
    ASSUME ExactBefore, NEW S, NEW A, A \cap DOMAIN index = {},
           NEW in, in = Outpoint(in.tx, in.out), in.tx \in DOMAIN index, NoGaps(in.tx),
           \A p \in S : p.tx # in.tx
    PROVE  SpendOutput(Updated(S, A), in) = Updated(S \cup {in}, A)
<1>. DEFINE tx == in.tx
            more == S \cup {in}
            u == Updated(S, A)
<1>1. PICK outs \in Seq(Outs(tip)) : outs = tx.outs
  <2>1. tx \in Txs(tip)
    BY IndexWithoutRepeats DEF ExactBefore
  <2>. QED
    BY <2>1, TipIsChain, ListsOfTx DEF UtxoInv, ExactBefore
<1>2. PICK m \in 0..Len(outs) :
        /\ Positions(tx) = 1..m /\ index[tx] = Chosen(outs, 1..m) /\ DOMAIN index[tx] = 1..m
  BY <1>1, GaplessEntry DEF ExactBefore
<1>3. Positions(tx) # {}
  <2>1. tx \in DOMAIN Updated({}, {})
    BY UpdatedOfNothing
  <2>. QED
    BY <2>1 DEF Updated, Left
<1>4. /\ \A t, k : Outpoint(t, k).tx = t /\ Outpoint(t, k).out = k
      /\ \A k : Outpoint(tx, k) = in <=> k = in.out
  BY DEF Outpoint
<1>5. Left(tx, S) = 1..m /\ Left(tx, more) = (1..m) \ {in.out}
  BY <1>2, <1>4 DEF Left
<1>6. \A t : t # tx => Left(t, more) = Left(t, S)
  BY <1>4 DEF Left
<1>7. tx \in DOMAIN u /\ u[tx] = Chosen(outs, 1..m)
  BY <1>1, <1>2, <1>3, <1>5 DEF Updated
<1>8. PICK c : c = Chosen(outs, Left(tx, more)) /\ Chosen(u[tx], DOMAIN u[tx] \ {in.out}) = c
  <2>1. DOMAIN u[tx] = 1..m
    BY <1>2, <1>7
  <2>2. Left(tx, more) \in SUBSET (1..m)
    BY <1>5
  <2>3. Chosen(Chosen(outs, 1..m), Left(tx, more)) = Chosen(outs, Left(tx, more))
    BY <2>2, ChosenOfFirst
  <2>. QED
    BY <1>5, <1>7, <2>1, <2>3
<1>9. c = <<>> <=> Left(tx, more) = {}
  <2>1. Left(tx, more) \in SUBSET DOMAIN outs
    <3>1. Positions(tx) \subseteq DOMAIN outs
      BY <1>1 DEF Positions
    <3>. QED
      BY <1>2, <1>5, <3>1
  <2>2. c \in Seq(Outs(tip)) /\ ToSet(c) = {outs[k] : k \in Left(tx, more)}
    BY <1>8, <2>1, ChosenHolds, ChosenElements
  <2>3. c = <<>> <=> ToSet(c) = {}
    BY <2>2, EmptySeq DEF ToSet
  <2>. QED
    BY <2>2, <2>3
<1>. DEFINE D == {t \in DOMAIN index : Left(t, S) # {}} \cup A
            E == {t \in DOMAIN index : Left(t, more) # {}} \cup A
            v == Updated(more, A)
<1>10. /\ DOMAIN u = D /\ u = [t \in D |-> u[t]]
       /\ DOMAIN v = E /\ v = [t \in E |-> v[t]]
       /\ \A t \in D : u[t] = IF t \in A THEN t.outs ELSE Chosen(t.outs, Left(t, S))
       /\ \A t \in E : v[t] = IF t \in A THEN t.outs ELSE Chosen(t.outs, Left(t, more))
  BY DEF Updated
<1>11. tx \notin A /\ \A t : t # tx => (t \in D <=> t \in E)
  BY <1>6
<1>12. tx \in D /\ (tx \in E <=> c # <<>>) /\ (tx \in E => v[tx] = c)
  BY <1>1, <1>7, <1>8, <1>9, <1>10, <1>11
<1>13. \A t \in E : t # tx => v[t] = u[t]
  BY <1>6, <1>10, <1>11
<1>14. SpendOutput(u, in) = IF c = <<>> THEN [t \in DOMAIN u \ {tx} |-> u[t]] ELSE SetEntry(u, tx, c)
  BY <1>8 DEF SpendOutput
<1>. HIDE DEF D, E, u, v, tx, more
<1>15. CASE c = <<>>
  <2>1. DOMAIN u \ {tx} = E
    BY <1>10, <1>11, <1>12, <1>15
  <2>2. \A t \in E : v[t] = u[t]
    BY <1>12, <1>13, <1>15
  <2>3. [t \in DOMAIN u \ {tx} |-> u[t]] = v
    BY <1>10, <2>1, <2>2
  <2>. QED
    BY <1>14, <1>15, <2>3 DEF u, v, more
<1>16. CASE c # <<>>
  <2>1. DOMAIN u \cup {tx} = E
    BY <1>10, <1>11, <1>12, <1>16
  <2>2. SetEntry(u, tx, c) = [t \in E |-> IF t = tx THEN c ELSE u[t]]
    BY <2>1 DEF SetEntry
  <2>3. \A t \in E : (IF t = tx THEN c ELSE u[t]) = v[t]
    BY <1>12, <1>13
  <2>4. SetEntry(u, tx, c) = v
    BY <1>10, <2>2, <2>3
  <2>. QED
    BY <1>14, <1>16, <2>4 DEF u, v, more
<1>. QED
  BY <1>15, <1>16

\* The inputs of a transaction that Update can follow, after those that spent S.
Followed(tx, S) ==
    /\ tx.ins \in Seq(ToSet(tx.ins))
    /\ tx \notin DOMAIN index
    /\ \A p \in ToSet(tx.ins) :
          /\ p = Outpoint(p.tx, p.out) /\ p.tx \in DOMAIN index /\ NoGaps(p.tx)
          /\ \A q \in S : q.tx # p.tx
    /\ \A i, j \in DOMAIN tx.ins : tx.ins[i].tx = tx.ins[j].tx => i = j

\* A transaction spends what its inputs name, and enters.
LEMMA TxIsUpdated ==
    ASSUME ExactBefore, NEW S, NEW A, A \cap DOMAIN index = {}, NEW tx, Followed(tx, S)
    PROVE  UpdateTx(Updated(S, A), tx) = Updated(S \cup ToSet(tx.ins), A \cup {tx})
<1>1. PICK n \in Nat : n = Len(tx.ins) /\ DOMAIN tx.ins = 1..n
  BY DEF Followed
<1>. DEFINE ins == tx.ins
            So(i) == S \cup {ins[j] : j \in 1..i}
            u == Updated(S, A)
            Steps(f) == [i \in 0..n |-> IF i = 0 THEN u ELSE SpendOutput(f[i - 1], ins[i])]
            h == [i \in 0..n |-> Updated(So(i), A)]
            f == CHOOSE f : f = Steps(f)
<1>2. So(0) = S /\ So(n) = S \cup ToSet(ins)
  BY <1>1 DEF ToSet
<1>3. ASSUME NEW i \in 1..n
      PROVE  /\ SpendOutput(Updated(So(i - 1), A), ins[i]) = Updated(So(i), A)
             /\ i - 1 \in 0..n /\ i # 0
  <2>1. ins[i] \in ToSet(ins) /\ \A j \in 1..(i - 1) : ins[j].tx # ins[i].tx /\ j \in 1..n
    <3>1. \A j \in 1..(i - 1) : j \in 1..n /\ j # i
      BY <1>1
    <3>2. \A k, l \in DOMAIN ins : ins[k].tx = ins[l].tx => k = l
      BY DEF Followed
    <3>3. ins[i] \in ToSet(ins)
      BY <1>1 DEF ToSet
    <3>4. DOMAIN ins = 1..n
      BY <1>1
    <3>. HIDE DEF ins
    <3>5. \A j \in 1..(i - 1) : ins[j].tx # ins[i].tx
      BY <3>1, <3>2, <3>4
    <3>. QED
      BY <3>1, <3>3, <3>5
  <2>2. \A p \in So(i - 1) : p.tx # ins[i].tx
    BY <2>1 DEF Followed
  <2>3. So(i) = So(i - 1) \cup {ins[i]}
    <3>1. 1..i = (1..(i - 1)) \cup {i}
      BY <1>1
    <3>. QED
      BY <3>1
  <2>4. /\ ins[i] = Outpoint(ins[i].tx, ins[i].out)
        /\ ins[i].tx \in DOMAIN index /\ NoGaps(ins[i].tx)
    BY <2>1 DEF Followed
  <2>5. PICK T, in : T = So(i - 1) /\ in = ins[i]
    OBVIOUS
  <2>6. SpendOutput(Updated(T, A), in) = Updated(T \cup {in}, A)
    <3>. HIDE DEF So, ins
    <3>1. /\ in = Outpoint(in.tx, in.out) /\ in.tx \in DOMAIN index /\ NoGaps(in.tx)
          /\ \A p \in T : p.tx # in.tx
      BY <2>2, <2>4, <2>5
    <3>. QED
      BY <3>1, OutputIsSpent
  <2>7. i - 1 \in 0..n /\ i # 0
    BY <1>1
  <2>. HIDE DEF So, ins
  <2>. QED
    BY <2>3, <2>5, <2>6, <2>7
<1>. HIDE DEF So
<1>4. h = Steps(h)
  <2>1. ASSUME NEW i \in 0..n PROVE h[i] = IF i = 0 THEN u ELSE SpendOutput(h[i - 1], ins[i])
    <3>1. CASE i = 0
      BY <1>2, <3>1
    <3>2. CASE i # 0
      <4>1. i \in 1..n
        BY <1>1, <3>2
      <4>2. h[i - 1] = Updated(So(i - 1), A) /\ h[i] = Updated(So(i), A)
        BY <1>3, <4>1
      <4>. QED
        BY <1>3, <3>2, <4>1, <4>2
    <3>. QED
      BY <3>1, <3>2
  <2>. QED
    BY <2>1
<1>. HIDE DEF h
<1>5. f = Steps(f)
  <2>. HIDE DEF Steps
  <2>. QED
    BY <1>4
<1>6. UpdateTx(u, tx) = SetEntry(f[n], tx, tx.outs)
  BY <1>1 DEF UpdateTx
<1>. HIDE DEF f
<1>. DEFINE T == {i \in 0..n : f[i] = h[i]}
<1>7. 0..n \subseteq T
  <2>1. 0 \in T
    <3>1. 0 \in 0..n
      BY <1>1
    <3>. QED
      BY <1>4, <1>5, <3>1
  <2>2. ASSUME NEW i \in 0..(n - 1), i \in T PROVE i + 1 \in T
    <3>1. i + 1 \in 0..n /\ (i + 1) - 1 = i /\ i + 1 # 0
      BY <1>1
    <3>2. f[i + 1] = SpendOutput(f[i], ins[i + 1]) /\ h[i + 1] = SpendOutput(h[i], ins[i + 1])
      BY <1>4, <1>5, <3>1
    <3>. QED
      BY <2>2, <3>1, <3>2
  <2>. HIDE DEF T
  <2>. QED
    BY <1>1, <2>1, <2>2, InductionUpTo
<1>8. f[n] = Updated(S \cup ToSet(ins), A)
  <2>1. n \in 0..n
    BY <1>1
  <2>. QED
    BY <1>2, <1>7, <2>1 DEF h
<1>. HIDE DEF u, ins
<1>9. SetEntry(Updated(S \cup ToSet(ins), A), tx, tx.outs)
        = Updated(S \cup ToSet(ins), A \cup {tx})
  <2>. DEFINE R == S \cup ToSet(ins)
              D == {t \in DOMAIN index : Left(t, R) # {}}
              v == Updated(R, A)
  <2>1. DOMAIN v = D \cup A
    BY DEF Updated
  <2>2. \A t \in D \cup A : v[t] = IF t \in A THEN t.outs ELSE Chosen(t.outs, Left(t, R))
    BY DEF Updated
  <2>3. Updated(R, A \cup {tx})
          = [t \in D \cup (A \cup {tx})
               |-> IF t \in A \cup {tx} THEN t.outs ELSE Chosen(t.outs, Left(t, R))]
    BY DEF Updated
  <2>4. SetEntry(v, tx, tx.outs)
          = [t \in (D \cup A) \cup {tx} |-> IF t = tx THEN tx.outs ELSE v[t]]
    BY <2>1 DEF SetEntry
  <2>5. (D \cup A) \cup {tx} = D \cup (A \cup {tx})
    OBVIOUS
  <2>. HIDE DEF R, D, v
  <2>6. \A t \in D \cup (A \cup {tx}) :
          (IF t = tx THEN tx.outs ELSE v[t])
            = IF t \in A \cup {tx} THEN t.outs ELSE Chosen(t.outs, Left(t, R))
    BY <2>2
  <2>7. SetEntry(v, tx, tx.outs) = Updated(R, A \cup {tx})
    BY <2>3, <2>4, <2>5, <2>6
  <2>. QED
    BY <2>7 DEF R, v
<1>. QED
  BY <1>6, <1>8, <1>9 DEF u, ins

\* All inputs of a block.
SpentIn(block) == UNION {ToSet(tx.ins) : tx \in ToSet(block)}

\* Update takes all outputs out that a block spends, and enters its transactions.
LEMMA BlockIsUpdated ==
    ASSUME ExactBefore, NEW block, block \in Seq(ToSet(block)), Updatable(block),
           \A tx \in ToSet(block) :
              /\ tx.ins \in Seq(ToSet(tx.ins)) /\ tx \notin DOMAIN index
              /\ \A p \in ToSet(tx.ins) : p = Outpoint(p.tx, p.out)
    PROVE  Update(index, block) = Updated(SpentIn(block), ToSet(block))
<1>1. PICK n \in Nat : n = Len(block) /\ DOMAIN block = 1..n
  OBVIOUS
<1>. DEFINE So(i) == UNION {ToSet(block[x].ins) : x \in 1..i}
            In(i) == {block[x] : x \in 1..i}
            Steps(f) == [i \in 0..n |-> IF i = 0 THEN index ELSE UpdateTx(f[i - 1], block[i])]
            h == [i \in 0..n |-> Updated(So(i), In(i))]
            f == CHOOSE f : f = Steps(f)
<1>2. /\ So(0) = {} /\ In(0) = {}
      /\ So(n) = SpentIn(block) /\ In(n) = ToSet(block)
  <2>1. In(n) = ToSet(block)
    BY <1>1 DEF ToSet
  <2>2. So(n) = SpentIn(block)
    BY <1>1 DEF SpentIn, ToSet
  <2>3. 1..0 = {}
    OBVIOUS
  <2>4. So(0) = {}
    BY <2>3
  <2>5. In(0) = {}
    BY <2>3
  <2>. HIDE DEF So, In
  <2>. QED
    BY <2>1, <2>2, <2>4, <2>5
<1>3. ASSUME NEW i \in 1..n
      PROVE  /\ UpdateTx(Updated(So(i - 1), In(i - 1)), block[i]) = Updated(So(i), In(i))
             /\ i - 1 \in 0..n /\ i # 0
  <2>1. block[i] \in ToSet(block) /\ \A x \in 1..(i - 1) : x # i /\ x \in 1..n
    BY <1>1 DEF ToSet
  <2>2. 1..i = (1..(i - 1)) \cup {i}
    BY <1>1
  <2>3. So(i) = So(i - 1) \cup ToSet(block[i].ins) /\ In(i) = In(i - 1) \cup {block[i]}
    BY <2>2
  <2>4. In(i - 1) \cap DOMAIN index = {}
    <3>1. \A x \in 1..(i - 1) : block[x] \in ToSet(block)
      BY <1>1, <2>1 DEF ToSet
    <3>. QED
      BY <3>1
  <2>5. Followed(block[i], So(i - 1))
    <3>1. /\ block[i].ins \in Seq(ToSet(block[i].ins)) /\ block[i] \notin DOMAIN index
          /\ \A p \in ToSet(block[i].ins) :
                p = Outpoint(p.tx, p.out) /\ p.tx \in DOMAIN index /\ NoGaps(p.tx)
      BY <2>1 DEF Updatable
    <3>2. \A x, y \in 1..n : \A j \in DOMAIN block[x].ins, k \in DOMAIN block[y].ins :
            block[x].ins[j].tx = block[y].ins[k].tx => x = y /\ j = k
      BY <1>1 DEF Updatable
    <3>3. \A j, k \in DOMAIN block[i].ins : block[i].ins[j].tx = block[i].ins[k].tx => j = k
      BY <3>2
    <3>4. ASSUME NEW p \in ToSet(block[i].ins), NEW q \in So(i - 1) PROVE q.tx # p.tx
      <4>1. PICK x \in 1..(i - 1) : q \in ToSet(block[x].ins)
        OBVIOUS
      <4>2. PICK j \in DOMAIN block[x].ins : q = block[x].ins[j]
        BY <4>1 DEF ToSet
      <4>3. PICK k \in DOMAIN block[i].ins : p = block[i].ins[k]
        BY DEF ToSet
      <4>. QED
        BY <2>1, <3>2, <4>2, <4>3
    <3>. HIDE DEF So
    <3>. QED
      BY <3>1, <3>3, <3>4 DEF Followed
  <2>6. PICK S, A, tx : S = So(i - 1) /\ A = In(i - 1) /\ tx = block[i]
    OBVIOUS
  <2>7. UpdateTx(Updated(S, A), tx) = Updated(S \cup ToSet(tx.ins), A \cup {tx})
    <3>. HIDE DEF So, In
    <3>1. A \cap DOMAIN index = {} /\ Followed(tx, S)
      BY <2>4, <2>5, <2>6
    <3>. QED
      BY <3>1, TxIsUpdated
  <2>8. i - 1 \in 0..n /\ i # 0
    BY <1>1
  <2>. HIDE DEF So, In
  <2>. QED
    BY <2>3, <2>6, <2>7, <2>8
<1>. HIDE DEF So, In
<1>4. h = Steps(h)
  <2>1. ASSUME NEW i \in 0..n PROVE h[i] = IF i = 0 THEN index ELSE UpdateTx(h[i - 1], block[i])
    <3>1. CASE i = 0
      BY <1>2, <3>1, UpdatedOfNothing
    <3>2. CASE i # 0
      <4>1. i \in 1..n
        BY <1>1, <3>2
      <4>2. h[i - 1] = Updated(So(i - 1), In(i - 1)) /\ h[i] = Updated(So(i), In(i))
        BY <1>3, <4>1
      <4>. QED
        BY <1>3, <3>2, <4>1, <4>2
    <3>. QED
      BY <3>1, <3>2
  <2>. QED
    BY <2>1
<1>. HIDE DEF h
<1>5. f = Steps(f)
  <2>. HIDE DEF Steps
  <2>. QED
    BY <1>4
<1>6. Update(index, block) = f[n]
  BY <1>1 DEF Update
<1>. HIDE DEF f
<1>. DEFINE T == {i \in 0..n : f[i] = h[i]}
<1>7. 0..n \subseteq T
  <2>1. 0 \in T
    <3>1. 0 \in 0..n
      BY <1>1
    <3>. QED
      BY <1>4, <1>5, <3>1
  <2>2. ASSUME NEW i \in 0..(n - 1), i \in T PROVE i + 1 \in T
    <3>1. i + 1 \in 0..n /\ (i + 1) - 1 = i /\ i + 1 # 0
      BY <1>1
    <3>2. f[i + 1] = UpdateTx(f[i], block[i + 1]) /\ h[i + 1] = UpdateTx(h[i], block[i + 1])
      BY <1>4, <1>5, <3>1
    <3>. QED
      BY <2>2, <3>1, <3>2
  <2>. HIDE DEF T
  <2>. QED
    BY <1>1, <2>1, <2>2, InductionUpTo
<1>8. f[n] = Updated(So(n), In(n))
  <2>1. n \in 0..n
    BY <1>1
  <2>. QED
    BY <1>7, <2>1 DEF h
<1>. QED
  BY <1>2, <1>6, <1>8

\* Who has an unspent output.
LEMMA HasOpen ==
    ASSUME NEW chain, IsChain(chain), NEW t
    PROVE  /\ t \in {p.tx : p \in Unspent(chain)} <=> Open(t, chain) # {}
           /\ Open(t, chain) # {} => t \in Txs(chain)
           /\ \A k : k \in Open(t, chain) <=>
                 /\ t \in Txs(chain) /\ k \in DOMAIN t.outs
                 /\ \A tx \in Txs(chain) : Outpoint(t, k) \notin ToSet(tx.ins)
<1>1. OnChain(chain) = Txs(chain)
  BY WalkMeetsTheChain
<1>2. \A s, k, r, l : Outpoint(s, k) = Outpoint(r, l) <=> s = r /\ k = l
  BY DEF Outpoint
<1>3. \A p : p \in Unspent(chain) <=>
        /\ \E tx \in Txs(chain) : \E k \in DOMAIN tx.outs : p = Outpoint(tx, k)
        /\ \A tx \in Txs(chain) : p \notin ToSet(tx.ins)
  <2>. DEFINE U == UNION {{Outpoint(tx, k) : k \in DOMAIN tx.outs} : tx \in Txs(chain)}
  <2>1. \A p : p \in U <=> \E tx \in Txs(chain) : \E k \in DOMAIN tx.outs : p = Outpoint(tx, k)
    OBVIOUS
  <2>2. Unspent(chain) = {p \in U : \A tx \in Txs(chain) : p \notin ToSet(tx.ins)}
    BY <1>1 DEF Unspent
  <2>. HIDE DEF U
  <2>. QED
    BY <2>1, <2>2
<1>4. \A k : k \in Open(t, chain) <=> k \in DOMAIN t.outs /\ Outpoint(t, k) \in Unspent(chain)
  BY DEF Open
<1>5. \A k : k \in Open(t, chain) <=>
        /\ t \in Txs(chain) /\ k \in DOMAIN t.outs
        /\ \A tx \in Txs(chain) : Outpoint(t, k) \notin ToSet(tx.ins)
  BY <1>2, <1>3, <1>4
<1>6. ASSUME NEW p \in Unspent(chain), t = p.tx PROVE Open(t, chain) # {}
  <2>1. PICK tx \in Txs(chain) : \E k \in DOMAIN tx.outs : p = Outpoint(tx, k)
    BY <1>3
  <2>2. PICK k \in DOMAIN tx.outs : p = Outpoint(tx, k)
    BY <2>1
  <2>3. tx = t
    BY <1>6, <2>2 DEF Outpoint
  <2>. QED
    BY <1>4, <2>2, <2>3
<1>7. ASSUME NEW k \in Open(t, chain) PROVE t \in {p.tx : p \in Unspent(chain)}
  <2>1. Outpoint(t, k) \in Unspent(chain) /\ Outpoint(t, k).tx = t
    BY <1>4 DEF Outpoint
  <2>. QED
    BY <2>1
<1>. QED
  BY <1>5, <1>6, <1>7

LEMMA UpdateIsReindexOfInv == UtxoInv => UpdateIsReindex
<1>. SUFFICES ASSUME UtxoInv, UpToDate, NEW next \in blocks, Front(next) = tip,
                     NoRepeats(next), Updatable(next[Len(next)])
              PROVE  Update(index, next[Len(next)]) = FindUTXO(next)
  BY DEF UpdateIsReindex
<1>1. IsChain(next) /\ next # <<>>
  BY FoundType DEF UtxoInv, UtxoTypes
<1>2. PICK l, b, s : l = next /\ b = next[Len(next)] /\ s = tip
  OBVIOUS
<1>last. PICK m \in Nat : Len(l) = m + 1 /\ b = l[m + 1] /\ s = SubSeq(l, 1, m)
  <2>1. Len(next) \in Nat /\ Len(next) # 0
    BY <1>1, EmptySeq DEF IsChain
  <2>2. PICK m \in Nat : Len(next) = m + 1 /\ m = Len(next) - 1
    BY <2>1
  <2>3. tip = SubSeq(next, 1, m)
    BY <2>2 DEF Front
  <2>. QED
    BY <1>2, <2>2, <2>3
<1>3. /\ IsChain(s) /\ DOMAIN s = 1..m /\ \A x \in 1..m : s[x] = l[x]
      /\ IsChain(l) /\ DOMAIN l = 1..(m + 1)
      /\ NoRepeats(s) /\ NoRepeats(l)
  <2>1. m \in 0..Len(l) /\ m + 1 \in 0..Len(l) /\ m \in 0..(m + 1)
    BY <1>last
  <2>2. IsChain(l) /\ DOMAIN l = 1..(m + 1)
    BY <1>last, <1>1, <1>2, ChainOfTxs
  <2>3. SubSeq(l, 1, m + 1) = l
    <3>1. PICK S : l \in Seq(S)
      BY <2>2 DEF IsChain
    <3>. QED
      BY <1>last, <3>1
  <2>. QED
    BY <1>last, <1>2, <2>1, <2>2, <2>3, PrefixIsChain, PrefixNoRepeats
<1>4. ExactBefore
  BY <1>2, <1>3 DEF ExactBefore
<1>5. 1..(m + 1) = (1..m) \cup {m + 1} /\ m + 1 \notin 1..m
  BY <1>last
<1>6. l[m + 1] = b /\ \A x \in 1..m : l[x] = s[x]
  BY <1>last, <1>3
<1>7. Txs(l) = Txs(s) \cup ToSet(b)
  BY <1>3, <1>5, <1>6 DEF Txs
<1>8. Txs(s) \cap ToSet(b) = {}
  <2>1. \A x \in 1..m : x \in DOMAIN l /\ x # m + 1
    BY <1>3, <1>5
  <2>2. m + 1 \in DOMAIN l
    BY <1>3, <1>5
  <2>3. \A x \in 1..m : ToSet(l[x]) \cap ToSet(l[m + 1]) = {}
    BY <1>3, <2>1, <2>2 DEF NoRepeats
  <2>4. \A x \in 1..m : ToSet(s[x]) \cap ToSet(b) = {}
    BY <1>6, <2>3
  <2>. QED
    BY <1>3, <2>4 DEF Txs
<1>9. \A tx \in Txs(l) : \A p \in ToSet(tx.ins) : p.tx \in Txs(s)
  <2>. SUFFICES ASSUME NEW x \in 1..(m + 1), NEW tx \in ToSet(l[x]), NEW p \in ToSet(tx.ins)
                PROVE  p.tx \in Txs(s)
    BY <1>3 DEF Txs
  <2>1. PICK d \in 1..(x - 1) : p.tx \in ToSet(l[d])
    BY <1>3 DEF IsChain
  <2>2. d \in 1..m
    BY <1>1
  <2>. QED
    BY <1>3, <1>6, <2>1, <2>2 DEF Txs
<1>10. \A t : Positions(t) = Open(t, s)
  BY <1>2 DEF Positions, Open
<1>11. \A t : t \in DOMAIN index <=> Positions(t) # {}
  <2>1. DOMAIN index = {p.tx : p \in Unspent(s)}
    BY <1>2, <1>4, IndexWithoutRepeats DEF ExactBefore
  <2>. QED
    BY <1>3, <1>10, <2>1, HasOpen
<1>12. /\ b \in Seq(ToSet(b))
       /\ \A tx \in ToSet(b) :
             /\ tx.ins \in Seq(ToSet(tx.ins)) /\ tx \notin DOMAIN index
             /\ \A p \in ToSet(tx.ins) : p = Outpoint(p.tx, p.out)
  <2>1. \A tx \in ToSet(b) : tx \notin DOMAIN index
    BY <1>3, <1>8, <1>10, <1>11, HasOpen
  <2>. QED
    BY <1>1, <1>2, <2>1 DEF IsChain
<1>13. Update(index, b) = Updated(SpentIn(b), ToSet(b))
  BY <1>2, <1>4, <1>12, BlockIsUpdated
<1>14. PICK F : /\ F = FindUTXO(l) /\ F = [t \in DOMAIN F |-> F[t]]
                /\ \A t : t \in DOMAIN F <=> Open(t, l) # {}
                /\ \A t \in DOMAIN F : F[t] = Chosen(t.outs, Open(t, l))
  <2>1. /\ FindUTXO(l) \in Utxos(l)
        /\ DOMAIN FindUTXO(l) = {p.tx : p \in Unspent(l)}
        /\ \A t \in DOMAIN FindUTXO(l) : FindUTXO(l)[t] = Chosen(t.outs, Open(t, l))
    BY <1>3, FindUTXOIsRight
  <2>. QED
    BY <1>3, <2>1, HasOpen, UtxosType
<1>15. ASSUME NEW t \in ToSet(b)
       PROVE  Open(t, l) # {} /\ Chosen(t.outs, Open(t, l)) = t.outs
  <2>1. t \in Txs(l) /\ t \notin Txs(s)
    BY <1>7, <1>8
  <2>2. \A k : Outpoint(t, k).tx = t
    BY DEF Outpoint
  <2>3. \A k : k \in Open(t, l) <=> k \in DOMAIN t.outs
    BY <1>3, <1>9, <2>1, <2>2, HasOpen
  <2>4. Open(t, l) = DOMAIN t.outs
    BY <2>3 DEF Open
  <2>5. PICK outs \in Seq(Outs(l)) : outs = t.outs /\ outs # <<>>
    BY <1>3, <2>1, ListsOfTx
  <2>6. Chosen(outs, DOMAIN outs) = outs
    BY ChosenAll
  <2>7. DOMAIN outs # {}
    <3>1. Len(outs) \in Nat /\ Len(outs) # 0 /\ DOMAIN outs = 1..Len(outs)
      BY <2>5, EmptySeq
    <3>2. PICK n \in Nat : n = Len(outs)
      BY <3>1
    <3>3. 1 \in 1..n
      BY <3>1, <3>2
    <3>. QED
      BY <3>1, <3>2, <3>3
  <2>. QED
    BY <2>4, <2>5, <2>6, <2>7
<1>16. ASSUME NEW t, t \notin ToSet(b)
       PROVE  Open(t, l) = Left(t, SpentIn(b))
  <2>1. \A p : p \in SpentIn(b) <=> \E tx \in ToSet(b) : p \in ToSet(tx.ins)
    BY DEF SpentIn
  <2>2. \A k : k \in Open(t, l) <=> /\ k \in Open(t, s) /\ Outpoint(t, k) \notin SpentIn(b)
    BY <1>3, <1>7, <1>16, <2>1, HasOpen
  <2>. QED
    BY <1>10, <2>2 DEF Left, Open
<1>17. \A t : Left(t, SpentIn(b)) \subseteq Positions(t)
  BY DEF Left
<1>. DEFINE D == {t \in DOMAIN index : Left(t, SpentIn(b)) # {}} \cup ToSet(b)
<1>18. \A t : t \in D <=> t \in DOMAIN F
  BY <1>11, <1>14, <1>15, <1>16, <1>17
<1>19. D = DOMAIN F
  <2>. HIDE DEF D
  <2>. QED
    BY <1>18
<1>20. Updated(SpentIn(b), ToSet(b))
         = [t \in D |-> IF t \in ToSet(b) THEN t.outs ELSE Chosen(t.outs, Left(t, SpentIn(b)))]
  BY DEF Updated
<1>. HIDE DEF D
<1>21. \A t \in D : F[t] = IF t \in ToSet(b) THEN t.outs ELSE Chosen(t.outs, Left(t, SpentIn(b)))
  BY <1>14, <1>15, <1>16, <1>19
<1>22. Updated(SpentIn(b), ToSet(b)) = F
  BY <1>14, <1>19, <1>20, <1>21
<1>. QED
  BY <1>2, <1>13, <1>14, <1>22

\* Update and Reindex are two ways to the same index, for any chains: where the
\* entries have no gaps and a block spends one output of a transaction at most.
THEOREM UpdateIsAlwaysReindex == Spec => []UpdateIsReindex
BY UtxoInvariance, UpdateIsReindexOfInv, PTL
==========================================================================
