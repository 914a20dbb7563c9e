------------------------- MODULE BlockSync_proofs -------------------------
(***************************************************************************)
(* Theorems about BlockSync, for any number of nodes, any tree of blocks,  *)
(* any tips to begin with and any number of starts and crashes.            *)
(***************************************************************************)
EXTENDS BlockSync, Basics_proofs

--------------------------------------------------------------------------
(* Walks. *)

\* What holds for a block if it holds for its parent holds for all of them.
LEMMA AncestorInduction ==
    ASSUME NEW S \in SUBSET Hash,
           \A h \in Hash : (PrevHash[h] = NoHash \/ PrevHash[h] \in S) => h \in S
    PROVE  S = Hash
<1>1. SUFFICES ASSUME Hash \ S # {} PROVE FALSE
  OBVIOUS
<1>2. PICK h \in Hash \ S : PrevHash[h] \notin Hash \ S
  <2>1. Hash \ S \in SUBSET Hash
    OBVIOUS
  <2>. QED
    BY <1>1, <2>1, WalksEnd
<1>. QED
  BY <1>2, BlockAssumption

\* The walk of a block is the block and the walk of its parent.
LEMMA BlockHashesStep ==
    /\ BlockHashes \in [Hash -> Seq(Hash)]
    /\ \A h \in Hash :
         BlockHashes[h] = <<h>> \o (IF PrevHash[h] = NoHash THEN <<>>
                                    ELSE BlockHashes[PrevHash[h]])
<1>. DEFINE A == Seq(Hash)
            Closed(R) == \A h \in Hash :
                           /\ PrevHash[h] = NoHash => <<h, <<h>> \o <<>> >> \in R
                           /\ \A s \in A : <<PrevHash[h], s>> \in R => <<h, <<h>> \o s>> \in R
            Q == {x \in Hash \X A : \A R \in SUBSET (Hash \X A) : Closed(R) => x \in R}
            One == {h \in Hash : \E s \in A : /\ <<h, s>> \in Q
                                              /\ \A t \in A : <<h, t>> \in Q => t = s}
<1>1. \A h \in Hash, s \in A : <<h>> \o s \in A
  OBVIOUS
<1>2. Closed(Q)
  <2>1. ASSUME NEW h \in Hash, PrevHash[h] = NoHash PROVE <<h, <<h>> \o <<>> >> \in Q
    BY <1>1, <2>1
  <2>2. ASSUME NEW h \in Hash, NEW s \in A, <<PrevHash[h], s>> \in Q PROVE <<h, <<h>> \o s>> \in Q
    BY <1>1, <2>2
  <2>. QED
    BY <2>1, <2>2
\* If all the walks of the parent are s, then one of h that is not <<h>> \o s is in
\* no need of being there.
<1>3. ASSUME NEW h \in Hash, NEW w \in A, <<h, w>> \in Q,
             PrevHash[h] = NoHash => w = <<h>> \o <<>>,
             NEW t \in A, <<h, t>> \in Q,
             \A s \in A : <<PrevHash[h], s>> \in Q => w = <<h>> \o s
      PROVE  t = w
  <2>. DEFINE R == Q \ {<<h, t>>}
  <2>1. SUFFICES ASSUME t # w PROVE FALSE
    OBVIOUS
  <2>2. R \in SUBSET (Hash \X A) /\ <<h, t>> \notin R
    OBVIOUS
  <2>3. Closed(R)
    <3>1. ASSUME NEW k \in Hash, PrevHash[k] = NoHash PROVE <<k, <<k>> \o <<>> >> \in R
      BY <1>2, <1>3, <2>1, <3>1
    <3>2. ASSUME NEW k \in Hash, NEW s \in A, <<PrevHash[k], s>> \in R PROVE <<k, <<k>> \o s>> \in R
      BY <1>2, <1>3, <2>1, <3>2
    <3>. QED
      BY <3>1, <3>2
  <2>. QED
    BY <1>3, <2>2, <2>3
<1>4. One = Hash
  <2>1. ASSUME NEW h \in Hash, PrevHash[h] = NoHash PROVE h \in One
    <3>1. <<h>> \o <<>> \in A /\ <<h, <<h>> \o <<>> >> \in Q
      BY <1>1, <1>2, <2>1
    <3>2. \A s \in A : <<PrevHash[h], s>> \notin Q
      BY <2>1, BlockAssumption
    <3>. HIDE DEF Q
    <3>. QED
      BY <1>3, <2>1, <3>1, <3>2
  <2>2. ASSUME NEW h \in Hash, PrevHash[h] \in One PROVE h \in One
    <3>1. PICK s \in A : /\ <<PrevHash[h], s>> \in Q
                         /\ \A t \in A : <<PrevHash[h], t>> \in Q => t = s
      BY <2>2
    <3>2. <<h>> \o s \in A /\ <<h, <<h>> \o s>> \in Q
      BY <1>1, <1>2, <3>1
    <3>3. PrevHash[h] # NoHash
      BY <2>2, BlockAssumption
    <3>. QED
      BY <1>3, <3>1, <3>2, <3>3
  <2>3. One \in SUBSET Hash
    OBVIOUS
  <2>. HIDE DEF One
  <2>. QED
    BY <2>1, <2>2, <2>3, AncestorInduction
<1>. DEFINE walk(h) == CHOOSE s \in A : <<h, s>> \in Q
            f == [h \in Hash |-> walk(h)]
<1>5. \A h \in Hash : /\ f[h] \in A /\ <<h, f[h]>> \in Q
                      /\ \A t \in A : <<h, t>> \in Q => t = f[h]
  <2>. HIDE DEF Q, A
  <2>. QED
    BY <1>4
<1>6. \A h \in Hash : f[h] = <<h>> \o (IF PrevHash[h] = NoHash THEN <<>> ELSE f[PrevHash[h]])
  <2>. TAKE h \in Hash
  <2>. DEFINE w == <<h>> \o (IF PrevHash[h] = NoHash THEN <<>> ELSE f[PrevHash[h]])
  <2>1. <<h, w>> \in Q /\ w \in A
    <3>. HIDE DEF f, Q
    <3>1. CASE PrevHash[h] = NoHash
      BY <1>1, <1>2, <3>1
    <3>2. CASE PrevHash[h] \in Hash
      BY <1>1, <1>2, <1>5, <3>2, BlockAssumption
    <3>. QED
      BY <3>1, <3>2, BlockAssumption
  <2>. HIDE DEF f, Q, w
  <2>2. w = f[h]
    BY <1>5, <2>1
  <2>. QED
    BY <2>2 DEF w
<1>. DEFINE Path(g) == [h \in Hash |-> <<h>> \o (IF PrevHash[h] = NoHash THEN <<>> ELSE g[PrevHash[h]])]
<1>7. f = Path(f)
  <2>1. f = [h \in Hash |-> f[h]]
    <3>. HIDE DEF walk
    <3>. QED
      OBVIOUS
  <2>. HIDE DEF f
  <2>. QED
    BY <1>6, <2>1
<1>8. BlockHashes = Path(BlockHashes)
  <2>1. BlockHashes = CHOOSE g : g = Path(g)
    BY DEF BlockHashes
  <2>. HIDE DEF f, Path
  <2>. QED
    BY <1>7, <2>1
<1>9. \A h \in Hash : BlockHashes[h] =
           <<h>> \o (IF PrevHash[h] = NoHash THEN <<>> ELSE BlockHashes[PrevHash[h]])
  BY <1>8
<1>10. BlockHashes = [h \in Hash |-> BlockHashes[h]]
  BY <1>8
<1>11. {h \in Hash : BlockHashes[h] \in A} = Hash
  <2>. DEFINE S == {h \in Hash : BlockHashes[h] \in A}
  <2>1. ASSUME NEW h \in Hash, PrevHash[h] = NoHash \/ PrevHash[h] \in S PROVE h \in S
    <3>1. CASE PrevHash[h] = NoHash
      <4>1. <<>> \in A
        OBVIOUS
      <4>2. (IF PrevHash[h] = NoHash THEN <<>> ELSE BlockHashes[PrevHash[h]]) \in A
        BY <3>1, <4>1
      <4>. HIDE DEF A
      <4>. QED
        BY <1>1, <1>9, <4>2
    <3>2. CASE PrevHash[h] # NoHash
      <4>1. PrevHash[h] \in S /\ BlockHashes[PrevHash[h]] \in A
        BY <2>1, <3>2
      <4>. HIDE DEF A
      <4>. QED
        BY <1>1, <1>9, <3>2, <4>1
    <3>. QED
      BY <3>1, <3>2
  <2>2. S \in SUBSET Hash
    OBVIOUS
  <2>. HIDE DEF S
  <2>3. S = Hash
    BY <2>1, <2>2, AncestorInduction
  <2>. QED
    BY <2>3 DEF S
<1>. QED
  <2>. HIDE DEF A
  <2>1. BlockHashes \in [Hash -> A]
    BY <1>10, <1>11
  <2>. QED
    BY <1>9, <2>1 DEF A

\* The walk of a block and the rest of it, as lists of hashes.
LEMMA WalkRest ==
    ASSUME NEW h \in Hash, NEW s,
           s = IF PrevHash[h] = NoHash THEN <<>> ELSE BlockHashes[PrevHash[h]]
    PROVE  s \in Seq(Hash) /\ BlockHashes[h] \in Seq(Hash) /\ BlockHashes[h] = <<h>> \o s
<1>1. s \in Seq(Hash)
  <2>1. CASE PrevHash[h] = NoHash
    BY <2>1
  <2>2. CASE PrevHash[h] \in Hash /\ PrevHash[h] # NoHash
    BY <2>2, BlockHashesStep
  <2>. QED
    BY <2>1, <2>2, BlockAssumption
<1>2. BlockHashes[h] \in Seq(Hash) /\ BlockHashes[h] = <<h>> \o s
  BY BlockHashesStep
<1>. QED
  BY <1>1, <1>2

\* What a block's ancestry is: itself and the ancestry of its parent.  With a block
\* it contains all of that block's ancestry.
LEMMA AncestryStep ==
    /\ Ancestry \in [Hash -> SUBSET Hash]
    /\ \A h \in Hash :
         Ancestry[h] = {h} \cup (IF PrevHash[h] = NoHash THEN {} ELSE Ancestry[PrevHash[h]])
<1>1. ASSUME NEW s \in Seq(Hash), NEW h \in Hash
      PROVE  {(<<h>> \o s)[i] : i \in DOMAIN (<<h>> \o s)} = {h} \cup {s[i] : i \in DOMAIN s}
  <2>. DEFINE t == <<h>> \o s
  <2>1. /\ t \in Seq(Hash) /\ Len(t) = Len(s) + 1 /\ t[1] = h
        /\ \A i \in 1..Len(s) : t[i + 1] = s[i]
        /\ DOMAIN t = 1..Len(t) /\ DOMAIN s = 1..Len(s) /\ Len(s) \in Nat
    OBVIOUS
  <2>. HIDE DEF t
  <2>2. {t[i] : i \in DOMAIN t} \subseteq {h} \cup {s[i] : i \in DOMAIN s}
    <3>1. ASSUME NEW i \in 1..Len(t), i # 1 PROVE t[i] \in {s[k] : k \in 1..Len(s)}
      <4>1. i - 1 \in 1..Len(s) /\ t[(i - 1) + 1] = s[i - 1] /\ (i - 1) + 1 = i
        BY <2>1, <3>1
      <4>. QED
        BY <4>1
    <3>. QED
      BY <2>1, <3>1
  <2>3. {h} \cup {s[i] : i \in DOMAIN s} \subseteq {t[i] : i \in DOMAIN t}
    <3>1. 1 \in DOMAIN t /\ \A i \in 1..Len(s) : i + 1 \in DOMAIN t
      BY <2>1
    <3>. QED
      BY <2>1, <3>1
  <2>. QED
    BY <2>2, <2>3 DEF t
<1>2. ASSUME NEW h \in Hash
      PROVE  /\ Ancestry[h] \in SUBSET Hash
             /\ Ancestry[h] = {h} \cup (IF PrevHash[h] = NoHash THEN {}
                                      ELSE Ancestry[PrevHash[h]])
  <2>. DEFINE s == IF PrevHash[h] = NoHash THEN <<>> ELSE BlockHashes[PrevHash[h]]
  <2>1. s \in Seq(Hash) /\ BlockHashes[h] \in Seq(Hash) /\ BlockHashes[h] = <<h>> \o s
    BY WalkRest
  <2>2. Ancestry[h] = {BlockHashes[h][i] : i \in DOMAIN BlockHashes[h]}
    BY DEF Ancestry
  <2>3. Ancestry[h] = {h} \cup {s[i] : i \in DOMAIN s}
    <3>. HIDE DEF s
    <3>1. {(<<h>> \o s)[i] : i \in DOMAIN (<<h>> \o s)} = {h} \cup {s[i] : i \in DOMAIN s}
      BY <1>1, <2>1
    <3>. QED
      BY <2>1, <2>2, <3>1
  <2>4. {s[i] : i \in DOMAIN s} = IF PrevHash[h] = NoHash THEN {} ELSE Ancestry[PrevHash[h]]
    <3>1. CASE PrevHash[h] = NoHash
      BY <3>1
    <3>2. CASE PrevHash[h] \in Hash /\ PrevHash[h] # NoHash
      BY <3>2 DEF Ancestry
    <3>. QED
      BY <3>1, <3>2, BlockAssumption
  <2>5. \A i \in DOMAIN BlockHashes[h] : BlockHashes[h][i] \in Hash
    BY <2>1
  <2>. HIDE DEF s
  <2>. QED
    BY <2>2, <2>3, <2>4, <2>5
<1>. QED
  BY <1>2 DEF Ancestry

LEMMA AncestryTransitive ==
    ASSUME NEW h \in Hash, NEW b \in Ancestry[h]
    PROVE  b \in Hash /\ Ancestry[b] \subseteq Ancestry[h]
<1>. DEFINE S == {k \in Hash : \A a \in Ancestry[k] : Ancestry[a] \subseteq Ancestry[k]}
<1>1. ASSUME NEW k \in Hash, PrevHash[k] = NoHash \/ PrevHash[k] \in S PROVE k \in S
  <2>1. CASE PrevHash[k] = NoHash
    BY <2>1, AncestryStep
  <2>2. CASE PrevHash[k] \in S
    <3>1. PrevHash[k] # NoHash /\ Ancestry[k] = {k} \cup Ancestry[PrevHash[k]]
      BY <2>2, AncestryStep, BlockAssumption
    <3>. QED
      BY <2>2, <3>1
  <2>. QED
    BY <1>1, <2>1, <2>2
<1>2. S = Hash
  <2>1. S \in SUBSET Hash
    OBVIOUS
  <2>. HIDE DEF S
  <2>. QED
    BY <1>1, <2>1, AncestorInduction
<1>. QED
  BY <1>2, AncestryStep

\* A walk is a list of hashes that starts with its block and lists its ancestry.
LEMMA WalkListsAncestry ==
    ASSUME NEW h \in Hash
    PROVE  /\ BlockHashes[h] \in Seq(Hash)
           /\ BlockHashes[h] # <<>>
           /\ BlockHashes[h][1] = h
           /\ Ancestry[h] = {BlockHashes[h][i] : i \in DOMAIN BlockHashes[h]}
<1>. DEFINE s == IF PrevHash[h] = NoHash THEN <<>> ELSE BlockHashes[PrevHash[h]]
<1>1. s \in Seq(Hash) /\ BlockHashes[h] \in Seq(Hash) /\ BlockHashes[h] = <<h>> \o s
  BY WalkRest
<1>. HIDE DEF s
<1>2. (<<h>> \o s)[1] = h /\ <<h>> \o s # <<>>
  BY <1>1
<1>. QED
  BY <1>1, <1>2 DEF Ancestry
--------------------------------------------------------------------------
(***************************************************************************)
(* The inductive invariant.                                                *)
(***************************************************************************)

\* The blocks on n's list, and those that n has requested or that are on their
\* way to it.
Listed(n) == ToSet(transit[n])
Expecting(n, j) == (j.from = n /\ j.pc = "getdata") \/ (j.at = n /\ j.pc = "block")
Expected(n) == {j.items[1] : j \in {j \in BagToSet(jobs) : Expecting(n, j)}}
Known(n) == stored[n] \cup Listed(n) \cup Expected(n)

\* The connections of a download fall into two kinds.  One is the download itself:
\* the request, its answer, the goroutine that stores it and requests the next one,
\* or rebuilds the index.  The other is a goroutine that has requested a block which
\* it has yet to take off the list.
Bearer(n, j) == OfDownload(n, j) /\ j.pc \in {"getdata", "block", "next", "index"}
Laggard(n, j) == j.at = n /\ j.pc \in {"filter", "pop"}

\* The node that the blocks of a download come from.
Source(j) == IF j.pc = "getdata" THEN j.at ELSE j.from

\* What a message says is about blocks, and an inventory lists blocks of its sender.
Sensible(j) ==
    /\ j.pc \in {"getdata", "block", "filter"} => \E b \in Hash : j.items = <<b>>
    /\ j.pc = "inv" => \E h \in Hash : /\ j.items = BlockHashes[h]
                                       /\ Ancestry[h] \subseteq stored[j.from]
JobInv == \A j \in BagToSet(jobs) : Sensible(j)

\* An undisturbed download is borne by one connection, and at most one goroutine
\* is behind with the list.
OneBearer(n) ==
    \A j, k \in BagToSet(jobs) : Bearer(n, j) /\ Bearer(n, k) => j = k /\ jobs[j] = 1
OneLaggard(n) ==
    \A j, k \in BagToSet(jobs) : Laggard(n, j) /\ Laggard(n, k) => j = k /\ jobs[j] = 1

\* The node it comes from has all the blocks on the list.
SourceHasList(n) ==
    \A j \in BagToSet(jobs) :
        Bearer(n, j) /\ j.pc # "index" => Listed(n) \subseteq stored[Source(j)]

\* The block to be taken off the list has been requested: it is not lost with that.
LaggardIsRight(n) ==
    \A j \in BagToSet(jobs) : Laggard(n, j) =>
        /\ j.pc = "filter" => j.items[1] \in stored[n] \cup Expected(n)
        /\ j.pc = "pop" => transit[n] # <<>> /\ transit[n][1] \in stored[n] \cup Expected(n)

\* No gap in the chain of n, nor below a block that comes, is out of sight.
NoGap(n) ==
    /\ Ancestry[lh[n]] \subseteq Known(n)
    /\ \A b \in Listed(n) \cup Expected(n) : Ancestry[b] \subseteq Known(n)

\* Nothing is left to do when the index is rebuilt, or when nobody bears a download.
NothingLeft(n) == transit[n] = <<>> /\ \A j \in BagToSet(jobs) : ~Laggard(n, j)
IndexingIsLast(n) ==
    \A j \in BagToSet(jobs) : Bearer(n, j) /\ j.pc = "index" => NothingLeft(n)
BornUntilDone(n) ==
    (\A j \in BagToSet(jobs) : ~Bearer(n, j)) => NothingLeft(n) /\ indexed[n] = lh[n]

DownloadInv(n) ==
    /\ OneBearer(n)
    /\ OneLaggard(n)
    /\ SourceHasList(n)
    /\ LaggardIsRight(n)
    /\ NoGap(n)
    /\ IndexingIsLast(n)
    /\ BornUntilDone(n)

IInv ==
    /\ TypeOK
    /\ JobInv
    /\ RequestsAreAnswered
    /\ \A n \in Node : up[n] /\ clean[n] => DownloadInv(n)

--------------------------------------------------------------------------
(* Connections. *)

\* What a connection consists of.
LEMMA NewJob ==
    ASSUME NEW n, NEW from, NEW pc, NEW items
    PROVE  \E k : /\ k = Job(n, from, pc, items)
                  /\ k.at = n /\ k.from = from /\ k.pc = pc /\ k.items = items
<1>1. /\ Job(n, from, pc, items).at = n /\ Job(n, from, pc, items).from = from
      /\ Job(n, from, pc, items).pc = pc /\ Job(n, from, pc, items).items = items
  BY DEF Job
<1>. QED
  BY <1>1

LEMMA JobType ==
    ASSUME NEW n \in Node, NEW from \in Node, NEW pc \in Command \cup Place,
           NEW items \in Seq(Hash)
    PROVE  /\ Job(n, from, pc, items) \in Connection
           /\ Job(n, from, pc, items).at = n /\ Job(n, from, pc, items).from = from
           /\ Job(n, from, pc, items).pc = pc /\ Job(n, from, pc, items).items = items
BY DEF Job, Connection

\* The connections after one of them is replaced.
LEMMA Replaced ==
    ASSUME TypeOK, NEW j \in BagToSet(jobs), NEW S, Replace(j, S)
    PROVE  /\ IsABag(jobs')
           /\ BagToSet(jobs') = {k \in BagToSet(jobs) : k # j \/ jobs[j] > 1} \cup S
           /\ \A k \in BagToSet(jobs) \ (S \cup {j}) : jobs'[k] = jobs[k]
           /\ \A k \in S \ BagToSet(jobs) : jobs'[k] = 1
<1>1. IsABag(jobs)
  BY DEF TypeOK
<1>2. Replacement(jobs, j, S, jobs')
  BY DEF Replace, Replacement
<1>. QED
  BY <1>1, <1>2, BagReplace

\* New connections to nodes that are up keep the types.
JobsOK == /\ IsABag(jobs)
          /\ BagToSet(jobs) \subseteq Connection
          /\ \A j \in BagToSet(jobs) : up[j.at]

LEMMA ReplaceType ==
    ASSUME TypeOK, NEW j \in BagToSet(jobs), NEW S, Replace(j, S),
           S \subseteq Connection, \A k \in S : up[k.at], up' = up
    PROVE  JobsOK'
BY Replaced DEF TypeOK, JobsOK

LEMMA DialledType ==
    ASSUME NEW msg \in Connection
    PROVE  Dialled(msg) \subseteq Connection /\ \A k \in Dialled(msg) : up[k.at]
BY DEF Dialled

\* When a process ends, the connections left are those to other nodes.
LEMMA EndsJobs ==
    ASSUME TypeOK, NEW n \in Node, NEW cause, Ends(n, cause)
    PROVE  /\ BagToSet(jobs') = {j \in BagToSet(jobs) : j.at # n}
           /\ \A j \in BagToSet(jobs') : jobs'[j] = jobs[j]
           /\ IsABag(jobs')
<1>. DEFINE S == {j \in BagToSet(jobs) : j.at # n}
            gone == {j \in BagToSet(jobs) : j.at = n}
<1>1. S = BagToSet(jobs) \ gone
  OBVIOUS
<1>2. jobs' = [j \in BagToSet(jobs) \ gone |-> jobs[j]]
  BY DEF Ends
<1>3. IsABag(jobs)
  BY DEF TypeOK
<1>4. S \in SUBSET BagToSet(jobs) /\ jobs' = [j \in S |-> jobs[j]]
  BY <1>1, <1>2
<1>. HIDE DEF S, gone
<1>5. IsABag(jobs') /\ BagToSet(jobs') = S /\ \A k \in S : jobs'[k] = jobs[k]
  BY <1>3, <1>4, BagPart
<1>. QED
  BY <1>5 DEF S

--------------------------------------------------------------------------
(* Types. *)

LEMMA EndsType ==
    ASSUME TypeOK, NEW n \in Node, NEW cause \in Faults, Ends(n, cause)
    PROVE  TypeOK'
<1>1. JobsOK'
  <2>1. IsABag(jobs') /\ BagToSet(jobs') = {j \in BagToSet(jobs) : j.at # n}
    BY EndsJobs
  <2>2. \A j \in Connection : j.at \in Node
    BY DEF Connection
  <2>3. \A m \in Node : m # n => up'[m] = up[m]
    BY DEF TypeOK, Ends
  <2>. QED
    BY <2>1, <2>2, <2>3 DEF TypeOK, JobsOK
<1>2. clean' \in [Node -> BOOLEAN]
  <2>1. PICK lost : clean' = [m \in Node |-> clean[m] /\ m \notin lost]
    BY DEF Ends
  <2>2. \A m \in Node : (clean[m] /\ m \notin lost) \in BOOLEAN
    OBVIOUS
  <2>. QED
    BY <2>1, <2>2
<1>3. up' \in [Node -> BOOLEAN] /\ fault' \in [Node -> Faults]
  BY DEF Ends, TypeOK
<1>4. transit' \in [Node -> Seq(Hash)] /\ \A m \in Node : up'[m] \/ transit'[m] = <<>>
  <2>1. <<>> \in Seq(Hash)
    OBVIOUS
  <2>2. transit' = [transit EXCEPT ![n] = <<>>] /\ up' = [up EXCEPT ![n] = FALSE]
    BY DEF Ends
  <2>. QED
    BY <2>1, <2>2 DEF TypeOK
<1>5. UNCHANGED <<stored, lh, indexed, starts>>
  BY DEF Ends
<1>. QED
  BY <1>1, <1>2, <1>3, <1>4, <1>5 DEF TypeOK, JobsOK

LEMMA StartType ==
    ASSUME TypeOK, NEW n \in Node, Start(n)
    PROVE  TypeOK'
<1>1. JobsOK'
  <2>1. CASE n = Central
    BY <2>1 DEF Start, TypeOK, JobsOK
  <2>2. CASE n # Central
    <3>. DEFINE msg == Job(Central, n, "version", <<lh[n]>>)
    <3>1. msg \in Connection
      <4>1. <<lh[n]>> \in Seq(Hash)
        BY DEF TypeOK
      <4>. QED
        BY <4>1, JobType, SyncAssumption DEF Command
    <3>. HIDE DEF msg
    <3>2. Dialled(msg) \subseteq Connection /\ \A k \in Dialled(msg) : up[k.at]
      BY <3>1, DialledType
    <3>3. jobs' = jobs (+) SetToBag(Dialled(msg)) /\ IsABag(jobs)
      BY <2>2 DEF Start, TypeOK, msg
    <3>4. IsABag(jobs') /\ BagToSet(jobs') = BagToSet(jobs) \cup Dialled(msg)
      BY <3>3, BagAdd
    <3>5. \A m \in Node : up[m] => up'[m]
      BY DEF Start, TypeOK
    <3>6. \A k \in Connection : k.at \in Node
      BY DEF Connection
    <3>. QED
      BY <3>2, <3>4, <3>5, <3>6 DEF TypeOK, JobsOK
  <2>. QED
    BY <2>1, <2>2
<1>2. clean' \in [Node -> BOOLEAN] /\ up' \in [Node -> BOOLEAN] /\ starts' \in [Node -> Nat]
  BY DEF Start, TypeOK, Complete
<1>3. \A m \in Node : up'[m] \/ transit'[m] = <<>>
  BY DEF Start, TypeOK
<1>. QED
  BY <1>1, <1>2, <1>3 DEF Start, TypeOK, JobsOK

--------------------------------------------------------------------------
(* Steps that do not concern a download. *)

\* The download of p goes on as before if its connections, list, tip and index do,
\* however many blocks the other nodes get.
SameDownload(p) ==
    /\ transit'[p] = transit[p] /\ lh'[p] = lh[p]
    /\ indexed'[p] = indexed[p] /\ stored'[p] = stored[p]
    /\ \A q \in Node : stored[q] \subseteq stored'[q]
    /\ \A k : OfDownload(p, k) => /\ k \in BagToSet(jobs) <=> k \in BagToSet(jobs')
                                  /\ k \in BagToSet(jobs) => jobs'[k] = jobs[k]

LEMMA Undisturbed ==
    ASSUME TypeOK, NEW p \in Node, DownloadInv(p), SameDownload(p)
    PROVE  DownloadInv(p)'
<1>1. \A k : /\ Bearer(p, k) => OfDownload(p, k)
             /\ Laggard(p, k) => OfDownload(p, k)
             /\ Expecting(p, k) => OfDownload(p, k)
  BY DEF Bearer, Laggard, Expecting, OfDownload, Place
<1>2. Listed(p)' = Listed(p)
  BY DEF Listed, SameDownload
<1>3. Expected(p)' = Expected(p)
  BY <1>1 DEF Expected, SameDownload
<1>4. Known(p)' = Known(p)
  BY <1>2, <1>3 DEF Known, SameDownload
<1>5. OneBearer(p)' /\ OneLaggard(p)'
  BY <1>1 DEF DownloadInv, OneBearer, OneLaggard, SameDownload
<1>6. SourceHasList(p)'
  <2>1. \A k \in BagToSet(jobs) : Source(k) \in Node
    BY DEF TypeOK, Connection, Source
  <2>. QED
    BY <1>1, <1>2, <2>1 DEF DownloadInv, SourceHasList, SameDownload
<1>7. LaggardIsRight(p)'
  BY <1>1, <1>3 DEF DownloadInv, LaggardIsRight, SameDownload
<1>8. NoGap(p)'
  BY <1>2, <1>3, <1>4 DEF DownloadInv, NoGap, SameDownload
<1>9. NothingLeft(p)' <=> NothingLeft(p)
  BY <1>1 DEF NothingLeft, SameDownload
<1>10. IndexingIsLast(p)' /\ BornUntilDone(p)'
  BY <1>1, <1>9 DEF DownloadInv, IndexingIsLast, BornUntilDone, SameDownload
<1>. QED
  BY <1>5, <1>6, <1>7, <1>8, <1>10 DEF DownloadInv

LEMMA Elsewhere ==
    ASSUME TypeOK, NEW p \in Node, DownloadInv(p), NEW j \in BagToSet(jobs), NEW S,
           Replace(j, S), \A k \in S \cup {j} : ~OfDownload(p, k),
           transit'[p] = transit[p], lh'[p] = lh[p], indexed'[p] = indexed[p],
           stored'[p] = stored[p], \A q \in Node : stored[q] \subseteq stored'[q]
    PROVE  DownloadInv(p)'
<1>1. \A k : OfDownload(p, k) => /\ k \in BagToSet(jobs) <=> k \in BagToSet(jobs')
                                 /\ k \in BagToSet(jobs) => jobs'[k] = jobs[k]
  BY Replaced
<1>. QED
  BY <1>1, Undisturbed DEF SameDownload

\* What is said of messages stays true while stores grow.
LEMMA MessagesKept ==
    ASSUME TypeOK, JobInv, RequestsAreAnswered,
           \A q \in Node : stored[q] \subseteq stored'[q],
           \A k \in BagToSet(jobs') :
             \/ /\ k \in BagToSet(jobs)
                /\ k.pc = "getdata" /\ clean'[k.from] => clean[k.from]
             \/ /\ Sensible(k)'
                /\ k.pc = "getdata" /\ clean'[k.from] => k.items[1] \in stored'[k.at]
    PROVE  JobInv' /\ RequestsAreAnswered'
<1>1. \A k \in BagToSet(jobs) : k.at \in Node /\ k.from \in Node
  BY DEF TypeOK, Connection
<1>2. ASSUME NEW k \in BagToSet(jobs) PROVE Sensible(k)'
  BY <1>1, <1>2 DEF JobInv, Sensible
<1>3. JobInv'
  BY <1>2 DEF JobInv
<1>4. RequestsAreAnswered'
  BY <1>1 DEF RequestsAreAnswered
<1>. QED
  BY <1>3, <1>4

\* A process that ends takes the requests to it with it: whoever waits for an answer
\* is disturbed, nobody else is.
LEMMA EndsInv ==
    ASSUME IInv, NEW n \in Node, NEW cause \in Faults, Ends(n, cause)
    PROVE  IInv'
<1>1. TypeOK' /\ TypeOK
  BY EndsType DEF IInv
<1>2. /\ BagToSet(jobs') = {j \in BagToSet(jobs) : j.at # n}
      /\ \A j \in BagToSet(jobs') : jobs'[j] = jobs[j]
  BY <1>1, EndsJobs
<1>3. ASSUME NEW p \in Node, clean'[p]
      PROVE  clean[p] /\ \A j \in BagToSet(jobs) : j.at = n /\ j.from = p => j.pc \notin Request
  BY <1>3 DEF Ends
<1>4. UNCHANGED <<stored, lh, indexed>>
  BY DEF Ends
<1>5. JobInv' /\ RequestsAreAnswered'
  <2>1. \A k \in BagToSet(jobs) : k.from \in Node
    BY <1>1 DEF TypeOK, Connection
  <2>. QED
    BY <1>1, <1>2, <1>3, <1>4, <2>1, MessagesKept DEF IInv
<1>6. ASSUME NEW p \in Node, up'[p], clean'[p] PROVE DownloadInv(p)'
  <2>1. p # n /\ up[p] /\ transit'[p] = transit[p]
    BY <1>1, <1>6 DEF Ends, TypeOK
  <2>2. \A k : OfDownload(p, k) /\ k \in BagToSet(jobs) => k.at # n
    BY <1>3, <1>6, <2>1 DEF OfDownload, Request
  <2>3. SameDownload(p)
    BY <1>2, <1>4, <2>1, <2>2 DEF SameDownload
  <2>. QED
    BY <1>1, <1>3, <1>6, <2>1, <2>3, Undisturbed DEF IInv
<1>. QED
  BY <1>1, <1>5, <1>6 DEF IInv

\* A node that starts is clean if there is nothing to download and nothing left of a
\* download of before.
LEMMA StartInv ==
    ASSUME IInv, NEW n \in Node, Start(n)
    PROVE  IInv'
<1>1. TypeOK' /\ TypeOK
  BY StartType DEF IInv
<1>2. PICK msg : msg = Job(Central, n, "version", <<lh[n]>>) /\ msg.pc = "version"
  BY NewJob
<1>3. /\ BagToSet(jobs') \subseteq BagToSet(jobs) \cup {msg}
      /\ \A k \in BagToSet(jobs) : k # msg => k \in BagToSet(jobs') /\ jobs'[k] = jobs[k]
  <2>1. CASE n = Central
    BY <2>1 DEF Start
  <2>2. CASE n # Central
    <3>1. jobs' = jobs (+) SetToBag(Dialled(msg)) /\ IsABag(jobs) /\ Dialled(msg) \subseteq {msg}
      BY <1>2, <2>2 DEF Start, IInv, TypeOK, Dialled
    <3>. QED
      BY <3>1, BagAdd
  <2>. QED
    BY <2>1, <2>2
<1>4. UNCHANGED <<stored, lh, indexed, transit>>
  BY DEF Start
<1>5. \A p \in Node : p # n => clean'[p] = clean[p] /\ up'[p] = up[p]
  BY <1>1 DEF Start, TypeOK
<1>6. clean'[n] => Complete(n) /\ indexed[n] = lh[n] /\ ~Downloading(n)
  BY <1>1 DEF Start, TypeOK
<1>7. JobInv' /\ RequestsAreAnswered'
  <2>1. Sensible(msg)'
    BY <1>2 DEF Sensible
  <2>2. \A k \in BagToSet(jobs) : k.from \in Node
    BY <1>1 DEF TypeOK, Connection
  <2>3. \A k \in BagToSet(jobs) : k.pc = "getdata" /\ clean'[k.from] => clean[k.from]
    BY <1>5, <1>6, <2>2 DEF Downloading, OfDownload
  <2>. QED
    BY <1>1, <1>2, <1>3, <1>4, <2>1, <2>3, MessagesKept DEF IInv
<1>8. ASSUME NEW p \in Node, p # n, up'[p], clean'[p] PROVE DownloadInv(p)'
  <2>1. DownloadInv(p)
    BY <1>5, <1>8 DEF IInv
  <2>2. ~OfDownload(p, msg)
    BY <1>2 DEF OfDownload, Place
  <2>3. SameDownload(p)
    BY <1>3, <1>4, <2>2 DEF SameDownload
  <2>. QED
    BY <1>1, <2>1, <2>3, Undisturbed
<1>9. ASSUME clean'[n] PROVE DownloadInv(n)'
  <2>1. \A k \in BagToSet(jobs') : ~OfDownload(n, k)
    BY <1>2, <1>3, <1>6, <1>9 DEF Downloading, OfDownload, Place
  <2>2. \A k \in BagToSet(jobs') : ~Bearer(n, k) /\ ~Laggard(n, k) /\ ~Expecting(n, k)
    BY <2>1 DEF Bearer, Laggard, Expecting, OfDownload, Place
  <2>3. transit'[n] = <<>> /\ Listed(n)' = {} /\ Expected(n)' = {}
    <3>1. transit'[n] = <<>>
      BY <1>4, <1>6, <1>9 DEF Downloading
    <3>2. Listed(n)' = {}
      BY <3>1 DEF Listed, ToSet
    <3>. QED
      BY <2>2, <3>1, <3>2 DEF Expected
  <2>4. Ancestry[lh[n]] \subseteq stored[n] /\ indexed'[n] = lh'[n]
    BY <1>4, <1>6, <1>9 DEF Complete
  <2>5. NoGap(n)'
    BY <1>4, <2>3, <2>4 DEF NoGap, Known
  <2>6. NothingLeft(n)' /\ BornUntilDone(n)' /\ IndexingIsLast(n)'
    BY <2>2, <2>3, <2>4 DEF NothingLeft, BornUntilDone, IndexingIsLast
  <2>. QED
    BY <2>2, <2>5, <2>6 DEF DownloadInv, OneBearer, OneLaggard, SourceHasList, LaggardIsRight
<1>. QED
  BY <1>1, <1>7, <1>8, <1>9 DEF IInv

--------------------------------------------------------------------------
(* Handlers: messages about heights and inventories. *)

LEMMA StepType ==
    ASSUME TypeOK, NEW j \in BagToSet(jobs), NEW S, Replace(j, S),
           S \subseteq Connection, \A k \in S : up[k.at],
           UNCHANGED <<up, starts, fault>>,
           stored' \in [Node -> SUBSET Hash], lh' \in [Node -> Hash],
           indexed' \in [Node -> Hash \cup {NoHash}], transit' \in [Node -> Seq(Hash)],
           clean' \in [Node -> BOOLEAN], \A m \in Node : up[m] \/ transit'[m] = <<>>
    PROVE  TypeOK'
<1>1. JobsOK'
  BY ReplaceType
<1>. QED
  BY <1>1 DEF TypeOK, JobsOK

LEMMA JobFacts ==
    ASSUME TypeOK, NEW j \in BagToSet(jobs)
    PROVE  /\ j.at \in Node /\ j.from \in Node /\ up[j.at]
           /\ j.pc \in Command \cup Place /\ j.items \in Seq(Hash)
BY DEF TypeOK, Connection

\* A step that answers a message outside downloads with messages outside downloads.
LEMMA TalkInv ==
    ASSUME IInv, NEW j \in BagToSet(jobs), NEW S, Replace(j, S),
           j.pc \in {"version", "getblocks"}, S \subseteq Connection,
           \A k \in S : /\ up[k.at] /\ k.pc \in {"version", "getblocks", "inv"}
                        /\ Sensible(k)',
           UNCHANGED <<up, dbVars, transit, starts, fault>>,
           clean' \in [Node -> BOOLEAN], \A m \in Node : clean'[m] => clean[m]
    PROVE  IInv'
<1>1. TypeOK /\ UNCHANGED <<stored, lh, indexed>>
  BY DEF IInv, dbVars
<1>2. TypeOK'
  BY <1>1, StepType DEF TypeOK
<1>3. BagToSet(jobs') \subseteq BagToSet(jobs) \cup S
  BY <1>1, Replaced
<1>4. JobInv' /\ RequestsAreAnswered'
  <2>1. \A k \in BagToSet(jobs) : k.from \in Node
    BY <1>1, JobFacts
  <2>. QED
    BY <1>1, <1>3, <2>1, MessagesKept DEF IInv
<1>5. ASSUME NEW p \in Node, up'[p], clean'[p] PROVE DownloadInv(p)'
  <2>1. DownloadInv(p)
    BY <1>5 DEF IInv
  <2>2. \A k \in S \cup {j} : ~OfDownload(p, k)
    BY DEF OfDownload, Place
  <2>. QED
    BY <1>1, <2>1, <2>2, Elsewhere
<1>. QED
  BY <1>2, <1>4, <1>5 DEF IInv

LEMMA HandleVersionInv ==
    ASSUME IInv, NEW j \in BagToSet(jobs), HandleVersion(j.at, j)
    PROVE  IInv'
<1>1. TypeOK /\ j.at \in Node /\ j.from \in Node
  BY JobFacts DEF IInv
<1>. DEFINE G == Job(j.from, j.at, "getblocks", <<>>)
            V == Job(j.from, j.at, "version", <<lh[j.at]>>)
<1>2. PICK g : g = G /\ g.pc = "getblocks" /\ g \in Connection
  <2>1. <<>> \in Seq(Hash)
    OBVIOUS
  <2>2. G \in Connection /\ G.pc = "getblocks"
    BY <1>1, <2>1 DEF Job, Connection, Command
  <2>. HIDE DEF G
  <2>. QED
    BY <2>2
<1>3. PICK v : v = V /\ v.pc = "version" /\ v \in Connection
  <2>1. <<lh[j.at]>> \in Seq(Hash)
    BY <1>1 DEF TypeOK
  <2>2. V \in Connection /\ V.pc = "version"
    BY <1>1, <2>1 DEF Job, Connection, Command
  <2>. HIDE DEF V
  <2>. QED
    BY <2>2
<1>4. PICK S : /\ Replace(j, S) /\ S \subseteq {g, v} /\ \A k \in S : up[k.at]
  <2>1. \E S \in {Dialled(g), Dialled(v), {}} : Replace(j, S)
    BY <1>2, <1>3 DEF HandleVersion
  <2>. QED
    BY <2>1 DEF Dialled
<1>5. clean' \in [Node -> BOOLEAN] /\ \A m \in Node : clean'[m] => clean[m]
  BY <1>1 DEF HandleVersion, TypeOK
<1>6. \A k \in S : Sensible(k)'
  BY <1>2, <1>3, <1>4 DEF Sensible
<1>. QED
  BY <1>2, <1>3, <1>4, <1>5, <1>6, TalkInv DEF HandleVersion

LEMMA HandleGetBlocksInv ==
    ASSUME IInv, NEW j \in BagToSet(jobs), HandleGetBlocks(j.at, j)
    PROVE  IInv'
<1>1. TypeOK /\ j.at \in Node /\ j.from \in Node
  BY JobFacts DEF IInv
<1>2. CASE ~Complete(j.at)
  BY <1>1, <1>2, EndsInv DEF HandleGetBlocks, Faults
<1>3. CASE Complete(j.at)
  <2>. DEFINE V == Job(j.from, j.at, "inv", BlockHashes[lh[j.at]])
  <2>1. PICK v : /\ v = V /\ v \in Connection /\ v.pc = "inv" /\ v.from = j.at
                 /\ v.items = BlockHashes[lh[j.at]]
    <3>1. lh[j.at] \in Hash /\ BlockHashes[lh[j.at]] \in Seq(Hash)
      BY <1>1, WalkListsAncestry DEF TypeOK
    <3>2. /\ V \in Connection /\ V.pc = "inv" /\ V.from = j.at
          /\ V.items = BlockHashes[lh[j.at]]
      BY <1>1, <3>1, JobType DEF Command
    <3>. HIDE DEF V
    <3>. QED
      BY <3>2
  <2>2. /\ Replace(j, Dialled(v)) /\ j.pc = "getblocks"
        /\ UNCHANGED <<up, dbVars, transit, starts, fault, clean>>
    BY <1>3, <2>1 DEF HandleGetBlocks
  <2>3. Dialled(v) \subseteq {v} /\ \A k \in Dialled(v) : up[k.at]
    BY DEF Dialled
  <2>4. Sensible(v)'
    BY <1>1, <1>3, <2>1, <2>2 DEF Sensible, Complete, TypeOK, dbVars
  <2>5. clean' \in [Node -> BOOLEAN]
    BY <1>1, <2>2 DEF TypeOK
  <2>. QED
    BY <2>1, <2>2, <2>3, <2>4, <2>5, TalkInv
<1>. QED
  BY <1>2, <1>3

--------------------------------------------------------------------------
(* Handlers: steps of a download. *)

\* A step of the download of p disturbs no other one.
LEMMA OwnStep ==
    ASSUME IInv, NEW j \in BagToSet(jobs), NEW S, Replace(j, S), NEW p \in Node,
           S \subseteq Connection,
           \A k \in S : /\ up[k.at] /\ Sensible(k)'
                        /\ k.pc = "getdata" /\ clean'[k.from] => k.items[1] \in stored'[k.at],
           TypeOK',
           up' = up,
           \A q \in Node : stored[q] \subseteq stored'[q],
           \A q \in Node \ {p} :
             /\ \A k \in S \cup {j} : ~OfDownload(q, k)
             /\ transit'[q] = transit[q] /\ lh'[q] = lh[q] /\ indexed'[q] = indexed[q]
             /\ stored'[q] = stored[q]
             /\ clean'[q] => clean[q],
           clean'[p] => \/ clean[p]
                        \/ \A k \in BagToSet(jobs) : ~OfDownload(p, k),
           up[p] /\ clean'[p] => DownloadInv(p)'
    PROVE  IInv'
<1>1. TypeOK
  BY DEF IInv
<1>2. BagToSet(jobs') \subseteq BagToSet(jobs) \cup S
  BY <1>1, Replaced
<1>3. JobInv' /\ RequestsAreAnswered'
  <2>1. ASSUME NEW k \in BagToSet(jobs), k.pc = "getdata", clean'[k.from] PROVE clean[k.from]
    BY <1>1, <2>1, JobFacts DEF OfDownload
  <2>. QED
    BY <1>1, <1>2, <2>1, MessagesKept DEF IInv
<1>4. ASSUME NEW q \in Node, q # p, up'[q], clean'[q] PROVE DownloadInv(q)'
  <2>1. DownloadInv(q)
    BY <1>4 DEF IInv
  <2>. QED
    BY <1>1, <1>4, <2>1, Elsewhere
<1>. QED
  BY <1>3, <1>4 DEF IInv

\* A list or an inventory of an ancestry begins with a block, and lists it.
LEMMA HandleInvInv ==
    ASSUME IInv, NEW j \in BagToSet(jobs), HandleInv(j.at, j)
    PROVE  IInv'
<1>1. PICK n \in Node : n = j.at /\ up[n] /\ TypeOK /\ j.from \in Node
  BY JobFacts DEF IInv
<1>2. PICK h \in Hash : j.items = BlockHashes[h] /\ Ancestry[h] \subseteq stored[j.from]
  BY DEF IInv, JobInv, Sensible, HandleInv
<1>3. /\ j.items \in Seq(Hash) /\ j.items # <<>> /\ j.items[1] = h
      /\ ToSet(j.items) = Ancestry[h] /\ h \in Ancestry[h]
  BY <1>2, WalkListsAncestry, AncestryStep DEF ToSet
<1>. DEFINE F == Job(n, j.from, "filter", <<h>>)
            G == Job(j.from, n, "getdata", <<h>>)
<1>4. PICK f : /\ f = F /\ f \in Connection /\ f.at = n /\ f.pc = "filter"
               /\ f.items = <<h>>
  <2>1. /\ F \in Connection /\ F.at = n /\ F.pc = "filter"
        /\ F.items = <<h>>
    BY <1>1 DEF Job, Connection, Place
  <2>. HIDE DEF F
  <2>. QED
    BY <2>1
<1>5. PICK g : /\ g = G /\ g \in Connection /\ g.at = j.from /\ g.from = n
               /\ g.pc = "getdata" /\ g.items = <<h>>
  <2>1. /\ G \in Connection /\ G.at = j.from /\ G.from = n /\ G.pc = "getdata"
        /\ G.items = <<h>>
    BY <1>1 DEF Job, Connection, Command
  <2>. HIDE DEF G
  <2>. QED
    BY <2>1
<1>6. PICK S : S = {f} \cup Dialled(g) /\ Replace(j, S)
  BY <1>1, <1>3, <1>4, <1>5 DEF HandleInv
<1>7. /\ S \subseteq {f, g} /\ f \in S /\ \A k \in S : up[k.at]
      /\ up[j.from] => g \in S
  BY <1>1, <1>4, <1>5, <1>6 DEF Dialled
<1>8. /\ j.pc = "inv" /\ transit' = [transit EXCEPT ![n] = j.items]
      /\ clean' = [clean EXCEPT ![n] = /\ ~Downloading(n) /\ up[j.from]
                                       /\ Ancestry[lh[n]] \subseteq stored[n] \cup ToSet(j.items)]
      /\ UNCHANGED <<up, stored, lh, indexed, starts, fault>>
  BY <1>1 DEF HandleInv, dbVars
<1>9. TypeOK'
  <2>1. clean' \in [Node -> BOOLEAN] /\ transit' \in [Node -> Seq(Hash)]
    BY <1>1, <1>3, <1>8 DEF TypeOK
  <2>2. \A m \in Node : up[m] \/ transit'[m] = <<>>
    BY <1>1, <1>8 DEF TypeOK
  <2>3. /\ stored' \in [Node -> SUBSET Hash] /\ lh' \in [Node -> Hash]
        /\ indexed' \in [Node -> Hash \cup {NoHash}]
    BY <1>1, <1>8 DEF TypeOK
  <2>4. S \subseteq Connection
    BY <1>4, <1>5, <1>7
  <2>. QED
    BY <1>1, <1>6, <1>7, <1>8, <2>1, <2>2, <2>3, <2>4, StepType
<1>10. /\ clean'[n] => /\ ~Downloading(n) /\ up[j.from]
                       /\ Ancestry[lh[n]] \subseteq stored[n] \cup ToSet(j.items)
       /\ transit'[n] = j.items
       /\ \A q \in Node \ {n} : transit'[q] = transit[q] /\ clean'[q] = clean[q]
  BY <1>1, <1>8 DEF TypeOK
<1>11. ASSUME clean'[n] PROVE DownloadInv(n)'
  <2>1. \A k \in BagToSet(jobs) : ~OfDownload(n, k)
    BY <1>10, <1>11 DEF Downloading
  <2>2. OfDownload(n, f) /\ OfDownload(n, g)
    BY <1>4, <1>5 DEF OfDownload, Place
  <2>3. f \in BagToSet(jobs') /\ g \in BagToSet(jobs') /\ jobs'[f] = 1 /\ jobs'[g] = 1
    BY <1>1, <1>6, <1>7, <1>10, <1>11, <2>1, <2>2, Replaced
  <2>4. \A k \in BagToSet(jobs') : OfDownload(n, k) => k \in {f, g}
    BY <1>1, <1>6, <1>7, <2>1, Replaced
  <2>5. /\ Bearer(n, g) /\ Laggard(n, f) /\ Expecting(n, g)
        /\ \A k \in BagToSet(jobs') :
             /\ Bearer(n, k) => k = g
             /\ Laggard(n, k) => k = f
             /\ Expecting(n, k) => k = g
    <3>1. \A k : /\ Bearer(n, k) => OfDownload(n, k)
                 /\ Laggard(n, k) => OfDownload(n, k)
                 /\ Expecting(n, k) => OfDownload(n, k)
      BY DEF Bearer, Laggard, Expecting, OfDownload, Place
    <3>2. Bearer(n, g) /\ Laggard(n, f) /\ Expecting(n, g)
      BY <1>4, <1>5, <2>2 DEF Bearer, Laggard, Expecting
    <3>3. ~Bearer(n, f) /\ ~Laggard(n, g) /\ ~Expecting(n, f)
      BY <1>4, <1>5 DEF Bearer, Laggard, Expecting
    <3>. QED
      BY <2>4, <3>1, <3>2, <3>3
  <2>6. Listed(n)' = Ancestry[h] /\ Expected(n)' = {h}
    <3>1. Listed(n)' = Ancestry[h]
      BY <1>3, <1>10 DEF Listed
    <3>2. g.items[1] = h
      BY <1>5
    <3>. QED
      BY <2>3, <2>5, <3>1, <3>2 DEF Expected
  <2>7. OneBearer(n)' /\ OneLaggard(n)'
    BY <2>3, <2>5 DEF OneBearer, OneLaggard
  <2>8. SourceHasList(n)'
    BY <1>2, <1>5, <1>8, <2>5, <2>6 DEF SourceHasList, Source
  <2>9. LaggardIsRight(n)'
    <3>1. f.items[1] = h
      BY <1>4
    <3>. QED
      BY <1>4, <2>5, <2>6, <3>1 DEF LaggardIsRight
  <2>10. NoGap(n)'
    BY <1>2, <1>3, <1>8, <1>10, <1>11, <2>6, AncestryTransitive DEF NoGap, Known
  <2>11. IndexingIsLast(n)' /\ BornUntilDone(n)'
    BY <1>5, <2>3, <2>5 DEF IndexingIsLast, BornUntilDone
  <2>. QED
    BY <2>7, <2>8, <2>9, <2>10, <2>11 DEF DownloadInv
<1>12. \A q \in Node \ {n} : \A k \in S \cup {j} : ~OfDownload(q, k)
  BY <1>1, <1>4, <1>5, <1>7, <1>8 DEF OfDownload, Place
<1>13. \A k \in S : /\ Sensible(k)'
                    /\ k.pc = "getdata" /\ clean'[k.from] => k.items[1] \in stored'[k.at]
  <2>1. Sensible(f)' /\ Sensible(g)' /\ f.pc # "getdata"
    BY <1>4, <1>5 DEF Sensible
  <2>2. g.items[1] \in stored'[g.at]
    BY <1>2, <1>3, <1>5, <1>8
  <2>. QED
    BY <1>7, <2>1, <2>2
<1>14. clean'[n] => \A k \in BagToSet(jobs) : ~OfDownload(n, k)
  BY <1>10 DEF Downloading
<1>. QED
  BY <1>1, <1>4, <1>5, <1>6, <1>7, <1>8, <1>9, <1>10, <1>11, <1>12, <1>13, <1>14, OwnStep

\* A goroutine that is behind takes the block off the list that it has requested.
LEMMA LaggardInv ==
    ASSUME IInv, NEW j \in BagToSet(jobs), NEW n \in Node, Laggard(n, j),
           Replace(j, {}), NEW list \in Seq(Hash), transit' = [transit EXCEPT ![n] = list],
           UNCHANGED <<up, dbVars, starts, fault, clean>>,
           NEW x, ToSet(list) \subseteq Listed(n), Listed(n) \subseteq ToSet(list) \cup {x},
           clean[n] => x \in stored[n] \cup Expected(n)
    PROVE  IInv'
<1>1. TypeOK /\ UNCHANGED <<stored, lh, indexed>> /\ n = j.at /\ j.pc \in {"filter", "pop"}
  BY DEF IInv, dbVars, Laggard
<1>2. transit'[n] = list /\ \A q \in Node \ {n} : transit'[q] = transit[q]
  BY <1>1 DEF TypeOK
<1>3. TypeOK'
  <2>1. transit' \in [Node -> Seq(Hash)] /\ \A m \in Node : up[m] \/ transit'[m] = <<>>
    BY <1>1, <1>2, JobFacts DEF TypeOK
  <2>2. /\ stored' \in [Node -> SUBSET Hash] /\ lh' \in [Node -> Hash]
        /\ indexed' \in [Node -> Hash \cup {NoHash}] /\ clean' \in [Node -> BOOLEAN]
    BY <1>1 DEF TypeOK
  <2>. QED
    BY <1>1, <2>1, <2>2, StepType
<1>4. ASSUME up[n], clean[n] PROVE DownloadInv(n)'
  <2>1. DownloadInv(n)
    BY <1>4 DEF IInv
  <2>2. \A k \in BagToSet(jobs) : Laggard(n, k) => k = j /\ jobs[k] = 1
    BY <2>1 DEF DownloadInv, OneLaggard
  <2>3. /\ BagToSet(jobs') = BagToSet(jobs) \ {j}
        /\ \A k \in BagToSet(jobs') : jobs'[k] = jobs[k]
    <3>1. jobs[j] = 1
      BY <2>2
    <3>2. ~(jobs[j] > 1)
      BY <3>1
    <3>. QED
      BY <1>1, <3>2, Replaced
  <2>4. ~Bearer(n, j) /\ ~Expecting(n, j)
    BY <1>1 DEF Bearer, Expecting
  <2>5. Listed(n)' = ToSet(list) /\ Expected(n)' = Expected(n)
    <3>1. Listed(n)' = ToSet(list)
      BY <1>2 DEF Listed
    <3>. QED
      BY <2>3, <2>4, <3>1 DEF Expected
  <2>6. OneBearer(n)' /\ OneLaggard(n)'
    BY <2>1, <2>3 DEF DownloadInv, OneBearer, OneLaggard
  <2>7. SourceHasList(n)'
    BY <1>1, <2>1, <2>3, <2>5 DEF DownloadInv, SourceHasList
  <2>8. LaggardIsRight(n)'
    BY <2>2, <2>3 DEF LaggardIsRight
  <2>9. NoGap(n)'
    <3>1. Known(n)' = Known(n)
      BY <1>1, <1>4, <2>5 DEF Known
    <3>. QED
      BY <1>1, <2>1, <2>5, <3>1 DEF DownloadInv, NoGap
  <2>10. IndexingIsLast(n)'
    <3>1. \A k \in BagToSet(jobs) : ~(Bearer(n, k) /\ k.pc = "index")
      BY <2>1 DEF DownloadInv, IndexingIsLast, NothingLeft
    <3>. QED
      BY <2>3, <3>1 DEF IndexingIsLast
  <2>11. BornUntilDone(n)'
    <3>1. PICK k \in BagToSet(jobs) : Bearer(n, k)
      BY <2>1 DEF DownloadInv, BornUntilDone, NothingLeft
    <3>. QED
      BY <2>3, <2>4, <3>1 DEF BornUntilDone
  <2>. QED
    BY <2>6, <2>7, <2>8, <2>9, <2>10, <2>11 DEF DownloadInv
<1>5. \A q \in Node \ {n} : ~OfDownload(q, j)
  BY <1>1 DEF OfDownload
<1>. QED
  BY <1>1, <1>2, <1>3, <1>4, <1>5, OwnStep

LEMMA FilterTransitInv ==
    ASSUME IInv, NEW j \in BagToSet(jobs), FilterTransit(j.at, j)
    PROVE  IInv'
<1>1. PICK n \in Node : n = j.at /\ up[n] /\ TypeOK
  BY JobFacts DEF IInv
<1>2. PICK x \in Hash : j.items = <<x>> /\ j.items[1] = x
  BY DEF IInv, JobInv, Sensible, FilterTransit
<1>3. PICK list : list = Without(transit[n], x)
  OBVIOUS
<1>4. list \in Seq(Hash) /\ ToSet(list) = Listed(n) \ {x}
  BY <1>1, <1>3, WithoutIsAList DEF TypeOK, Listed
<1>5. Laggard(n, j) /\ j.pc = "filter" /\ Replace(j, {})
  BY <1>1 DEF FilterTransit, Laggard
<1>6. transit' = [transit EXCEPT ![n] = list] /\ UNCHANGED <<up, dbVars, starts, fault, clean>>
  BY <1>1, <1>2, <1>3 DEF FilterTransit
<1>7. clean[n] => x \in stored[n] \cup Expected(n)
  BY <1>1, <1>2, <1>5 DEF IInv, DownloadInv, LaggardIsRight
<1>. QED
  BY <1>4, <1>5, <1>6, <1>7, LaggardInv

LEMMA PopTransitInv ==
    ASSUME IInv, NEW j \in BagToSet(jobs), PopTransit(j.at, j)
    PROVE  IInv'
<1>1. PICK n \in Node : n = j.at /\ up[n] /\ TypeOK
  BY JobFacts DEF IInv
<1>2. CASE transit[n] = <<>>
  BY <1>1, <1>2, EndsInv DEF PopTransit, Faults
<1>3. CASE transit[n] # <<>>
  <2>1. PICK list, x : list = Tail(transit[n]) /\ x = transit[n][1]
    OBVIOUS
  <2>2. list \in Seq(Hash) /\ Listed(n) = {x} \cup ToSet(list)
    BY <1>1, <1>3, <2>1, TailElements DEF TypeOK, Listed
  <2>3. Laggard(n, j) /\ j.pc = "pop" /\ Replace(j, {})
    BY <1>1, <1>3 DEF PopTransit, Laggard
  <2>4. transit' = [transit EXCEPT ![n] = list] /\ UNCHANGED <<up, dbVars, starts, fault, clean>>
    BY <1>1, <1>3, <2>1 DEF PopTransit
  <2>5. clean[n] => x \in stored[n] \cup Expected(n)
    BY <1>1, <2>1, <2>3 DEF IInv, DownloadInv, LaggardIsRight
  <2>. QED
    BY <2>2, <2>3, <2>4, <2>5, LaggardInv
<1>. QED
  BY <1>2, <1>3

\* The connection that bears a download is replaced by the one that bears it next.
LEMMA NextBearer ==
    ASSUME TypeOK, NEW n \in Node, DownloadInv(n), NEW j \in BagToSet(jobs), Bearer(n, j),
           NEW S, Replace(j, S), NEW b \in S, Bearer(n, b), b # j,
           \A k \in S : k # b => Laggard(n, k),
           \A k \in S : Laggard(n, k) => k \notin BagToSet(jobs)
    PROVE  /\ OneBearer(n)'
           /\ b \in BagToSet(jobs')
           /\ \A k \in BagToSet(jobs') : Bearer(n, k) => k = b
           /\ \A k \in BagToSet(jobs) : Bearer(n, k) => k = j
           /\ \A k \in BagToSet(jobs) :
                Laggard(n, k) => k \in BagToSet(jobs') /\ jobs'[k] = jobs[k]
           /\ \A k \in BagToSet(jobs') :
                Laggard(n, k) => k \in BagToSet(jobs) \/ (k \in S /\ jobs'[k] = 1)
<1>1. \A k : Laggard(n, k) => ~Bearer(n, k)
  BY DEF Bearer, Laggard
<1>2. jobs[j] = 1 /\ \A k \in BagToSet(jobs) : Bearer(n, k) => k = j
  BY DEF DownloadInv, OneBearer
<1>3. b \notin BagToSet(jobs) /\ ~(jobs[j] > 1)
  BY <1>2
<1>4. /\ BagToSet(jobs') = (BagToSet(jobs) \ {j}) \cup S
      /\ \A k \in BagToSet(jobs) \ (S \cup {j}) : jobs'[k] = jobs[k]
      /\ \A k \in S \ BagToSet(jobs) : jobs'[k] = 1
  BY <1>3, Replaced
<1>5. b \in BagToSet(jobs') /\ \A k \in BagToSet(jobs') : Bearer(n, k) => k = b
  BY <1>1, <1>2, <1>4
<1>6. OneBearer(n)'
  BY <1>3, <1>4, <1>5 DEF OneBearer
<1>. QED
  BY <1>1, <1>2, <1>4, <1>5, <1>6

LEMMA HandleGetDataInv ==
    ASSUME IInv, NEW j \in BagToSet(jobs), HandleGetData(j.at, j)
    PROVE  IInv'
<1>1. PICK n \in Node : n = j.from /\ TypeOK /\ j.at \in Node
  BY JobFacts DEF IInv
<1>2. PICK x \in Hash : j.items = <<x>> /\ j.items[1] = x
  BY DEF IInv, JobInv, Sensible, HandleGetData
<1>. DEFINE V == Job(n, j.at, "block", <<x>>)
<1>3. PICK b : /\ b = V /\ b \in Connection /\ b.at = n /\ b.from = j.at
               /\ b.pc = "block" /\ b.items = <<x>>
  <2>1. /\ V \in Connection /\ V.at = n /\ V.from = j.at
        /\ V.pc = "block" /\ V.items = <<x>>
    BY <1>1 DEF Job, Connection, Command
  <2>. HIDE DEF V
  <2>. QED
    BY <2>1
<1>4. PICK S : /\ Replace(j, S)
               /\ S = IF GetBlock(j.at, x) THEN Dialled(b) ELSE {}
  BY <1>1, <1>2, <1>3 DEF HandleGetData
<1>5. /\ S \subseteq {b} /\ \A k \in S : up[k.at]
      /\ up[n] /\ x \in stored[j.at] => S = {b}
  BY <1>3, <1>4 DEF Dialled, GetBlock
<1>6. /\ j.pc = "getdata" /\ UNCHANGED <<up, stored, lh, indexed, transit, starts, fault, clean>>
  BY DEF HandleGetData, dbVars
<1>7. TypeOK'
  <2>1. /\ stored' \in [Node -> SUBSET Hash] /\ lh' \in [Node -> Hash]
        /\ indexed' \in [Node -> Hash \cup {NoHash}] /\ clean' \in [Node -> BOOLEAN]
        /\ transit' \in [Node -> Seq(Hash)] /\ \A m \in Node : up[m] \/ transit'[m] = <<>>
    BY <1>1, <1>6 DEF TypeOK
  <2>. QED
    BY <1>1, <1>3, <1>4, <1>5, <1>6, <2>1, StepType
<1>8. ASSUME up[n], clean[n] PROVE DownloadInv(n)'
  <2>1. DownloadInv(n) /\ S = {b}
    <3>1. x \in stored[j.at]
      BY <1>1, <1>2, <1>6, <1>8 DEF IInv, RequestsAreAnswered
    <3>. QED
      BY <1>5, <1>8, <3>1 DEF IInv
  <2>2. /\ Bearer(n, j) /\ Bearer(n, b) /\ ~Laggard(n, b) /\ ~Laggard(n, j)
        /\ Expecting(n, j) /\ Expecting(n, b) /\ b # j
    BY <1>1, <1>3, <1>6 DEF Bearer, Laggard, Expecting, OfDownload
  <2>3. /\ OneBearer(n)'
        /\ b \in BagToSet(jobs')
        /\ \A k \in BagToSet(jobs') : Bearer(n, k) => k = b
        /\ \A k \in BagToSet(jobs) : Bearer(n, k) => k = j
        /\ \A k \in BagToSet(jobs') :
             Laggard(n, k) => k \in BagToSet(jobs) /\ jobs'[k] = jobs[k]
    BY <1>1, <1>4, <2>1, <2>2, NextBearer
  <2>4. \A k : Expecting(n, k) => Bearer(n, k)
    BY DEF Expecting, Bearer, OfDownload
  <2>5. Expected(n) = {x} /\ Expected(n)' = {x}
    <3>1. b.items[1] = x
      BY <1>3
    <3>. QED
      BY <1>2, <2>2, <2>3, <2>4, <3>1 DEF Expected
  <2>6. Listed(n)' = Listed(n) /\ Known(n)' = Known(n)
    <3>1. Listed(n)' = Listed(n)
      BY <1>6 DEF Listed
    <3>. QED
      BY <1>6, <2>5, <3>1 DEF Known
  <2>7. OneLaggard(n)'
    BY <2>1, <2>3 DEF DownloadInv, OneLaggard
  <2>8. SourceHasList(n)'
    <3>1. Source(j) = j.at /\ Source(b) = j.at
      BY <1>3, <1>6 DEF Source
    <3>2. Listed(n) \subseteq stored[j.at]
      BY <1>6, <2>1, <2>2, <3>1 DEF DownloadInv, SourceHasList
    <3>. QED
      BY <1>6, <2>3, <2>6, <3>1, <3>2 DEF SourceHasList
  <2>9. LaggardIsRight(n)'
    BY <1>6, <2>1, <2>3, <2>5 DEF DownloadInv, LaggardIsRight
  <2>10. NoGap(n)'
    BY <1>6, <2>1, <2>5, <2>6 DEF DownloadInv, NoGap
  <2>11. IndexingIsLast(n)' /\ BornUntilDone(n)'
    BY <1>3, <2>2, <2>3 DEF IndexingIsLast, BornUntilDone
  <2>. QED
    BY <2>3, <2>7, <2>8, <2>9, <2>10, <2>11 DEF DownloadInv
<1>9. \A q \in Node \ {n} : \A k \in S \cup {j} : ~OfDownload(q, k)
  BY <1>1, <1>3, <1>5, <1>6 DEF OfDownload, Place
<1>10. \A k \in S : Sensible(k)' /\ k.pc # "getdata"
  BY <1>3, <1>5 DEF Sensible
<1>. QED
  BY <1>3, <1>4, <1>5, <1>6, <1>7, <1>8, <1>9, <1>10, OwnStep

LEMMA HandleBlockInv ==
    ASSUME IInv, NEW j \in BagToSet(jobs), HandleBlock(j.at, j)
    PROVE  IInv'
<1>1. PICK n \in Node : n = j.at /\ up[n] /\ TypeOK /\ j.from \in Node
  BY JobFacts DEF IInv
<1>2. PICK x \in Hash : j.items = <<x>> /\ j.items[1] = x
  BY DEF IInv, JobInv, Sensible, HandleBlock
<1>. DEFINE V == Job(n, j.from, "next", <<>>)
<1>3. PICK b : b = V /\ b \in Connection /\ b.at = n /\ b.from = j.from /\ b.pc = "next"
  <2>1. V \in Connection /\ V.at = n /\ V.from = j.from /\ V.pc = "next"
    BY <1>1 DEF Job, Connection, Place
  <2>. HIDE DEF V
  <2>. QED
    BY <2>1
<1>4. /\ j.pc = "block" /\ Replace(j, {b})
      /\ stored' = [stored EXCEPT ![n] = @ \cup {x}]
      /\ lh' = [lh EXCEPT ![n] = IF x \notin stored[n] /\ Height[x] > Height[@] THEN x ELSE @]
      /\ UNCHANGED <<up, indexed, transit, starts, fault, clean>>
  BY <1>1, <1>2, <1>3 DEF HandleBlock
<1>5. /\ stored'[n] = stored[n] \cup {x} /\ lh'[n] \in {x, lh[n]}
      /\ \A q \in Node \ {n} : stored'[q] = stored[q] /\ lh'[q] = lh[q]
      /\ \A q \in Node : stored[q] \subseteq stored'[q]
  BY <1>1, <1>4 DEF TypeOK
<1>6. TypeOK'
  <2>1. /\ stored' \in [Node -> SUBSET Hash] /\ lh' \in [Node -> Hash]
        /\ indexed' \in [Node -> Hash \cup {NoHash}] /\ clean' \in [Node -> BOOLEAN]
        /\ transit' \in [Node -> Seq(Hash)] /\ \A m \in Node : up[m] \/ transit'[m] = <<>>
    BY <1>1, <1>2, <1>4 DEF TypeOK
  <2>2. /\ {b} \subseteq Connection /\ \A k \in {b} : up[k.at]
        /\ Replace(j, {b}) /\ UNCHANGED <<up, starts, fault>>
    BY <1>1, <1>3, <1>4
  <2>. QED
    BY <1>1, <2>1, <2>2, StepType
<1>7. ASSUME up[n], clean[n] PROVE DownloadInv(n)'
  <2>1. DownloadInv(n)
    BY <1>7 DEF IInv
  <2>2. /\ Bearer(n, j) /\ Bearer(n, b) /\ ~Laggard(n, b) /\ ~Laggard(n, j)
        /\ Expecting(n, j) /\ ~Expecting(n, b) /\ b # j
    BY <1>1, <1>3, <1>4 DEF Bearer, Laggard, Expecting, OfDownload, Place
  <2>3. /\ OneBearer(n)'
        /\ b \in BagToSet(jobs')
        /\ \A k \in BagToSet(jobs') : Bearer(n, k) => k = b
        /\ \A k \in BagToSet(jobs) : Bearer(n, k) => k = j
        /\ \A k \in BagToSet(jobs') :
             Laggard(n, k) => k \in BagToSet(jobs) /\ jobs'[k] = jobs[k]
    BY <1>1, <1>4, <2>1, <2>2, NextBearer
  <2>4. \A k : Expecting(n, k) => Bearer(n, k)
    BY DEF Expecting, Bearer, OfDownload
  <2>5. Expected(n) = {x} /\ Expected(n)' = {}
    BY <1>2, <2>2, <2>3, <2>4 DEF Expected
  <2>6. Listed(n)' = Listed(n) /\ Known(n)' = Known(n)
    <3>1. Listed(n)' = Listed(n)
      BY <1>4 DEF Listed
    <3>. QED
      BY <1>5, <2>5, <3>1 DEF Known
  <2>7. OneLaggard(n)'
    BY <2>1, <2>3 DEF DownloadInv, OneLaggard
  <2>8. SourceHasList(n)'
    <3>1. Source(j) = j.from /\ Source(b) = j.from
      BY <1>3, <1>4 DEF Source
    <3>2. Listed(n) \subseteq stored[j.from]
      BY <1>4, <2>1, <2>2, <3>1 DEF DownloadInv, SourceHasList
    <3>. QED
      BY <1>1, <1>5, <2>3, <2>6, <3>1, <3>2 DEF SourceHasList
  <2>9. LaggardIsRight(n)'
    BY <1>4, <1>5, <2>1, <2>3, <2>5 DEF DownloadInv, LaggardIsRight
  <2>10. NoGap(n)'
    BY <1>5, <2>1, <2>5, <2>6 DEF DownloadInv, NoGap
  <2>11. IndexingIsLast(n)' /\ BornUntilDone(n)'
    BY <1>3, <2>2, <2>3 DEF IndexingIsLast, BornUntilDone
  <2>. QED
    BY <2>3, <2>7, <2>8, <2>9, <2>10, <2>11 DEF DownloadInv
<1>8. \A q \in Node \ {n} : \A k \in {b} \cup {j} : ~OfDownload(q, k)
  BY <1>1, <1>3, <1>4 DEF OfDownload, Place
<1>9. Sensible(b)' /\ b.pc # "getdata" /\ up[b.at]
  BY <1>1, <1>3 DEF Sensible
<1>. QED
  BY <1>3, <1>4, <1>5, <1>6, <1>7, <1>8, <1>9, OwnStep

\* The next block is requested, from the node that the last one came from.
LEMMA RequestNextInv ==
    ASSUME IInv, NEW j \in BagToSet(jobs), NEW n \in Node, n = j.at, transit[n] # <<>>,
           NextBlock(n, j)
    PROVE  IInv'
<1>1. up[n] /\ TypeOK /\ j.from \in Node
  BY JobFacts DEF IInv
<1>2. PICK x \in Hash : x = transit[n][1] /\ x \in Listed(n)
  BY <1>1, TailElements DEF TypeOK, Listed
<1>. DEFINE P == Job(n, j.from, "pop", <<>>)
            G == Job(j.from, n, "getdata", <<x>>)
<1>3. PICK p : p = P /\ p \in Connection /\ p.at = n /\ p.pc = "pop"
  <2>1. P \in Connection /\ P.at = n /\ P.pc = "pop"
    BY <1>1 DEF Job, Connection, Place
  <2>. HIDE DEF P
  <2>. QED
    BY <2>1
<1>4. PICK g : /\ g = G /\ g \in Connection /\ g.at = j.from /\ g.from = n
               /\ g.pc = "getdata" /\ g.items = <<x>>
  <2>1. /\ G \in Connection /\ G.at = j.from /\ G.from = n /\ G.pc = "getdata"
        /\ G.items = <<x>>
    BY <1>1 DEF Job, Connection, Command
  <2>. HIDE DEF G
  <2>. QED
    BY <2>1
<1>5. PICK S : S = {p} \cup Dialled(g) /\ Replace(j, S)
  BY <1>2, <1>3, <1>4 DEF NextBlock
<1>6. /\ S \subseteq {p, g} /\ p \in S /\ \A k \in S : up[k.at]
      /\ up[j.from] => g \in S
  BY <1>1, <1>3, <1>4, <1>5 DEF Dialled
<1>7. /\ j.pc = "next" /\ UNCHANGED <<up, stored, lh, transit, starts, fault>>
      /\ indexed' = [indexed EXCEPT ![n] = @]
  BY DEF NextBlock
<1>8. /\ clean' \in [Node -> BOOLEAN]
      /\ \A q \in Node : clean'[q] => clean[q]
      /\ clean'[n] => /\ up[j.from]
                      /\ \A k \in BagToSet(jobs) : ~Laggard(n, k)
  <2>. DEFINE late == {k \in BagToSet(jobs) : k.at = n /\ k.pc \in {"filter", "pop"}}
  <2>1. PICK behind : /\ behind = [k \in late |-> jobs[k]]
                      /\ clean' = [clean EXCEPT ![n] = @ /\ behind = EmptyBag /\ up[j.from]]
    BY DEF NextBlock
  <2>2. behind = EmptyBag => late = {}
    BY <2>1 DEF EmptyBag, SetToBag
  <2>. HIDE DEF late
  <2>3. /\ clean' \in [Node -> BOOLEAN]
        /\ \A q \in Node : clean'[q] => clean[q]
        /\ clean'[n] => up[j.from] /\ behind = EmptyBag
    BY <1>1, <2>1 DEF TypeOK
  <2>. QED
    BY <2>2, <2>3 DEF Laggard, late
<1>9. TypeOK'
  <2>1. /\ stored' \in [Node -> SUBSET Hash] /\ lh' \in [Node -> Hash]
        /\ indexed' \in [Node -> Hash \cup {NoHash}]
        /\ transit' \in [Node -> Seq(Hash)] /\ \A m \in Node : up[m] \/ transit'[m] = <<>>
    BY <1>1, <1>7 DEF TypeOK
  <2>2. S \subseteq Connection
    BY <1>3, <1>4, <1>6
  <2>. QED
    BY <1>1, <1>5, <1>6, <1>7, <1>8, <2>1, <2>2, StepType
<1>10. /\ Bearer(n, j) /\ Bearer(n, g) /\ ~Laggard(n, g) /\ Laggard(n, p)
       /\ ~Expecting(n, j) /\ Expecting(n, g) /\ g # j
  BY <1>3, <1>4, <1>7 DEF Bearer, Laggard, Expecting, OfDownload, Place
<1>11. ASSUME up[n], clean'[n] PROVE x \in stored[j.from]
  <2>1. Source(j) = j.from
    BY <1>7 DEF Source
  <2>. QED
    BY <1>2, <1>7, <1>8, <1>10, <1>11, <2>1 DEF IInv, DownloadInv, SourceHasList
<1>12. ASSUME up[n], clean'[n] PROVE DownloadInv(n)'
  <2>1. DownloadInv(n) /\ g \in S /\ \A k \in BagToSet(jobs) : ~Laggard(n, k)
    BY <1>6, <1>8, <1>12 DEF IInv
  <2>2. \A k \in S : k # g => Laggard(n, k)
    BY <1>6, <1>10
  <2>3. /\ OneBearer(n)'
        /\ g \in BagToSet(jobs')
        /\ \A k \in BagToSet(jobs') : Bearer(n, k) => k = g
        /\ \A k \in BagToSet(jobs) : Bearer(n, k) => k = j
        /\ \A k \in BagToSet(jobs') : Laggard(n, k) => k \in S /\ jobs'[k] = 1
    BY <1>1, <1>5, <1>10, <2>1, <2>2, NextBearer
  <2>4. \A k \in BagToSet(jobs') : Laggard(n, k) => k = p /\ jobs'[k] = 1
    BY <1>6, <1>10, <2>3
  <2>5. \A k : Expecting(n, k) => Bearer(n, k)
    BY DEF Expecting, Bearer, OfDownload
  <2>6. Expected(n) = {} /\ Expected(n)' = {x}
    <3>1. g.items[1] = x
      BY <1>4
    <3>. QED
      BY <1>10, <2>3, <2>5, <3>1 DEF Expected
  <2>7. Listed(n)' = Listed(n) /\ Known(n)' = Known(n)
    <3>1. Listed(n)' = Listed(n)
      BY <1>7 DEF Listed
    <3>. QED
      BY <1>2, <1>7, <2>6, <3>1 DEF Known
  <2>8. OneLaggard(n)'
    BY <2>4 DEF OneLaggard
  <2>9. SourceHasList(n)'
    <3>1. Source(j) = j.from /\ Source(g) = j.from
      BY <1>4, <1>7 DEF Source
    <3>2. Listed(n) \subseteq stored[j.from]
      BY <1>7, <1>10, <2>1, <3>1 DEF DownloadInv, SourceHasList
    <3>. QED
      BY <1>7, <2>3, <2>7, <3>1, <3>2 DEF SourceHasList
  <2>10. LaggardIsRight(n)'
    BY <1>2, <1>3, <1>7, <2>4, <2>6 DEF LaggardIsRight
  <2>11. NoGap(n)'
    BY <1>2, <1>7, <2>1, <2>6, <2>7 DEF DownloadInv, NoGap
  <2>12. IndexingIsLast(n)' /\ BornUntilDone(n)'
    BY <1>4, <1>10, <2>3 DEF IndexingIsLast, BornUntilDone
  <2>. QED
    BY <2>3, <2>8, <2>9, <2>10, <2>11, <2>12 DEF DownloadInv
<1>13. \A q \in Node \ {n} : \A k \in S \cup {j} : ~OfDownload(q, k)
  BY <1>3, <1>4, <1>6, <1>7 DEF OfDownload, Place
<1>14. \A k \in S : /\ Sensible(k)'
                    /\ k.pc = "getdata" /\ clean'[k.from] => k.items[1] \in stored'[k.at]
  <2>1. Sensible(p)' /\ Sensible(g)' /\ p.pc # "getdata" /\ g.items[1] = x
    BY <1>3, <1>4 DEF Sensible
  <2>. QED
    BY <1>1, <1>4, <1>6, <1>7, <1>11, <2>1
<1>15. \A q \in Node \ {n} : indexed'[q] = indexed[q]
  BY <1>1, <1>7 DEF TypeOK
<1>16. S \subseteq Connection
  BY <1>3, <1>4, <1>6
<1>. QED
  BY <1>5, <1>6, <1>7, <1>8, <1>9, <1>12, <1>13, <1>14, <1>15, <1>16, OwnStep

\* The list is empty and nobody is behind with it: the index is rebuilt.
LEMMA StartReindexInv ==
    ASSUME IInv, NEW j \in BagToSet(jobs), NEW n \in Node, n = j.at, transit[n] = <<>>,
           NextBlock(n, j)
    PROVE  IInv'
<1>1. up[n] /\ TypeOK /\ j.from \in Node
  BY JobFacts DEF IInv
<1>. DEFINE V == Job(n, j.from, "index", <<>>)
<1>2. PICK b : b = V /\ b \in Connection /\ b.at = n /\ b.pc = "index"
  <2>1. V \in Connection /\ V.at = n /\ V.pc = "index"
    BY <1>1 DEF Job, Connection, Place
  <2>. HIDE DEF V
  <2>. QED
    BY <2>1
<1>3. /\ j.pc = "next" /\ Replace(j, {b})
      /\ UNCHANGED <<up, stored, lh, transit, starts, fault>>
      /\ indexed' = [indexed EXCEPT ![n] = NoHash]
  BY <1>2 DEF NextBlock
<1>4. /\ clean' \in [Node -> BOOLEAN]
      /\ \A q \in Node : clean'[q] => clean[q]
      /\ clean'[n] => \A k \in BagToSet(jobs) : ~Laggard(n, k)
  <2>. DEFINE late == {k \in BagToSet(jobs) : k.at = n /\ k.pc \in {"filter", "pop"}}
  <2>1. PICK behind : /\ behind = [k \in late |-> jobs[k]]
                      /\ clean' = [clean EXCEPT ![n] = @ /\ behind = EmptyBag]
    BY DEF NextBlock
  <2>2. behind = EmptyBag => late = {}
    BY <2>1 DEF EmptyBag, SetToBag
  <2>. HIDE DEF late
  <2>3. /\ clean' \in [Node -> BOOLEAN]
        /\ \A q \in Node : clean'[q] => clean[q]
        /\ clean'[n] => behind = EmptyBag
    BY <1>1, <2>1 DEF TypeOK
  <2>. QED
    BY <2>2, <2>3 DEF Laggard, late
<1>5. TypeOK'
  <2>1. /\ stored' \in [Node -> SUBSET Hash] /\ lh' \in [Node -> Hash]
        /\ indexed' \in [Node -> Hash \cup {NoHash}]
        /\ transit' \in [Node -> Seq(Hash)] /\ \A m \in Node : up[m] \/ transit'[m] = <<>>
    BY <1>1, <1>3 DEF TypeOK
  <2>2. PICK S : Replace(j, S) /\ S \subseteq Connection /\ \A k \in S : up[k.at]
    BY <1>1, <1>2, <1>3
  <2>. QED
    BY <1>1, <1>3, <1>4, <2>1, <2>2, StepType
<1>6. ASSUME up[n], clean'[n] PROVE DownloadInv(n)'
  <2>1. DownloadInv(n) /\ \A k \in BagToSet(jobs) : ~Laggard(n, k)
    BY <1>4, <1>6 DEF IInv
  <2>2. /\ Bearer(n, j) /\ Bearer(n, b) /\ ~Laggard(n, b)
        /\ ~Expecting(n, j) /\ ~Expecting(n, b) /\ b # j
    BY <1>2, <1>3 DEF Bearer, Laggard, Expecting, OfDownload, Place
  <2>3. /\ OneBearer(n)'
        /\ b \in BagToSet(jobs')
        /\ \A k \in BagToSet(jobs') : Bearer(n, k) => k = b
        /\ \A k \in BagToSet(jobs) : Bearer(n, k) => k = j
        /\ \A k \in BagToSet(jobs') : ~Laggard(n, k)
    BY <1>1, <1>3, <2>1, <2>2, NextBearer
  <2>4. \A k : Expecting(n, k) => Bearer(n, k)
    BY DEF Expecting, Bearer, OfDownload
  <2>5. Expected(n) = {} /\ Expected(n)' = {}
    BY <2>2, <2>3, <2>4 DEF Expected
  <2>6. Listed(n)' = Listed(n) /\ Known(n)' = Known(n)
    <3>1. Listed(n)' = Listed(n)
      BY <1>3 DEF Listed
    <3>. QED
      BY <1>3, <2>5, <3>1 DEF Known
  <2>7. OneLaggard(n)' /\ LaggardIsRight(n)'
    BY <2>3 DEF OneLaggard, LaggardIsRight
  <2>8. SourceHasList(n)'
    BY <1>2, <2>3 DEF SourceHasList
  <2>9. NoGap(n)'
    BY <1>3, <2>1, <2>5, <2>6 DEF DownloadInv, NoGap
  <2>10. IndexingIsLast(n)' /\ BornUntilDone(n)'
    BY <1>3, <2>2, <2>3 DEF IndexingIsLast, BornUntilDone, NothingLeft
  <2>. QED
    BY <2>3, <2>7, <2>8, <2>9, <2>10 DEF DownloadInv
<1>7. \A q \in Node \ {n} : \A k \in {b} \cup {j} : ~OfDownload(q, k)
  BY <1>2, <1>3 DEF OfDownload, Place
<1>8. Sensible(b)' /\ b.pc # "getdata" /\ up[b.at]
  BY <1>1, <1>2 DEF Sensible
<1>9. \A q \in Node \ {n} : indexed'[q] = indexed[q]
  BY <1>1, <1>3 DEF TypeOK
<1>. QED
  BY <1>2, <1>3, <1>4, <1>5, <1>6, <1>7, <1>8, <1>9, OwnStep

LEMMA NextBlockInv ==
    ASSUME IInv, NEW j \in BagToSet(jobs), NextBlock(j.at, j)
    PROVE  IInv'
<1>1. PICK n \in Node : n = j.at
  BY JobFacts DEF IInv
<1>. QED
  BY <1>1, RequestNextInv, StartReindexInv

\* When the index of an undisturbed node is rebuilt nothing is on its way or on the
\* list, so its chain has no gap.
LEMMA IndexedIsComplete ==
    ASSUME IInv, NEW n \in Node, up[n], clean[n], NEW j \in BagToSet(jobs),
           j.at = n, j.pc = "index"
    PROVE  Complete(n) /\ Expected(n) = {} /\ NothingLeft(n)
<1>1. DownloadInv(n) /\ Bearer(n, j)
  BY DEF IInv, Bearer, OfDownload, Place
<1>2. \A k \in BagToSet(jobs) : ~Expecting(n, k)
  BY <1>1 DEF DownloadInv, OneBearer, Expecting, Bearer, OfDownload
<1>3. Expected(n) = {}
  BY <1>2 DEF Expected
<1>4. NothingLeft(n) /\ Listed(n) = {}
  <2>1. NothingLeft(n)
    BY <1>1 DEF DownloadInv, IndexingIsLast
  <2>. QED
    BY <2>1 DEF NothingLeft, Listed, ToSet
<1>. QED
  BY <1>1, <1>3, <1>4 DEF DownloadInv, NoGap, Known, Complete

LEMMA ReindexInv ==
    ASSUME IInv, NEW j \in BagToSet(jobs), Reindex(j.at, j)
    PROVE  IInv'
<1>1. PICK n \in Node : n = j.at /\ up[n] /\ TypeOK
  BY JobFacts DEF IInv
<1>2. CASE ~Complete(n)
  BY <1>1, <1>2, EndsInv DEF Reindex, Faults
<1>3. CASE Complete(n)
  <2>1. /\ j.pc = "index" /\ Replace(j, {})
        /\ UNCHANGED <<up, stored, lh, transit, starts, fault, clean>>
        /\ indexed' = [indexed EXCEPT ![n] = lh[n]]
    BY <1>1, <1>3 DEF Reindex
  <2>2. TypeOK'
    <3>1. /\ stored' \in [Node -> SUBSET Hash] /\ lh' \in [Node -> Hash]
          /\ indexed' \in [Node -> Hash \cup {NoHash}] /\ clean' \in [Node -> BOOLEAN]
          /\ transit' \in [Node -> Seq(Hash)] /\ \A m \in Node : up[m] \/ transit'[m] = <<>>
      BY <1>1, <2>1 DEF TypeOK
    <3>. QED
      BY <1>1, <2>1, <3>1, StepType
  <2>3. ASSUME up[n], clean[n] PROVE DownloadInv(n)'
    <3>1. DownloadInv(n) /\ Expected(n) = {} /\ NothingLeft(n)
      BY <1>1, <2>1, <2>3, IndexedIsComplete DEF IInv
    <3>2. \A k \in BagToSet(jobs) : Bearer(n, k) => k = j /\ ~(jobs[k] > 1)
      <4>1. Bearer(n, j)
        BY <1>1, <2>1 DEF Bearer, OfDownload, Place
      <4>. QED
        BY <3>1, <4>1 DEF DownloadInv, OneBearer
    <3>3. ~(jobs[j] > 1)
      <4>1. Bearer(n, j)
        BY <1>1, <2>1 DEF Bearer, OfDownload, Place
      <4>. QED
        BY <3>2, <4>1
    <3>4. BagToSet(jobs') = BagToSet(jobs) \ {j}
      BY <1>1, <2>1, <3>3, Replaced
    <3>5. \A k \in BagToSet(jobs') : ~Bearer(n, k) /\ ~Laggard(n, k)
      BY <3>1, <3>2, <3>4 DEF NothingLeft
    <3>6. \A k : Expecting(n, k) => Bearer(n, k)
      BY DEF Expecting, Bearer, OfDownload
    <3>7. Expected(n)' = {} /\ Listed(n)' = Listed(n)
      <4>1. Expected(n)' = {}
        BY <3>5, <3>6 DEF Expected
      <4>. QED
        BY <2>1, <4>1 DEF Listed
    <3>8. NoGap(n)'
      BY <2>1, <3>1, <3>7 DEF DownloadInv, NoGap, Known
    <3>9. BornUntilDone(n)'
      BY <1>1, <2>1, <3>1, <3>5 DEF BornUntilDone, NothingLeft, TypeOK
    <3>. QED
      BY <3>5, <3>8, <3>9 DEF DownloadInv, OneBearer, OneLaggard, SourceHasList,
                              LaggardIsRight, IndexingIsLast
  <2>4. \A q \in Node \ {n} : ~OfDownload(q, j) /\ indexed'[q] = indexed[q]
    BY <1>1, <2>1 DEF OfDownload, TypeOK
  <2>. QED
    BY <2>1, <2>2, <2>3, <2>4, OwnStep
<1>. QED
  BY <1>2, <1>3, <1>1

--------------------------------------------------------------------------
(* The theorems. *)

LEMMA InitInv == Init => IInv
<1>. SUFFICES ASSUME Init PROVE IInv
  OBVIOUS
<1>1. BagToSet(jobs) = {} /\ IsABag(jobs)
  BY DEF Init, EmptyBag, SetToBag, BagToSet, IsABag
<1>2. lh \in [Node -> Hash] /\ indexed = lh
  BY SyncAssumption DEF Init
<1>3. \A n \in Node : Ancestry[lh[n]] = stored[n] /\ Ancestry[lh[n]] \in SUBSET Hash
  BY <1>2, AncestryStep DEF Init
<1>4. TypeOK
  <2>1. stored \in [Node -> SUBSET Hash]
    BY <1>3 DEF Init
  <2>2. transit \in [Node -> Seq(Hash)] /\ \A n \in Node : up[n] \/ transit[n] = <<>>
    BY DEF Init
  <2>3. indexed \in [Node -> Hash \cup {NoHash}]
    BY <1>2
  <2>. QED
    BY <1>1, <1>2, <2>1, <2>2, <2>3 DEF Init, TypeOK, Faults
<1>5. JobInv /\ RequestsAreAnswered
  BY <1>1 DEF JobInv, RequestsAreAnswered
<1>6. \A n \in Node : ~up[n]
  BY DEF Init
<1>. QED
  BY <1>4, <1>5, <1>6 DEF IInv

LEMMA NextInv == IInv /\ [Next]_vars => IInv'
<1>. SUFFICES ASSUME IInv, [Next]_vars PROVE IInv'
  OBVIOUS
<1>1. ASSUME NEW n \in Node, Start(n) PROVE IInv'
  BY <1>1, StartInv
<1>2. ASSUME NEW n \in Node, Kill(n) PROVE IInv'
  BY <1>2, EndsInv DEF Kill, Faults
<1>3. ASSUME NEW j \in BagToSet(jobs), HandleConnection(j.at, j) PROVE IInv'
  BY <1>3, HandleVersionInv, HandleGetBlocksInv, HandleInvInv, FilterTransitInv,
     HandleGetDataInv, HandleBlockInv, NextBlockInv, PopTransitInv, ReindexInv
     DEF HandleConnection
<1>4. CASE UNCHANGED vars
  <2>1. /\ TypeOK' /\ JobInv' /\ RequestsAreAnswered'
    BY <1>4 DEF IInv, TypeOK, JobInv, Sensible, RequestsAreAnswered, vars, dbVars
  <2>2. ASSUME NEW p \in Node, up'[p], clean'[p] PROVE DownloadInv(p)'
    <3>1. DownloadInv(p)
      BY <1>4, <2>2 DEF IInv, vars
    <3>2. SameDownload(p)
      BY <1>4 DEF SameDownload, vars, dbVars
    <3>. QED
      BY <3>1, <3>2, Undisturbed DEF IInv
  <2>. QED
    BY <2>1, <2>2 DEF IInv
<1>. QED
  BY <1>1, <1>2, <1>3, <1>4 DEF Next, Work

THEOREM Invariance == Spec => []IInv
BY InitInv, NextInv, PTL DEF Spec

\* The variables keep their types.
THEOREM TypeCorrect == Spec => []TypeOK
<1>1. IInv => TypeOK
  BY DEF IInv
<1>. QED
  BY <1>1, Invariance, PTL

\* blocksInTransit and the requests in flight never lose a missing block between
\* them while a download runs undisturbed.
THEOREM NothingIsForgotten == Spec => []NothingForgotten
<1>1. IInv => NothingForgotten
  <2>. SUFFICES ASSUME IInv, NEW n \in Node, up[n], clean[n],
                       NEW b \in Ancestry[lh[n]] \ stored[n]
                PROVE  \/ \E i \in DOMAIN transit[n] : transit[n][i] = b
                       \/ \E j \in BagToSet(jobs) : /\ j.items = <<b>>
                                                    /\ \/ j.from = n /\ j.pc = "getdata"
                                                       \/ j.at = n /\ j.pc = "block"
    BY DEF NothingForgotten
  <2>1. b \in Listed(n) \cup Expected(n)
    BY DEF IInv, DownloadInv, NoGap, Known
  <2>2. CASE b \in Listed(n)
    BY <2>2 DEF Listed, ToSet
  <2>3. CASE b \in Expected(n)
    <3>1. PICK j \in BagToSet(jobs) : Expecting(n, j) /\ b = j.items[1]
      BY <2>3 DEF Expected
    <3>2. PICK x \in Hash : j.items = <<x>>
      BY <3>1 DEF IInv, JobInv, Sensible, Expecting
    <3>. QED
      BY <3>1, <3>2 DEF Expecting
  <2>. QED
    BY <2>1, <2>2, <2>3
<1>. QED
  BY <1>1, Invariance, PTL

\* A download never stops half-way in silence.
THEOREM QuietIsComplete == Spec => []QuietMeansComplete
<1>1. IInv => QuietMeansComplete
  <2>. SUFFICES ASSUME IInv, NEW n \in Node, up[n], clean[n], Quiet(n)
                PROVE  Complete(n) /\ transit[n] = <<>> /\ indexed[n] = lh[n]
    BY DEF QuietMeansComplete
  <2>1. \A j \in BagToSet(jobs) : ~OfDownload(n, j)
    BY DEF Quiet, OfDownload, Request
  <2>2. \A j \in BagToSet(jobs) : ~Bearer(n, j) /\ ~Expecting(n, j)
    BY <2>1 DEF Bearer, Expecting, OfDownload
  <2>3. DownloadInv(n) /\ NothingLeft(n) /\ indexed[n] = lh[n]
    BY <2>2 DEF IInv, DownloadInv, BornUntilDone
  <2>4. transit[n] = <<>> /\ Listed(n) = {} /\ Expected(n) = {}
    <3>1. transit[n] = <<>>
      BY <2>3 DEF NothingLeft
    <3>. QED
      BY <2>2, <3>1 DEF Listed, ToSet, Expected
  <2>. QED
    BY <2>3, <2>4 DEF DownloadInv, NoGap, Known, Complete
<1>. QED
  BY <1>1, Invariance, PTL

\* HandleGetData drops no request of an undisturbed download.
THEOREM NoRequestIsDropped == Spec => []RequestsAreAnswered
<1>1. IInv => RequestsAreAnswered
  BY DEF IInv
<1>. QED
  BY <1>1, Invariance, PTL

\* An undisturbed download panics neither over blocksInTransit nor in Reindex.
THEOREM NoPanicWhileClean == Spec => CleanDownloadsDoNotPanic
<1>. DEFINE Safe == \A n \in Node : up[n] /\ clean[n] /\ ~up'[n]
                                      => fault'[n] \in {"killed", "getblocks"}
<1>1. ASSUME TypeOK, NEW n \in Node, NEW cause \in Faults, Ends(n, cause)
      PROVE  fault'[n] = cause /\ \A q \in Node \ {n} : up'[q] = up[q]
  BY <1>1 DEF Ends, TypeOK
<1>2. IInv /\ [Next]_vars => Safe
  <2>. SUFFICES ASSUME IInv, [Next]_vars, NEW n \in Node, up[n], clean[n], ~up'[n]
                PROVE  fault'[n] \in {"killed", "getblocks"}
    OBVIOUS
  <2>1. TypeOK
    BY DEF IInv
  <2>2. ASSUME NEW m \in Node, Start(m) PROVE FALSE
    BY <2>1, <2>2 DEF Start, TypeOK
  <2>3. ASSUME NEW m \in Node, Kill(m) PROVE fault'[n] = "killed"
    BY <1>1, <2>1, <2>3 DEF Kill, Faults
  <2>4. ASSUME NEW j \in BagToSet(jobs), HandleConnection(j.at, j)
        PROVE  fault'[n] \in {"killed", "getblocks"}
    <3>1. j.at \in Node
      BY <2>1, JobFacts
    <3>2. ~(UNCHANGED up)
      OBVIOUS
    <3>3. ASSUME HandleGetBlocks(j.at, j) PROVE fault'[n] = "getblocks"
      BY <1>1, <2>1, <3>1, <3>2, <3>3 DEF HandleGetBlocks, Faults
    <3>4. ASSUME PopTransit(j.at, j) PROVE FALSE
      <4>1. Ends(j.at, "slice") /\ transit[j.at] = <<>> /\ j.pc = "pop"
        BY <3>2, <3>4 DEF PopTransit
      <4>2. j.at = n
        BY <1>1, <2>1, <3>1, <4>1 DEF Faults
      <4>3. Laggard(n, j) /\ DownloadInv(n)
        BY <4>1, <4>2 DEF Laggard, IInv
      <4>. QED
        BY <4>1, <4>2, <4>3 DEF DownloadInv, LaggardIsRight
    <3>5. ASSUME Reindex(j.at, j) PROVE FALSE
      <4>1. Ends(j.at, "reindex") /\ ~Complete(j.at) /\ j.pc = "index"
        BY <3>2, <3>5 DEF Reindex
      <4>2. j.at = n
        BY <1>1, <2>1, <3>1, <4>1 DEF Faults
      <4>. QED
        BY <4>1, <4>2, IndexedIsComplete
    <3>6. ~ \/ HandleVersion(j.at, j) \/ HandleInv(j.at, j) \/ FilterTransit(j.at, j)
            \/ HandleGetData(j.at, j) \/ HandleBlock(j.at, j) \/ NextBlock(j.at, j)
      BY <3>2 DEF HandleVersion, HandleInv, FilterTransit, HandleGetData, HandleBlock, NextBlock
    <3>. QED
      BY <2>4, <3>3, <3>4, <3>5, <3>6 DEF HandleConnection
  <2>5. CASE UNCHANGED vars
    BY <2>5 DEF vars
  <2>. QED
    BY <2>2, <2>3, <2>4, <2>5 DEF Next, Work
<1>3. Spec => [][Safe]_vars
  BY <1>2, Invariance, PTL DEF Spec
<1>. QED
  BY <1>3, PTL DEF CleanDownloadsDoNotPanic
==========================================================================
