-------------------------- MODULE Basics_proofs --------------------------
(***************************************************************************)
(* What the proofs about several modules rest on: induction in a form      *)
(* without operator parameters, loops as functions of the number of their  *)
(* passes, and the bags in which the connections to the nodes are kept.    *)
(***************************************************************************)
EXTENDS Integers, Lists, Bags, FiniteSetTheorems, SequenceTheorems, TLAPS

--------------------------------------------------------------------------
(* Induction. *)

\* A set of natural numbers that is not empty has a least element.
LEMMA LeastNatural ==
    ASSUME NEW T \in SUBSET Nat, T # {}
    PROVE  \E x \in T : \A y \in T : x <= y
<1>. DEFINE Below(t) == 0..(t - 1)
            U == {Below(t) : t \in T}
<1>1. U \subseteq FiniteSubsetsOf(Nat) /\ U # {}
  <2>1. \A t \in T : t \in Int /\ Below(t) \subseteq Nat
    OBVIOUS
  <2>2. \A t \in T : IsFiniteSet(Below(t))
    BY <2>1, FS_Interval
  <2>. QED
    BY <2>1, <2>2 DEF FiniteSubsetsOf
<1>2. PICK u \in U : \A v \in U : <<v, u>> \notin StrictSubsetOrdering(Nat)
  BY <1>1, FS_StrictSubsetOrderingWellFounded, WFMin
<1>3. PICK x \in T : u = Below(x)
  OBVIOUS
<1>4. ASSUME NEW y \in T, ~(x <= y) PROVE FALSE
  <2>1. Below(y) \subseteq Below(x) /\ x - 1 \in Below(x) /\ x - 1 \notin Below(y)
    BY <1>4
  <2>2. Below(y) \in SUBSET Nat /\ Below(x) \in SUBSET Nat /\ Below(y) \in U
    OBVIOUS
  <2>3. <<Below(y), Below(x)>> \in StrictSubsetOrdering(Nat)
    <3>. HIDE DEF Below
    <3>. QED
      BY <2>1, <2>2 DEF StrictSubsetOrdering
  <2>. QED
    BY <1>2, <1>3, <2>2, <2>3
<1>. QED
  BY <1>4

\* A set with 0, and with k+1 whenever it has k < n, has all numbers up to n.
LEMMA InductionUpTo ==
    ASSUME NEW n \in Nat, NEW S, 0 \in S,
           \A k \in 0..(n - 1) : k \in S => k + 1 \in S
    PROVE  0..n \subseteq S
<1>. DEFINE T == {k \in 0..n : k \notin S}
<1>1. SUFFICES ASSUME T # {} PROVE FALSE
  OBVIOUS
<1>2. PICK x \in T : \A y \in T : x <= y
  <2>1. T \in SUBSET Nat
    OBVIOUS
  <2>. QED
    BY <1>1, <2>1, LeastNatural
<1>3. x # 0 /\ x - 1 \in 0..(n - 1) /\ x - 1 \notin T
  BY <1>2
<1>. QED
  BY <1>2, <1>3

--------------------------------------------------------------------------
(* Loops. *)

\* f gives the state, in A, after each pass of a loop over the numbers up to n: e
\* before the first, and from one to the next what g says.
IsRun(f, n, A, e, g) ==
    /\ f \in [0..n -> A]
    /\ f[0] = e
    /\ \A i \in 1..n : f[i] = g[<<f[i - 1], i>>]

\* There is such a function.
LEMMA Iteration ==
    ASSUME NEW n \in Nat, NEW A, NEW e \in A, NEW g \in [A \X Nat -> A]
    PROVE  \E f : IsRun(f, n, A, e, g)
<1>. DEFINE Runs(k) == {f \in [0..k -> A] :
                          f[0] = e /\ \A i \in 1..k : f[i] = g[<<f[i - 1], i>>]}
            S == {k \in Nat : Runs(k) # {}}
<1>1. 0 \in S
  <2>1. [i \in 0..0 |-> e] \in Runs(0)
    OBVIOUS
  <2>. QED
    BY <2>1
<1>2. ASSUME NEW k \in 0..(n - 1), k \in S PROVE k + 1 \in S
  <2>1. PICK f \in Runs(k) : TRUE
    BY <1>2
  <2>. DEFINE h == [i \in 0..(k + 1) |-> IF i = k + 1 THEN g[<<f[k], k + 1>>] ELSE f[i]]
  <2>2. g[<<f[k], k + 1>>] \in A
    OBVIOUS
  <2>3. h \in [0..(k + 1) -> A]
    BY <2>2
  <2>4. k \in Nat /\ h[0] = e
    OBVIOUS
  <2>5. ASSUME NEW i \in 1..(k + 1) PROVE h[i] = g[<<h[i - 1], i>>]
    <3>1. CASE i = k + 1
      <4>1. h[i] = g[<<f[k], i>>] /\ h[i - 1] = f[k]
        BY <2>4, <3>1
      <4>. QED
        BY <4>1
    <3>2. CASE i # k + 1
      <4>1. i \in 1..k /\ h[i] = f[i] /\ h[i - 1] = f[i - 1]
        BY <2>4, <3>2
      <4>. QED
        BY <4>1
    <3>. QED
      BY <3>1, <3>2
  <2>6. h \in Runs(k + 1)
    <3>. HIDE DEF h
    <3>. QED
      BY <2>3, <2>4, <2>5
  <2>. QED
    <3>. HIDE DEF h, Runs
    <3>. QED
      BY <2>4, <2>6
<1>3. n \in S
  <2>. HIDE DEF S
  <2>. QED
    BY <1>1, <1>2, InductionUpTo
<1>. QED
  BY <1>3 DEF IsRun

\* A function that is defined by recursion as a loop is defined is its run, whatever
\* the definition says of values that do not come about.
LEMMA LoopIsRun ==
    ASSUME NEW n \in Nat, NEW A, NEW e \in A, NEW g \in [A \X Nat -> A], NEW f,
           f = [i \in 0..n |-> f[i]], f[0] = e,
           \A i \in 1..n : f[i - 1] \in A => f[i] = g[<<f[i - 1], i>>]
    PROVE  IsRun(f, n, A, e, g)
<1>. DEFINE T == {i \in 0..n : f[i] \in A}
<1>1. 0 \in T
  OBVIOUS
<1>2. ASSUME NEW i \in 0..(n - 1), i \in T PROVE i + 1 \in T
  <2>1. i + 1 \in 1..n /\ i + 1 \in 0..n /\ (i + 1) - 1 = i /\ i + 1 \in Nat
    OBVIOUS
  <2>2. f[i + 1] = g[<<f[i], i + 1>>]
    BY <1>2, <2>1
  <2>. QED
    BY <1>2, <2>1, <2>2
<1>3. 0..n \subseteq T
  <2>. HIDE DEF T
  <2>. QED
    BY <1>1, <1>2, InductionUpTo
<1>4. f \in [0..n -> A]
  BY <1>3
<1>5. \A i \in 1..n : i - 1 \in 0..n
  OBVIOUS
<1>. QED
  BY <1>3, <1>4, <1>5 DEF IsRun

\* The elements of a list with one more.
LEMMA AppendElements ==
    ASSUME NEW S, NEW s \in Seq(S), NEW e \in S
    PROVE  /\ ToSet(Append(s, e)) = ToSet(s) \cup {e}
           /\ IsInjective(s) /\ e \notin ToSet(s) => IsInjective(Append(s, e))
<1>. DEFINE t == Append(s, e)
<1>1. /\ t \in Seq(S) /\ Len(t) = Len(s) + 1 /\ Len(s) \in Nat
      /\ t[Len(s) + 1] = e /\ \A i \in 1..Len(s) : t[i] = s[i]
      /\ DOMAIN s = 1..Len(s) /\ DOMAIN t = 1..Len(t)
  OBVIOUS
<1>. HIDE DEF t
<1>2. \A i \in DOMAIN t : (i \in DOMAIN s /\ t[i] = s[i]) \/ (i = Len(s) + 1 /\ t[i] = e)
  BY <1>1
<1>3. \A i \in DOMAIN s : i \in DOMAIN t
  BY <1>1
<1>4. Len(s) + 1 \in DOMAIN t
  BY <1>1
<1>5. ToSet(t) = ToSet(s) \cup {e}
  BY <1>1, <1>2, <1>3, <1>4 DEF ToSet
<1>6. ASSUME IsInjective(s), e \notin ToSet(s) PROVE IsInjective(t)
  BY <1>1, <1>2, <1>6 DEF ToSet, IsInjective
<1>. QED
  BY <1>5, <1>6 DEF t

\* The list after each pass of the loop of Chosen.
Choice(chosen, list, ks, S) ==
    /\ chosen \in [0..Len(list) -> Seq(S)]
    /\ chosen[0] = <<>>
    /\ \A i \in 1..Len(list) :
          chosen[i] = IF i \in ks THEN Append(chosen[i - 1], list[i]) ELSE chosen[i - 1]
    /\ Chosen(list, ks) = chosen[Len(list)]

LEMMA ChosenLoop ==
    ASSUME NEW S, NEW list \in Seq(S), NEW ks
    PROVE  \E chosen : Choice(chosen, list, ks, S)
<1>1. PICK n \in Nat : n = Len(list) /\ \A i \in 1..n : list[i] \in S
  OBVIOUS
<1>2. PICK A, e : A = Seq(S) /\ e = <<>> /\ e \in A
  <2>1. <<>> \in Seq(S)
    OBVIOUS
  <2>. QED
    BY <2>1
<1>. DEFINE Pass(s, i) == IF i \in 1..n /\ i \in ks THEN Append(s, list[i]) ELSE s
<1>3. \A s \in A, i \in Nat : Pass(s, i) \in A
  BY <1>1, <1>2
<1>4. PICK g \in [A \X Nat -> A] : \A s \in A, i \in Nat : g[<<s, i>>] = Pass(s, i)
  <2>. DEFINE h == [p \in A \X Nat |-> Pass(p[1], p[2])]
  <2>1. h \in [A \X Nat -> A] /\ \A s \in A, i \in Nat : h[<<s, i>>] = Pass(s, i)
    <3>. HIDE DEF Pass
    <3>. QED
      BY <1>3
  <2>. QED
    BY <2>1
<1>r. PICK f : IsRun(f, n, A, e, g)
  BY <1>2, Iteration
<1>5. /\ f \in [0..n -> A]
      /\ f[0] = e /\ \A i \in 1..n : f[i] = g[<<f[i - 1], i>>]
  BY <1>r DEF IsRun
<1>6. ASSUME NEW i \in 1..n
      PROVE  f[i] = IF i \in ks THEN Append(f[i - 1], list[i]) ELSE f[i - 1]
  <2>1. i \in Nat /\ i - 1 \in 0..n
    BY <1>1
  <2>2. f[i - 1] \in A
    BY <1>5, <2>1
  <2>3. f[i] = Pass(f[i - 1], i)
    BY <1>4, <1>5, <2>1, <2>2
  <2>. QED
    BY <2>3
<1>. DEFINE Passes(h) == [i \in 0..n |->
                          IF i = 0 THEN <<>>
                          ELSE IF i \in ks THEN Append(h[i - 1], list[i]) ELSE h[i - 1]]
            chosen == CHOOSE h : h = Passes(h)
<1>7. f = Passes(f)
  <2>1. \A i \in 0..n : f[i] = IF i = 0 THEN <<>>
                              ELSE IF i \in ks THEN Append(f[i - 1], list[i]) ELSE f[i - 1]
    <3>1. \A i \in 0..n : i = 0 \/ i \in 1..n
      BY <1>1
    <3>. QED
      BY <1>2, <1>5, <1>6, <3>1
  <2>2. f = [i \in 0..n |-> f[i]]
    BY <1>5
  <2>. QED
    BY <2>1, <2>2
<1>8. chosen = Passes(chosen)
  <2>. HIDE DEF Passes
  <2>. QED
    BY <1>7
<1>9. Chosen(list, ks) = chosen[n]
  BY <1>1 DEF Chosen
<1>. HIDE DEF chosen
<1>10. /\ chosen[0] = <<>>
       /\ \A i \in 1..n : chosen[i] = IF i \in ks THEN Append(chosen[i - 1], list[i])
                                    ELSE chosen[i - 1]
       /\ chosen = [i \in 0..n |-> chosen[i]]
  <2>1. 0 \in 0..n /\ \A i \in 1..n : i \in 0..n /\ i # 0
    BY <1>1
  <2>. QED
    BY <1>8, <2>1
<1>11. ASSUME NEW i \in 1..n, chosen[i - 1] \in A
       PROVE  chosen[i] = g[<<chosen[i - 1], i>>]
  <2>1. i \in Nat /\ g[<<chosen[i - 1], i>>] = Pass(chosen[i - 1], i)
    <3>1. i \in Nat
      BY <1>1
    <3>. HIDE DEF Pass
    <3>. QED
      BY <1>4, <1>11, <3>1
  <2>2. chosen[i] = IF i \in ks THEN Append(chosen[i - 1], list[i]) ELSE chosen[i - 1]
    BY <1>10
  <2>. QED
    BY <2>1, <2>2
<1>12. chosen \in [0..n -> A]
  <2>. HIDE DEF Passes
  <2>1. IsRun(chosen, n, A, e, g)
    BY <1>2, <1>10, <1>11, LoopIsRun
  <2>. QED
    BY <2>1 DEF IsRun
<1>. HIDE DEF Passes
<1>. QED
  BY <1>1, <1>2, <1>9, <1>10, <1>12 DEF Choice

\* The elements of a list but one, in their order: what is first stays first.
LEMMA WithoutIsAList ==
    ASSUME NEW S, NEW list \in Seq(S), NEW x
    PROVE  /\ Without(list, x) \in Seq(S)
           /\ ToSet(Without(list, x)) = ToSet(list) \ {x}
           /\ list # <<>> /\ list[1] # x
                => Without(list, x) # <<>> /\ Without(list, x)[1] = list[1]
           /\ IsInjective(list) => IsInjective(Without(list, x))
<1>1. PICK n \in Nat : n = Len(list) /\ \A i \in 1..n : list[i] \in S
  OBVIOUS
<1>w. PICK kept \in [0..Len(list) -> Seq(S)] :
        /\ kept[0] = <<>>
        /\ \A i \in 1..Len(list) :
             kept[i] = IF list[i] # x THEN Append(kept[i - 1], list[i]) ELSE kept[i - 1]
        /\ Without(list, x) = kept[Len(list)]
  <2>. DEFINE others == {i \in DOMAIN list : list[i] # x}
  <2>0. Without(list, x) = Chosen(list, others)
    BY DEF Without
  <2>1. PICK ks : /\ Without(list, x) = Chosen(list, ks)
                  /\ \A i \in 1..Len(list) : i \in ks <=> list[i] # x
    <3>1. \A i \in 1..Len(list) : i \in others <=> list[i] # x
      OBVIOUS
    <3>. HIDE DEF others
    <3>. QED
      BY <2>0, <3>1
  <2>2. PICK kept : Choice(kept, list, ks, S)
    BY ChosenLoop
  <2>. QED
    BY <2>1, <2>2 DEF Choice
<1>2. /\ kept \in [0..n -> Seq(S)]
      /\ kept[0] = <<>>
      /\ \A i \in 1..n :
           kept[i] = IF list[i] # x THEN Append(kept[i - 1], list[i]) ELSE kept[i - 1]
      /\ Without(list, x) = kept[n]
  BY <1>1, <1>w
<1>. DEFINE Upto(i) == {list[k] : k \in 1..i}
            P(i) == /\ ToSet(kept[i]) = Upto(i) \ {x}
                    /\ i > 0 /\ list[1] # x => kept[i] # <<>> /\ kept[i][1] = list[1]
                    /\ IsInjective(list) => IsInjective(kept[i])
            T == {i \in 0..n : P(i)}
<1>3. 0 \in T
  <2>1. ToSet(<<>>) = {} /\ IsInjective(<<>>) /\ Upto(0) = {}
    BY DEF ToSet, IsInjective
  <2>. HIDE DEF Upto
  <2>. QED
    BY <1>1, <1>2, <2>1
<1>4. ASSUME NEW i \in 0..(n - 1), i \in T PROVE i + 1 \in T
  <2>1. i + 1 \in 1..n /\ (i + 1) - 1 = i /\ i \in 0..n /\ i + 1 \in 0..n /\ i + 1 > 0
    BY <1>1
  <2>2. Upto(i + 1) = Upto(i) \cup {list[i + 1]}
    <3>1. 1..(i + 1) = 1..i \cup {i + 1}
      BY <2>1
    <3>. QED
      BY <3>1
  <2>3. P(i) /\ kept[i] \in Seq(S)
    BY <1>2, <1>4, <2>1
  <2>4. i = 0 \/ i > 0
    BY <1>1
  <2>5. CASE list[i + 1] # x
    <3>1. kept[i + 1] = Append(kept[i], list[i + 1])
      BY <1>2, <2>1, <2>5
    <3>2. list[i + 1] \in S
      BY <1>1, <2>1
    <3>3. IsInjective(list) => list[i + 1] \notin Upto(i)
      <4>1. DOMAIN list = 1..n /\ \A k \in 1..i : k \in 1..n /\ k # i + 1
        BY <1>1, <2>1
      <4>. QED
        BY <2>1, <4>1 DEF IsInjective
    <3>4. /\ kept[i + 1] # <<>>
          /\ kept[i] # <<>> => kept[i + 1][1] = kept[i][1]
          /\ kept[i] = <<>> => kept[i + 1][1] = list[i + 1]
      <4>. DEFINE s == kept[i]
                  e == list[i + 1]
      <4>1. s \in Seq(S) /\ e \in S
        BY <2>3, <3>2
      <4>. HIDE DEF s, e
      <4>2. /\ Append(s, e) # <<>>
            /\ s # <<>> => Append(s, e)[1] = s[1]
            /\ s = <<>> => Append(s, e)[1] = e
        <5>1. s = <<>> \/ 1 \in 1..Len(s)
          BY <4>1, EmptySeq
        <5>2. s = <<>> => Len(s) + 1 = 1
          OBVIOUS
        <5>. QED
          BY <4>1, <5>1, <5>2, AppendProperties
      <4>. QED
        BY <3>1, <4>2 DEF s, e
    <3>. HIDE DEF Upto
    <3>5. /\ ToSet(kept[i + 1]) = Upto(i + 1) \ {x}
          /\ IsInjective(list) => IsInjective(kept[i + 1])
      BY <2>2, <2>3, <2>5, <3>1, <3>2, <3>3, AppendElements
    <3>6. list[1] # x => kept[i + 1][1] = list[1]
      BY <1>2, <2>3, <2>4, <3>4
    <3>. QED
      BY <2>1, <3>4, <3>5, <3>6
  <2>6. CASE list[i + 1] = x
    <3>1. kept[i + 1] = kept[i]
      BY <1>2, <2>1, <2>6
    <3>. HIDE DEF Upto
    <3>2. Upto(i + 1) \ {x} = Upto(i) \ {x}
      BY <2>2, <2>6
    <3>. QED
      BY <2>1, <2>3, <2>4, <2>6, <3>1, <3>2
  <2>. QED
    BY <2>5, <2>6
<1>5. n \in T
  <2>. HIDE DEF T
  <2>1. 0..n \subseteq T
    BY <1>1, <1>3, <1>4, InductionUpTo
  <2>. QED
    BY <1>1, <2>1
<1>6. Upto(n) = ToSet(list) /\ (list # <<>> => n > 0)
  BY <1>1 DEF ToSet
<1>. HIDE DEF Upto
<1>. QED
  BY <1>1, <1>2, <1>5, <1>6

\* The list after each pass of the loop of FlattenSeq.
Concatenation(flat, lists, S) ==
    /\ flat \in [0..Len(lists) -> Seq(S)]
    /\ flat[0] = <<>>
    /\ \A i \in 1..Len(lists) : flat[i] = flat[i - 1] \o lists[i]
    /\ FlattenSeq(lists) = flat[Len(lists)]

LEMMA FlattenLoop ==
    ASSUME NEW S, NEW lists \in Seq(Seq(S))
    PROVE  \E flat : Concatenation(flat, lists, S)
<1>1. PICK n \in Nat : n = Len(lists) /\ \A i \in 1..n : lists[i] \in Seq(S)
  OBVIOUS
<1>2. PICK A, e : A = Seq(S) /\ e = <<>> /\ e \in A
  <2>1. <<>> \in Seq(S)
    OBVIOUS
  <2>. QED
    BY <2>1
<1>. DEFINE Pass(s, i) == IF i \in 1..n THEN s \o lists[i] ELSE s
<1>3. \A s \in A, i \in Nat : Pass(s, i) \in A
  BY <1>1, <1>2
<1>4. PICK g \in [A \X Nat -> A] : \A s \in A, i \in Nat : g[<<s, i>>] = Pass(s, i)
  <2>. DEFINE h == [p \in A \X Nat |-> Pass(p[1], p[2])]
  <2>1. h \in [A \X Nat -> A] /\ \A s \in A, i \in Nat : h[<<s, i>>] = Pass(s, i)
    <3>. HIDE DEF Pass
    <3>. QED
      BY <1>3
  <2>. QED
    BY <2>1
<1>5. PICK r : IsRun(r, n, A, e, g)
  BY <1>2, Iteration
<1>6. /\ r \in [0..n -> A]
      /\ r[0] = e /\ \A i \in 1..n : r[i] = g[<<r[i - 1], i>>]
  BY <1>5 DEF IsRun
<1>7. ASSUME NEW i \in 1..n
      PROVE  r[i] = r[i - 1] \o lists[i]
  <2>1. i \in Nat /\ i - 1 \in 0..n
    BY <1>1
  <2>2. r[i] = Pass(r[i - 1], i)
    <3>1. r[i - 1] \in A
      BY <1>6, <2>1
    <3>. HIDE DEF Pass
    <3>. QED
      BY <1>4, <1>6, <2>1, <3>1
  <2>. QED
    BY <2>2
<1>s. SUFFICES FlattenSeq(lists) = r[n]
  <2>. HIDE DEF Pass
  <2>1. ASSUME FlattenSeq(lists) = r[n] PROVE Concatenation(r, lists, S)
    BY <1>1, <1>2, <1>6, <1>7, <2>1 DEF Concatenation
  <2>. QED
    BY <2>1
<1>f. ASSUME n # 0 PROVE 1 \in 1..n /\ r[1] = lists[1]
  <2>1. 1 \in 1..n /\ 1 - 1 = 0
    BY <1>1, <1>f
  <2>2. r[1] = r[0] \o lists[1] /\ r[0] = <<>>
    BY <1>2, <1>6, <1>7, <2>1
  <2>3. lists[1] \in Seq(S)
    BY <1>1, <2>1
  <2>4. <<>> \o lists[1] = lists[1]
    BY <2>3
  <2>. QED
    BY <2>1, <2>2, <2>4
<1>8. CASE n = 0
  <2>1. lists = <<>>
    BY <1>1, <1>8, EmptySeq
  <2>2. FlattenSeq(lists) = <<>>
    BY <1>1, <1>8, <2>1 DEF FlattenSeq
  <2>. QED
    BY <1>2, <1>6, <1>8, <2>2
<1>9. CASE n # 0
  <2>. DEFINE Passes(h) == [i \in 1..n |-> IF i = 1 THEN lists[i] ELSE h[i - 1] \o lists[i]]
              flat == CHOOSE h : h = Passes(h)
              rest == [i \in 1..n |-> r[i]]
  <2>1. rest = Passes(rest)
    <3>1. ASSUME NEW i \in 1..n
          PROVE  rest[i] = IF i = 1 THEN lists[i] ELSE rest[i - 1] \o lists[i]
      <4>1. CASE i = 1
        BY <1>9, <1>f, <4>1
      <4>2. CASE i # 1
        <5>1. i - 1 \in 1..n /\ i - 1 # 0
          BY <1>1, <4>2
        <5>. QED
          BY <1>7, <4>2, <5>1
      <4>. QED
        BY <4>1, <4>2
    <3>. QED
      BY <3>1
  <2>2. flat = Passes(flat)
    <3>. HIDE DEF Passes, rest
    <3>. QED
      BY <2>1
  <2>3. FlattenSeq(lists) = flat[n]
    BY <1>1, <1>9 DEF FlattenSeq
  <2>. HIDE DEF flat
  <2>4. /\ flat[1] = lists[1]
        /\ \A i \in 2..n : flat[i] = flat[i - 1] \o lists[i]
    <3>1. 1 \in 1..n /\ \A i \in 2..n : i \in 1..n /\ i # 1
      BY <1>1, <1>9
    <3>. QED
      BY <2>2, <3>1
  <2>. DEFINE U == {i \in 0..(n - 1) : flat[i + 1] = r[i + 1]}
  <2>5. 0 \in U
    <3>1. flat[1] = r[1] /\ 0 \in 0..(n - 1) /\ 0 + 1 = 1
      BY <1>1, <1>9, <1>f, <2>4
    <3>. QED
      BY <3>1
  <2>6. ASSUME NEW i \in 0..((n - 1) - 1), i \in U PROVE i + 1 \in U
    <3>1. /\ i + 2 \in 2..n /\ (i + 2) - 1 = i + 1 /\ (i + 1) + 1 = i + 2
          /\ i + 1 \in 0..(n - 1) /\ i + 2 \in 1..n
      BY <1>1, <1>9
    <3>2. flat[i + 2] = r[i + 1] \o lists[i + 2] /\ r[i + 2] = r[i + 1] \o lists[i + 2]
      BY <1>7, <2>4, <2>6, <3>1
    <3>. QED
      BY <3>1, <3>2
  <2>7. n - 1 \in U
    <3>1. n - 1 \in Nat
      BY <1>1, <1>9
    <3>. HIDE DEF U
    <3>2. 0..(n - 1) \subseteq U
      BY <2>5, <2>6, <3>1, InductionUpTo
    <3>. QED
      BY <3>1, <3>2
  <2>8. flat[n] = r[n]
    BY <1>1, <2>7
  <2>. QED
    BY <2>3, <2>8
<1>. QED
  BY <1>8, <1>9

--------------------------------------------------------------------------
(* Bags. *)

\* A list is its first element and its tail.
LEMMA TailElements ==
    ASSUME NEW S, NEW list \in Seq(S), list # <<>>
    PROVE  /\ Tail(list) \in Seq(S)
           /\ list[1] \in ToSet(list)
           /\ ToSet(list) = {list[1]} \cup ToSet(Tail(list))
<1>1. /\ Tail(list) \in Seq(S) /\ Len(list) \in Nat /\ Len(list) >= 1
      /\ DOMAIN list = 1..Len(list) /\ DOMAIN Tail(list) = 1..(Len(list) - 1)
      /\ \A i \in 1..(Len(list) - 1) : Tail(list)[i] = list[i + 1]
  OBVIOUS
<1>2. ASSUME NEW i \in DOMAIN list, i # 1
      PROVE  \E k \in DOMAIN Tail(list) : Tail(list)[k] = list[i]
  <2>1. i - 1 \in 1..(Len(list) - 1) /\ (i - 1) + 1 = i
    BY <1>1, <1>2
  <2>. QED
    BY <1>1, <2>1
<1>3. \A i \in DOMAIN Tail(list) : i + 1 \in DOMAIN list
  BY <1>1
<1>4. 1 \in DOMAIN list
  BY <1>1
<1>. QED
  BY <1>1, <1>2, <1>3, <1>4 DEF ToSet

\* What becomes of a bag when one occurrence of j is replaced by one of each
\* element of S.
Replacement(B, j, S, C) == C = (B (-) SetToBag({j})) (+) SetToBag(S)

LEMMA BagReplace ==
    ASSUME NEW B, IsABag(B), NEW j \in BagToSet(B), NEW S,
           NEW C, Replacement(B, j, S, C)
    PROVE  /\ IsABag(C)
           /\ BagToSet(C) = {k \in BagToSet(B) : k # j \/ B[j] > 1} \cup S
           /\ \A k \in BagToSet(B) \ (S \cup {j}) : C[k] = B[k]
           /\ \A k \in S \ BagToSet(B) : C[k] = 1
<1>1. /\ IsABag(C)
      /\ \A k \in BagToSet(B) \ (S \cup {j}) : C[k] = B[k]
      /\ \A k \in S \ BagToSet(B) : C[k] = 1
  BY DEF Replacement, IsABag, BagToSet, SetToBag, (-), (+)
<1>2. BagToSet(C) \subseteq {k \in BagToSet(B) : k # j \/ B[j] > 1} \cup S
  BY DEF Replacement, IsABag, BagToSet, SetToBag, (-), (+)
<1>3. {k \in BagToSet(B) : k # j \/ B[j] > 1} \cup S \subseteq BagToSet(C)
  BY DEF Replacement, IsABag, BagToSet, SetToBag, (-), (+)
<1>. QED
  BY <1>1, <1>2, <1>3

\* The elements of a set added to a bag.
LEMMA BagAdd ==
    ASSUME NEW B, IsABag(B), NEW S, NEW C, C = B (+) SetToBag(S)
    PROVE  /\ IsABag(C)
           /\ BagToSet(C) = BagToSet(B) \cup S
           /\ \A k \in BagToSet(B) \ S : C[k] = B[k]
           /\ \A k \in S \ BagToSet(B) : C[k] = 1
BY DEF IsABag, BagToSet, SetToBag, (+)

\* The part of a bag whose elements are in a set.
LEMMA BagPart ==
    ASSUME NEW B, IsABag(B), NEW S \in SUBSET BagToSet(B),
           NEW C, C = [k \in S |-> B[k]]
    PROVE  /\ IsABag(C)
           /\ BagToSet(C) = S
           /\ \A k \in S : C[k] = B[k]
BY DEF IsABag, BagToSet

--------------------------------------------------------------------------
(* Sums over finite sets. *)

\* F[s] is the sum of g over the subset s of P, in whatever order it is made up.
Additive(F, g, P) ==
    /\ F \in [SUBSET P -> Int]
    /\ F[{}] = 0
    /\ \A s \in SUBSET P : \A x \in P \ s : F[s \cup {x}] = F[s] + g[x]

\* From the sums over the subsets of a set to those over the subsets of a larger one.
LEMMA AdditiveStep ==
    ASSUME NEW P, NEW a, a \notin P, NEW Q, Q = P \cup {a}, NEW g \in [Q -> Int],
           NEW F, Additive(F, g, P)
    PROVE  \E G : Additive(G, g, Q)
<1>. DEFINE G == [s \in SUBSET Q |-> IF a \in s THEN F[s \ {a}] + g[a] ELSE F[s]]
<1>1. /\ F \in [SUBSET P -> Int] /\ F[{}] = 0
      /\ \A s \in SUBSET P : \A x \in P \ s : F[s \cup {x}] = F[s] + g[x]
  BY DEF Additive
<1>2. \A s \in SUBSET Q : s \ {a} \in SUBSET P /\ (a \notin s => s \in SUBSET P)
  OBVIOUS
<1>3. \A s \in SUBSET Q : G[s] \in Int /\ G[s] = IF a \in s THEN F[s \ {a}] + g[a] ELSE F[s]
  BY <1>1, <1>2
<1>4. G \in [SUBSET Q -> Int]
  BY <1>3
<1>5. G[{}] = 0
  BY <1>1, <1>3
<1>. HIDE DEF G
<1>6. ASSUME NEW s \in SUBSET Q, NEW x \in Q \ s PROVE G[s \cup {x}] = G[s] + g[x]
  <2>1. s \cup {x} \in SUBSET Q /\ g[x] \in Int /\ g[a] \in Int
    OBVIOUS
  <2>2. CASE x = a
    <3>1. (s \cup {x}) \ {a} = s
      BY <2>2
    <3>. QED
      BY <1>3, <2>1, <2>2, <3>1
  <2>3. CASE x # a /\ a \in s
    <3>1. (s \cup {x}) \ {a} = (s \ {a}) \cup {x} /\ x \in P \ (s \ {a}) /\ s \ {a} \in SUBSET P
      BY <2>3
    <3>2. F[(s \ {a}) \cup {x}] = F[s \ {a}] + g[x] /\ F[s \ {a}] \in Int
      BY <1>1, <3>1
    <3>3. G[s \cup {x}] = F[(s \ {a}) \cup {x}] + g[a] /\ G[s] = F[s \ {a}] + g[a]
      BY <1>3, <2>1, <2>3, <3>1
    <3>. QED
      BY <2>1, <3>2, <3>3
  <2>4. CASE x # a /\ a \notin s
    <3>1. s \in SUBSET P /\ x \in P \ s /\ a \notin s \cup {x}
      BY <2>4
    <3>. QED
      BY <1>1, <1>3, <2>1, <3>1
  <2>. QED
    BY <2>2, <2>3, <2>4
<1>7. Additive(G, g, Q)
  BY <1>4, <1>5, <1>6 DEF Additive
<1>. QED
  BY <1>7

LEMMA AdditiveExists ==
    ASSUME NEW P, IsFiniteSet(P), NEW g \in [P -> Int]
    PROVE  \E F : Additive(F, g, P)
<1>1. PICK n \in Nat : n = Cardinality(P)
  BY FS_CardinalityType
<1>. DEFINE K == {k \in 0..n : \A S \in SUBSET P :
                    Cardinality(S) = k => \E F : Additive(F, [x \in S |-> g[x]], S)}
<1>2. 0 \in K
  <2>. SUFFICES ASSUME NEW S \in SUBSET P, Cardinality(S) = 0
                PROVE  \E F : Additive(F, [x \in S |-> g[x]], S)
    BY <1>1
  <2>1. S = {}
    BY FS_Subset, FS_EmptySet
  <2>2. Additive([s \in SUBSET S |-> 0], [x \in S |-> g[x]], S)
    BY <2>1 DEF Additive
  <2>. QED
    BY <2>2
<1>3. ASSUME NEW k \in 0..(n - 1), k \in K PROVE k + 1 \in K
  <2>1. k + 1 \in 0..n /\ k \in Nat
    BY <1>1
  <2>. SUFFICES ASSUME NEW S \in SUBSET P, Cardinality(S) = k + 1
                PROVE  \E F : Additive(F, [x \in S |-> g[x]], S)
    BY <2>1
  <2>2. IsFiniteSet(S)
    BY FS_Subset
  <2>3. PICK a \in S : TRUE
    BY <2>1, FS_EmptySet
  <2>4. PICK T : T = S \ {a}
    OBVIOUS
  <2>5. T \in SUBSET P /\ Cardinality(T) = k /\ a \notin T /\ S = T \cup {a}
    <3>1. Cardinality(T) = IF a \in S THEN Cardinality(S) - 1 ELSE Cardinality(S)
      BY <2>2, <2>4, FS_RemoveElement
    <3>. QED
      BY <2>1, <2>4, <3>1
  <2>6. PICK F : Additive(F, [x \in T |-> g[x]], T)
    BY <1>3, <2>5
  <2>. DEFINE h == [x \in S |-> g[x]]
  <2>7. h \in [S -> Int] /\ \A x \in T : h[x] = g[x] /\ [y \in T |-> g[y]][x] = g[x]
    BY <2>5
  <2>8. Additive(F, h, T)
    <3>. HIDE DEF h
    <3>. QED
      BY <2>6, <2>7 DEF Additive
  <2>. HIDE DEF h
  <2>9. \E G : Additive(G, h, S)
    BY <2>5, <2>7, <2>8, AdditiveStep
  <2>. QED
    BY <2>9 DEF h
<1>4. n \in K
  <2>. HIDE DEF K
  <2>1. 0..n \subseteq K
    BY <1>1, <1>2, <1>3, InductionUpTo
  <2>. QED
    BY <1>1, <2>1
<1>5. PICK F : Additive(F, [x \in P |-> g[x]], P)
  BY <1>1, <1>4
<1>6. [x \in P |-> g[x]] = g
  OBVIOUS
<1>. QED
  BY <1>5, <1>6

\* The fold that MapThenSumSet is takes some element of the set away at a time.
Folding(f, g, P) ==
    f = [s \in SUBSET P |-> IF s = {} THEN 0
                            ELSE g[CHOOSE x \in s : TRUE] + f[s \ {CHOOSE x \in s : TRUE}]]

LEMMA AdditiveIsFolding ==
    ASSUME NEW P, NEW g \in [P -> Int], NEW F, Additive(F, g, P)
    PROVE  Folding(F, g, P)
<1>1. ASSUME NEW s \in SUBSET P, s # {}
      PROVE  F[s] = g[CHOOSE x \in s : TRUE] + F[s \ {CHOOSE x \in s : TRUE}]
  <2>1. PICK x \in s : x = CHOOSE y \in s : TRUE
    BY <1>1
  <2>2. s \ {x} \in SUBSET P /\ x \in P \ (s \ {x}) /\ (s \ {x}) \cup {x} = s
    OBVIOUS
  <2>3. F[s] = F[s \ {x}] + g[x] /\ F[s \ {x}] \in Int /\ g[x] \in Int
    BY <2>2 DEF Additive
  <2>4. F[s] = g[x] + F[s \ {x}]
    BY <2>3
  <2>. QED
    BY <2>1, <2>4
<1>2. F = [s \in SUBSET P |-> F[s]] /\ F[{}] = 0
  BY DEF Additive
<1>. QED
  BY <1>1, <1>2 DEF Folding

LEMMA FoldingIsAdditive ==
    ASSUME NEW P, IsFiniteSet(P), NEW g, NEW F, Folding(F, g, P), NEW f, Folding(f, g, P)
    PROVE  f[P] = F[P]
<1>1. PICK n \in Nat : n = Cardinality(P)
  BY FS_CardinalityType
<1>. DEFINE K == {k \in 0..n : \A s \in SUBSET P : Cardinality(s) = k => f[s] = F[s]}
<1>2. /\ f[{}] = 0 /\ F[{}] = 0
      /\ \A s \in SUBSET P : s # {} =>
            \E x \in s : f[s] = g[x] + f[s \ {x}] /\ F[s] = g[x] + F[s \ {x}]
  <2>1. ASSUME NEW s \in SUBSET P, s # {}
        PROVE  \E x \in s : f[s] = g[x] + f[s \ {x}] /\ F[s] = g[x] + F[s \ {x}]
    <3>1. PICK x \in s : x = CHOOSE y \in s : TRUE
      BY <2>1
    <3>2. f[s] = g[x] + f[s \ {x}]
      BY <2>1, <3>1 DEF Folding
    <3>3. F[s] = g[x] + F[s \ {x}]
      BY <2>1, <3>1 DEF Folding
    <3>. QED
      BY <3>2, <3>3
  <2>2. {} \in SUBSET P
    OBVIOUS
  <2>3. f[{}] = 0
    BY <2>2 DEF Folding
  <2>4. F[{}] = 0
    BY <2>2 DEF Folding
  <2>. QED
    BY <2>1, <2>3, <2>4
<1>3. 0 \in K
  <2>1. ASSUME NEW s \in SUBSET P, Cardinality(s) = 0 PROVE s = {}
    <3>1. IsFiniteSet(s)
      BY FS_Subset
    <3>. QED
      BY <2>1, <3>1, FS_EmptySet
  <2>2. \A s \in SUBSET P : Cardinality(s) = 0 => f[s] = F[s]
    BY <1>2, <2>1
  <2>3. 0 \in 0..n
    BY <1>1
  <2>. QED
    BY <2>2, <2>3
<1>4. ASSUME NEW k \in 0..(n - 1), k \in K PROVE k + 1 \in K
  <2>1. k + 1 \in 0..n /\ k \in Nat
    BY <1>1
  <2>. SUFFICES ASSUME NEW s \in SUBSET P, Cardinality(s) = k + 1 PROVE f[s] = F[s]
    BY <2>1
  <2>2. IsFiniteSet(s) /\ s # {}
    BY <2>1, FS_Subset, FS_EmptySet
  <2>3. PICK x \in s : f[s] = g[x] + f[s \ {x}] /\ F[s] = g[x] + F[s \ {x}]
    BY <1>2, <2>2
  <2>4. s \ {x} \in SUBSET P /\ Cardinality(s \ {x}) = k
    <3>1. Cardinality(s \ {x}) = IF x \in s THEN Cardinality(s) - 1 ELSE Cardinality(s)
      BY <2>2, FS_RemoveElement
    <3>. QED
      BY <2>1, <3>1
  <2>. QED
    BY <1>4, <2>3, <2>4
<1>5. n \in K
  <2>. HIDE DEF K
  <2>1. 0..n \subseteq K
    BY <1>1, <1>3, <1>4, InductionUpTo
  <2>. QED
    BY <1>1, <2>1
<1>. QED
  BY <1>1, <1>5
==========================================================================
