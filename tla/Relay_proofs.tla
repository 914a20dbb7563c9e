-------------------------- MODULE Relay_proofs --------------------------
(***************************************************************************)
(* Theorems about Relay, for any number of nodes, miners and transactions, *)
(* and any number of starts and crashes.                                   *)
(***************************************************************************)
EXTENDS Relay, Basics_proofs

--------------------------------------------------------------------------
(***************************************************************************)
(* The inductive invariant.                                                *)
(***************************************************************************)

\* The nodes that a relay has still to tell, also while it takes one off the list.
Relays(j) == j.pc = "relay" \/ (j.pc \in {"fails", "drop"} /\ j.next = "relay")
StillToTell(j) == IF j.pc = "relay" THEN j.list ELSE j.rest

\* A version and what follows from it to the end of HandleVersion.
Reports(j) ==
    \/ j.pc \in {"version", "answer", "check", "read", "append"}
    \/ j.pc \in {"fails", "drop"} /\ j.next = "check"

\* A KnownNodes of n that is right about who the central node is.
RightAboutCentral(n, list) ==
    IF n = Central THEN list # <<>> /\ list[1] = Central ELSE n \notin ToSet(list)

\* Nobody reports to itself.
ReportsToOther(j) == Reports(j) => j.from \in Node /\ j.from # j.at

\* Only the central node relays, what it has pooled, and not to itself.
RelaysItsOwn(j) ==
    Relays(j) => /\ j.at = Central /\ j.tx \in pool[Central]
                 /\ Central \notin ToSet(StillToTell(j))

\* A list that is going to be assigned to KnownNodes is right about the central node,
\* and contains it unless it was down; so will a list that is still to be computed.
AssignsRightly(j) ==
    /\ j.pc = "fails" => /\ Head(j.list) # j.at
                         /\ ~lost[j.at] => Head(j.list) # Central
    /\ j.pc \in {"append", "drop"} =>
         /\ RightAboutCentral(j.at, j.list)
         /\ ~lost[j.at] => Central \in ToSet(j.list)

\* Announcements are the central node's, requests go to it, and unless it was down
\* they are about what it has pooled; so are its answers.
AsksForPooled(j) ==
    /\ j.pc = "inv" => /\ j.from = Central /\ j.at # Central
                       /\ ~lost[j.at] => j.tx \in pool[Central]
    /\ j.pc = "getdata" => /\ j.at = Central /\ j.from \in Node \ {Central}
                           /\ ~lost[j.from] => j.tx \in pool[Central]
    /\ j.pc = "tx" => /\ j.at = Central => j.tx # NoTx
                      /\ j.at # Central /\ ~lost[j.at] => j.tx \in pool[Central]

\* A connection says and holds what the protocol means it to.
Sound(j) ==
    /\ j.pc \in {"fails", "drop"} => j.next \in {"check", "relay", "end"}
    /\ ReportsToOther(j)
    /\ RelaysItsOwn(j)
    /\ AssignsRightly(j)
    /\ AsksForPooled(j)

\* What holds of the memory of node n.
Sane(n) ==
    /\ up[n] => RightAboutCentral(n, known[n])
    /\ up[n] /\ ~lost[n] => /\ up[Central]
                            /\ Central \in ToSet(known[n])
                            /\ pool[n] \subseteq pool[Central]

CentralInv ==
    /\ TypeOK
    /\ \A j \in BagToSet(jobs) : Sound(j)
    /\ \A n \in Node : Sane(n)
    /\ NoTx \notin pool[Central]

\* As long as they do not overlap there is one update of KnownNodes at a time, so that
\* the list is what it was when the update began.
OneUpdate(n) ==
    \A j, k \in BagToSet(jobs) :
        (j.at = n /\ j.pc \in Update /\ k.at = n /\ k.pc \in Update)
            => j = k /\ jobs[j] = 1
UpdatesOnce(n) ==
    \A j \in BagToSet(jobs) : j.at = n =>
        /\ j.pc = "read" => j.from \notin ToSet(known[n])
        /\ j.pc = "append" => ToSet(known[n]) \subseteq ToSet(j.list)
        /\ j.pc \in {"append", "drop"} => IsInjective(j.list)

ListInv ==
    \A n \in Node : ~overlap[n] =>
        OneUpdate(n) /\ UpdatesOnce(n) /\ IsInjective(known[n])

\* The central node is going to check whether it knows m.
Checks(j, m) ==
    /\ j.at = Central /\ j.from = m
    /\ j.pc \in {"version", "check"} \/ (j.pc \in {"fails", "drop"} /\ j.next = "check")
WillCheck(m) == \E j \in BagToSet(jobs) : Checks(j, m)

\* The central node knows m and will not forget it.
Keeps(m) ==
    /\ (\A j \in BagToSet(jobs) : j.at = Central => j.pc \notin Update)
          => m \in ToSet(known[Central])
    /\ \A j \in BagToSet(jobs) : j.at = Central =>
         /\ j.pc = "read" => j.from = m \/ m \in ToSet(known[Central])
         /\ j.pc = "fails" => Head(j.list) # m
         /\ j.pc \in {"append", "drop"} => m \in ToSet(j.list)

MemoryInv ==
    \A m \in Node :
        up[m] /\ ~lost[m] /\ up[Central] /\ ~overlap[Central] /\ m \notin slipped
          => WillCheck(m) \/ Keeps(m)

IInv == CentralInv /\ ListInv /\ MemoryInv

--------------------------------------------------------------------------
(* Connections. *)

LEMMA JobFacts ==
    ASSUME TypeOK, NEW j \in BagToSet(jobs)
    PROVE  /\ j \in Connection /\ up[j.at] /\ j.pc # "end"
           /\ j.at \in Node /\ j.from \in Node \cup {NoAddress} /\ j.pc \in Command \cup Place
           /\ j.tx \in Tx \cup {NoTx} /\ j.list \in Seq(Node) /\ j.next \in Place
           /\ j.rest \in Seq(Node)
BY DEF TypeOK, Connection

\* What a new connection consists of.
LEMMA NewJob ==
    ASSUME NEW n \in Node, NEW from \in Node \cup {NoAddress}, NEW pc \in Command \cup Place,
           NEW tx \in Tx \cup {NoTx}
    PROVE  \E k \in Connection :
                  /\ k = Job(n, from, pc, tx)
                  /\ k.at = n /\ k.from = from /\ k.pc = pc /\ k.tx = tx
                  /\ k.next = "end"
<1>. DEFINE J == Job(n, from, pc, tx)
<1>1. <<>> \in Seq(Node)
  OBVIOUS
<1>2. "end" \in Place
  BY DEF Place
<1>3. /\ J \in Connection /\ J.at = n /\ J.from = from /\ J.pc = pc /\ J.tx = tx
      /\ J.next = "end"
  BY <1>1, <1>2 DEF Job, Connection
<1>. USE <1>3
<1>. WITNESS J \in Connection
<1>. QED
  BY <1>3

LEMMA NewMessage ==
    ASSUME NEW n \in Node, NEW from \in Node, NEW pc \in Command, NEW tx \in Tx \cup {NoTx}
    PROVE  \E k \in Connection :
                  /\ k = Job(n, from, pc, tx)
                  /\ k.at = n /\ k.from = from /\ k.pc = pc /\ k.tx = tx
                  /\ k.next = "end"
BY NewJob

\* A handler j that has come to the place pc, or there with a list; that has told the
\* first node on its list; that has not reached the node x; that takes it off a list; and
\* that goes on after that.
Goes(j, pc) == [j EXCEPT !.pc = pc]
GoesWith(j, pc, list) == [j EXCEPT !.pc = pc, !.list = list]
ToldOne(j) == [j EXCEPT !.list = Tail(@)]
Misses(j, x) == [j EXCEPT !.pc = "fails", !.list = <<x>>, !.next = j.pc, !.rest = j.list]
Filters(j, list) == [j EXCEPT !.pc = "drop", !.list = list]
Return(j) == [j EXCEPT !.pc = j.next, !.list = j.rest, !.next = "end", !.rest = <<>>]

LEMMA GoesFacts ==
    ASSUME NEW j \in Connection, NEW pc \in Command \cup Place
    PROVE  \E r \in Connection : /\ r = Goes(j, pc) /\ r.at = j.at /\ r.from = j.from
                                 /\ r.pc = pc /\ r.tx = j.tx /\ r.list = j.list
<1>1. /\ Goes(j, pc) \in Connection
      /\ Goes(j, pc).at = j.at /\ Goes(j, pc).from = j.from
      /\ Goes(j, pc).pc = pc /\ Goes(j, pc).tx = j.tx /\ Goes(j, pc).list = j.list
  BY DEF Connection, Goes
<1>. USE <1>1
<1>. WITNESS Goes(j, pc) \in Connection
<1>. QED
  BY <1>1

LEMMA GoesWithFacts ==
    ASSUME NEW j \in Connection, NEW pc \in Command \cup Place, NEW list \in Seq(Node)
    PROVE  \E r \in Connection : /\ r = GoesWith(j, pc, list) /\ r.at = j.at
                                 /\ r.from = j.from /\ r.pc = pc /\ r.tx = j.tx
                                 /\ r.list = list
<1>. DEFINE R == GoesWith(j, pc, list)
<1>1. /\ R \in Connection /\ R.at = j.at /\ R.from = j.from /\ R.pc = pc
      /\ R.tx = j.tx /\ R.list = list
  BY DEF Connection, GoesWith
<1>. USE <1>1
<1>. WITNESS R \in Connection
<1>. QED
  BY <1>1

LEMMA ToldOneFacts ==
    ASSUME NEW j \in Connection, j.list # <<>>
    PROVE  \E r \in Connection : /\ r = ToldOne(j) /\ r.at = j.at /\ r.from = j.from
                                 /\ r.pc = j.pc /\ r.tx = j.tx /\ r.list = Tail(j.list)
<1>1. /\ ToldOne(j) \in Connection
      /\ ToldOne(j).at = j.at /\ ToldOne(j).from = j.from /\ ToldOne(j).pc = j.pc
      /\ ToldOne(j).tx = j.tx /\ ToldOne(j).list = Tail(j.list)
  <2>1. j.list \in Seq(Node)
    BY DEF Connection
  <2>2. PICK t \in Seq(Node) : t = Tail(j.list)
    BY <2>1, TailElements
  <2>3. ToldOne(j) = [j EXCEPT !.list = t]
    BY <2>2 DEF ToldOne
  <2>. QED
    BY <2>2, <2>3 DEF Connection
<1>. USE <1>1
<1>. WITNESS ToldOne(j) \in Connection
<1>. QED
  BY <1>1

LEMMA MissesFacts ==
    ASSUME NEW j \in Connection, NEW x \in Node, j.pc \in Place
    PROVE  LET d == Misses(j, x)
           IN  /\ d \in Connection /\ d.at = j.at /\ d.from = j.from /\ d.pc = "fails"
               /\ d.tx = j.tx /\ Head(d.list) = x /\ d.next = j.pc /\ d.rest = j.list
<1>1. PICK l \in Seq(Node) : l = <<x>> /\ Head(l) = x
  <2>1. <<x>> \in Seq(Node) /\ Head(<<x>>) = x
    OBVIOUS
  <2>. QED
    BY <2>1
<1>2. Misses(j, x) = [j EXCEPT !.pc = "fails", !.list = l, !.next = j.pc, !.rest = j.list]
  BY <1>1 DEF Misses
<1>. QED
  BY <1>1, <1>2 DEF Connection, Place

LEMMA FiltersFacts ==
    ASSUME NEW j \in Connection, NEW list \in Seq(Node)
    PROVE  LET d == Filters(j, list)
           IN  /\ d \in Connection /\ d.at = j.at /\ d.from = j.from /\ d.pc = "drop"
               /\ d.tx = j.tx /\ d.list = list /\ d.next = j.next /\ d.rest = j.rest
BY DEF Connection, Place, Filters

LEMMA ReturnFacts ==
    ASSUME NEW j \in Connection
    PROVE  LET r == Return(j)
           IN  /\ r \in Connection /\ r.at = j.at /\ r.from = j.from /\ r.pc = j.next
               /\ r.tx = j.tx /\ r.list = j.rest
<1>1. <<>> \in Seq(Node)
  OBVIOUS
<1>. QED
  BY <1>1 DEF Connection, Place, Return

\* The connections after one of them is replaced.
LEMMA Replaced ==
    ASSUME TypeOK, NEW j \in BagToSet(jobs), NEW S, Replace(j, S)
    PROVE  /\ IsABag(jobs')
           /\ BagToSet(jobs') = {k \in BagToSet(jobs) : k # j \/ jobs[j] > 1} \cup S
           /\ \A k \in BagToSet(jobs) \ (S \cup {j}) : jobs'[k] = jobs[k]
           /\ \A k \in S \ BagToSet(jobs) : jobs'[k] = 1
<1>1. IsABag(jobs)
  BY DEF TypeOK
<1>2. Replacement(jobs, j, S, jobs')
  BY DEF Replace, Replacement
<1>. QED
  BY <1>1, <1>2, BagReplace

\* The connections after a message is sent.
LEMMA Added ==
    ASSUME TypeOK, NEW k, jobs' = jobs (+) SetToBag({k})
    PROVE  /\ IsABag(jobs')
           /\ BagToSet(jobs') = BagToSet(jobs) \cup {k}
           /\ \A j \in BagToSet(jobs) : j # k => jobs'[j] = jobs[j]
           /\ k \notin BagToSet(jobs) => jobs'[k] = 1
<1>1. PICK S : S = {k} /\ jobs' = jobs (+) SetToBag(S) /\ IsABag(jobs)
  BY DEF TypeOK
<1>2. /\ IsABag(jobs')
      /\ BagToSet(jobs') = BagToSet(jobs) \cup S
      /\ \A j \in BagToSet(jobs) \ S : jobs'[j] = jobs[j]
      /\ \A j \in S \ BagToSet(jobs) : jobs'[j] = 1
  BY <1>1, BagAdd
<1>. QED
  BY <1>1, <1>2

--------------------------------------------------------------------------
(* The lists of nodes. *)

\* Taking a node that is down off a list leaves a running node on it, and first if it
\* was.
LEMMA OffTheList ==
    ASSUME NEW list \in Seq(Node), NEW x
    PROVE  /\ Without(list, x) \in Seq(Node)
           /\ ToSet(Without(list, x)) = ToSet(list) \ {x}
           /\ \A n \in Node : RightAboutCentral(n, list) /\ x # Central
                                => RightAboutCentral(n, Without(list, x))
           /\ IsInjective(list) => IsInjective(Without(list, x))
<1>1. /\ Without(list, x) \in Seq(Node)
      /\ ToSet(Without(list, x)) = ToSet(list) \ {x}
      /\ list # <<>> /\ list[1] # x
           => Without(list, x) # <<>> /\ Without(list, x)[1] = list[1]
      /\ IsInjective(list) => IsInjective(Without(list, x))
  BY WithoutIsAList
<1>. QED
  BY <1>1 DEF RightAboutCentral

\* The same for a node that is appended, which is not n.
LEMMA OnTheList ==
    ASSUME NEW list \in Seq(Node), NEW x \in Node
    PROVE  /\ Append(list, x) \in Seq(Node)
           /\ ToSet(Append(list, x)) = ToSet(list) \cup {x}
           /\ \A n \in Node : RightAboutCentral(n, list) /\ x # n
                                => RightAboutCentral(n, Append(list, x))
           /\ IsInjective(list) /\ x \notin ToSet(list) => IsInjective(Append(list, x))
<1>1. /\ ToSet(Append(list, x)) = ToSet(list) \cup {x}
      /\ IsInjective(list) /\ x \notin ToSet(list) => IsInjective(Append(list, x))
  BY AppendElements
<1>2. Append(list, x) \in Seq(Node)
  OBVIOUS
<1>3. list # <<>> => Append(list, x) # <<>> /\ Append(list, x)[1] = list[1]
  OBVIOUS
<1>. QED
  BY <1>1, <1>2, <1>3 DEF RightAboutCentral

--------------------------------------------------------------------------
(* What holds of connections and memories. *)

\* What is said of connections stays true while the central node pools more.
LEMMA StaysSound ==
    ASSUME NEW k, Sound(k), lost' = lost, pool[Central] \subseteq pool'[Central]
    PROVE  Sound(k)'
BY DEF Sound, ReportsToOther, RelaysItsOwn, AssignsRightly, AsksForPooled

\* The memory of n becomes the KnownNodes l and the memoryPool p, that of the others stays.
Remembers(n, l, p) ==
    /\ known' \in [Node -> Seq(Node)] /\ pool' \in [Node -> SUBSET (Tx \cup {NoTx})]
    /\ known'[n] = l /\ pool'[n] = p
    /\ \A q \in Node \ {n} : known'[q] = known[q] /\ pool'[q] = pool[q]

\* A handler of n replaces its connection by others and changes its memory.
LEMMA CentralStep ==
    ASSUME CentralInv, NEW j \in BagToSet(jobs), NEW n \in Node, n = j.at,
           NEW S, Replace(j, S), S \subseteq Connection,
           \A k \in S : up[k.at] /\ k.pc # "end" /\ Sound(k)',
           UNCHANGED <<up, sent, starts, lost>>,
           overlap' \in [Node -> BOOLEAN], slipped' \subseteq Node,
           NEW l, NEW p, Remembers(n, l, p),
           RightAboutCentral(n, l), up[n] /\ ~lost[n] => Central \in ToSet(l),
           pool[n] \subseteq p,
           IF n = Central THEN NoTx \notin p ELSE ~lost[n] => p \subseteq pool[Central]
    PROVE  CentralInv'
<1>1. TypeOK /\ up[n] /\ Central \in Node
  BY JobFacts, RelayAssumption DEF CentralInv
<1>2. /\ known' \in [Node -> Seq(Node)] /\ known'[n] = l
      /\ pool' \in [Node -> SUBSET (Tx \cup {NoTx})] /\ pool'[n] = p
      /\ \A q \in Node \ {n} : known'[q] = known[q] /\ pool'[q] = pool[q]
  BY DEF Remembers
<1>3. BagToSet(jobs') \subseteq BagToSet(jobs) \cup S /\ IsABag(jobs')
  BY <1>1, Replaced
<1>4. TypeOK'
  <2>1. /\ BagToSet(jobs') \subseteq Connection
        /\ \A k \in BagToSet(jobs') : up'[k.at] /\ k.pc # "end"
    BY <1>1, <1>3 DEF TypeOK
  <2>2. \A q \in Node : ~up'[q] => known'[q] = <<>> /\ pool'[q] = {}
    BY <1>1, <1>2 DEF TypeOK
  <2>3. /\ up' \in [Node -> BOOLEAN] /\ sent' \subseteq Tx
        /\ \A q \in Node : starts'[q] \in 0 .. MaxStarts[q]
        /\ lost' \in [Node -> BOOLEAN]
    BY <1>1 DEF TypeOK
  <2>. QED
    BY <1>2, <1>3, <2>1, <2>2, <2>3 DEF TypeOK
<1>5. pool[Central] \subseteq pool'[Central]
  BY <1>1, <1>2
<1>6. \A k \in BagToSet(jobs') : Sound(k)'
  BY <1>3, <1>5, StaysSound DEF CentralInv
<1>7. ASSUME NEW q \in Node PROVE Sane(q)'
  BY <1>1, <1>2, <1>5 DEF CentralInv, Sane
<1>8. NoTx \notin pool'[Central]
  BY <1>1, <1>2 DEF CentralInv
<1>. QED
  BY <1>4, <1>6, <1>7, <1>8 DEF CentralInv

\* The same if neither KnownNodes nor memoryPool changes.
LEMMA CentralTalk ==
    ASSUME CentralInv, NEW j \in BagToSet(jobs), NEW S, Replace(j, S), S \subseteq Connection,
           \A k \in S : up[k.at] /\ k.pc # "end" /\ Sound(k),
           UNCHANGED <<up, known, pool, sent, starts, lost>>,
           overlap' \in [Node -> BOOLEAN], slipped' \subseteq Node
    PROVE  CentralInv'
<1>1. PICK n \in Node : n = j.at /\ up[n] /\ TypeOK
  BY JobFacts DEF CentralInv
<1>2. PICK l, p : l = known[n] /\ p = pool[n] /\ Remembers(n, l, p)
  BY <1>1 DEF TypeOK, Remembers
<1>3. /\ RightAboutCentral(n, l) /\ (~lost[n] => Central \in ToSet(l))
      /\ IF n = Central THEN NoTx \notin p ELSE ~lost[n] => p \subseteq pool[Central]
  BY <1>1, <1>2 DEF CentralInv, Sane
<1>4. \A k \in S : Sound(k)'
  BY StaysSound
<1>. QED
  BY <1>1, <1>2, <1>3, <1>4, CentralStep

--------------------------------------------------------------------------
(* Updates of KnownNodes. *)

\* A step in which a handler of n begins, goes on with or ends an update, or none of
\* these.
LEMMA ListStep ==
    ASSUME TypeOK, ListInv, NEW j \in BagToSet(jobs), NEW n \in Node, n = j.at,
           NEW S, Replace(j, S),
           \A k \in S : k.pc \in Update => k.at = n,
           \A q \in Node \ {n} : known'[q] = known[q] /\ (~overlap'[q] => ~overlap[q]),
           ~overlap'[n] =>
             /\ ~overlap[n]
             /\ IsInjective(known'[n])
             /\ \A k \in S : k.pc \in Update => j.pc \in Update \/ ~Updating(n, j)
             /\ \A k, i \in S : k.pc \in Update /\ i.pc \in Update => k = i
             /\ \A k \in S : /\ k.pc = "read" => k.from \notin ToSet(known'[n])
                             /\ k.pc = "append" => ToSet(known'[n]) \subseteq ToSet(k.list)
                             /\ k.pc \in {"append", "drop"} => IsInjective(k.list),
           j.pc \in Update => j \notin S,
           j.pc \notin Update => known'[n] = known[n]
    PROVE  ListInv'
<1>1. /\ BagToSet(jobs') = {k \in BagToSet(jobs) : k # j \/ jobs[j] > 1} \cup S
      /\ \A k \in BagToSet(jobs) \ (S \cup {j}) : jobs'[k] = jobs[k]
      /\ \A k \in S \ BagToSet(jobs) : jobs'[k] = 1
  BY Replaced
<1>2. ASSUME NEW q \in Node, q # n, ~overlap'[q]
      PROVE  OneUpdate(q)' /\ UpdatesOnce(q)' /\ IsInjective(known'[q])
  <2>1. OneUpdate(q) /\ UpdatesOnce(q) /\ IsInjective(known[q]) /\ known'[q] = known[q]
    BY <1>2 DEF ListInv
  <2>2. \A k \in BagToSet(jobs') : k.at = q /\ k.pc \in Update
            => k \in BagToSet(jobs) /\ jobs'[k] = jobs[k]
    BY <1>1, <1>2
  <2>3. OneUpdate(q)'
    BY <2>1, <2>2 DEF OneUpdate
  <2>4. UpdatesOnce(q)'
    BY <2>1, <2>2 DEF UpdatesOnce, Update
  <2>. QED
    BY <2>1, <2>3, <2>4
<1>3. ASSUME ~overlap'[n]
      PROVE  OneUpdate(n)' /\ UpdatesOnce(n)' /\ IsInjective(known'[n])
  <2>1. OneUpdate(n) /\ UpdatesOnce(n)
    BY <1>3 DEF ListInv
  <2>2. CASE j.pc \in Update
    <3>1. jobs[j] = 1 /\ \A k \in BagToSet(jobs) : k.at = n /\ k.pc \in Update => k = j
      BY <2>1, <2>2 DEF OneUpdate
    <3>2. ~(jobs[j] > 1)
      BY <3>1
    <3>3. \A k \in BagToSet(jobs') : k.at = n /\ k.pc \in Update
              => k \in S /\ jobs'[k] = 1
      BY <1>1, <2>2, <3>1, <3>2
    <3>4. OneUpdate(n)'
      BY <1>3, <3>3 DEF OneUpdate
    <3>5. UpdatesOnce(n)'
      BY <1>3, <3>3 DEF UpdatesOnce, Update
    <3>. QED
      BY <1>3, <3>4, <3>5
  <2>3. CASE j.pc \notin Update /\ \E k \in S : k.pc \in Update
    <3>1. \A k \in BagToSet(jobs) : k.at = n => k.pc \notin Update
      BY <1>3, <2>3 DEF Updating
    <3>2. \A k \in BagToSet(jobs') : k.at = n /\ k.pc \in Update
              => k \in S /\ jobs'[k] = 1
      BY <1>1, <3>1
    <3>3. OneUpdate(n)'
      BY <1>3, <3>2 DEF OneUpdate
    <3>4. UpdatesOnce(n)'
      BY <1>3, <3>2 DEF UpdatesOnce, Update
    <3>. QED
      BY <1>3, <3>3, <3>4
  <2>4. CASE j.pc \notin Update /\ \A k \in S : k.pc \notin Update
    <3>1. \A k \in BagToSet(jobs') : k.at = n /\ k.pc \in Update
              => k \in BagToSet(jobs) /\ jobs'[k] = jobs[k]
      BY <1>1, <2>4
    <3>2. OneUpdate(n)'
      BY <2>1, <3>1 DEF OneUpdate
    <3>3. UpdatesOnce(n)'
      BY <2>1, <2>4, <3>1 DEF UpdatesOnce, Update
    <3>. QED
      BY <1>3, <3>2, <3>3
  <2>. QED
    BY <2>2, <2>3, <2>4
<1>. QED
  BY <1>2, <1>3 DEF ListInv

\* What a handler outside the updates of KnownNodes does to neither list nor updates.
LEMMA QuietStep ==
    ASSUME TypeOK, ListInv, MemoryInv, NEW j \in BagToSet(jobs), NEW S, Replace(j, S),
           j.pc \notin Update, \A k \in S : k.pc \notin Update,
           \A k \in S : k.pc = "fails" => ~up[Head(k.list)],
           UNCHANGED <<up, known, lost, overlap, slipped>>,
           \A m \in Node : Checks(j, m) => \E k \in S : Checks(k, m)
    PROVE  ListInv' /\ MemoryInv'
<1>1. PICK n \in Node : n = j.at
  BY JobFacts
<1>2. BagToSet(jobs') = {k \in BagToSet(jobs) : k # j \/ jobs[j] > 1} \cup S
  BY Replaced
<1>3. ListInv'
  <2>1. /\ \A k \in S : /\ k.pc \in Update => FALSE
                        /\ k.pc \notin {"read", "append", "drop"}
    BY DEF Update
  <2>2. ~overlap[n] => IsInjective(known[n])
    BY DEF ListInv
  <2>. QED
    BY <1>1, <2>1, <2>2, ListStep
<1>4. MemoryInv'
  <2>. SUFFICES ASSUME NEW m \in Node, up[m], WillCheck(m) \/ Keeps(m)
                PROVE  WillCheck(m)' \/ Keeps(m)'
    BY DEF MemoryInv
  <2>1. CASE WillCheck(m)
    <3>1. PICK i \in BagToSet(jobs) : Checks(i, m)
      BY <2>1 DEF WillCheck
    <3>2. \E k \in BagToSet(jobs') : Checks(k, m)
      BY <1>2, <3>1
    <3>. QED
      BY <3>2 DEF WillCheck
  <2>2. CASE Keeps(m)
    <3>1. \A k \in BagToSet(jobs) : k.at = Central /\ k.pc \in Update
              => k \in BagToSet(jobs')
      BY <1>2
    <3>2. \A k \in BagToSet(jobs') : /\ k.pc \in Update => k \in BagToSet(jobs)
                                     /\ k.pc = "fails" => (k \in BagToSet(jobs) \/ k \in S)
      BY <1>2
    <3>3. \A k \in BagToSet(jobs') : k.at = Central /\ k.pc = "fails" => Head(k.list) # m
      BY <2>2, <3>2 DEF Keeps
    <3>. QED
      BY <2>2, <3>1, <3>2, <3>3 DEF Keeps, Update
  <2>. QED
    BY <2>1, <2>2
<1>. QED
  BY <1>3, <1>4

\* Another node is dialled.  If it does not listen it will be taken off the list.
LEMMA SendStep ==
    ASSUME IInv, NEW j \in BagToSet(jobs), NEW msg \in Connection, NEW then \in Connection,
           SendData(j.at, j, msg, then), UNCHANGED <<up, known, pool, sent, starts, history>>,
           msg.pc \in Command, Sound(msg), then.at = j.at, then.from = j.from,
           then.pc \in {"check", "relay", "end"}, Sound(then),
           j.pc \notin Update \cup {"check", "fails"}, j.pc = "version" => then.pc = "check"
    PROVE  IInv'
<1>1. PICK n \in Node : n = j.at /\ up[n] /\ TypeOK /\ CentralInv /\ ListInv /\ MemoryInv
  BY JobFacts DEF IInv, CentralInv
<1>2. PICK d : /\ d = Misses(then, msg.at)
               /\ d \in Connection /\ d.at = n /\ d.from = j.from /\ d.pc = "fails"
               /\ d.tx = then.tx /\ Head(d.list) = msg.at /\ d.next = then.pc
               /\ d.rest = then.list
  <2>1. then.pc \in Place /\ msg.at \in Node
    BY DEF Place, Connection
  <2>. QED
    BY <1>1, <2>1, MissesFacts
<1>3. PICK S : /\ S = IF up[msg.at] THEN {msg} \cup Rest(then) ELSE {d}
               /\ Replace(j, S)
  BY <1>1, <1>2 DEF SendData, Misses
<1>4. /\ \A k \in S : \/ k = msg /\ up[msg.at]
                      \/ k = then /\ then.pc # "end"
                      \/ k = d /\ ~up[msg.at]
      /\ then.pc # "end" => then \in S \/ d \in S
  BY <1>3 DEF Rest
<1>5. /\ UNCHANGED <<up, known, pool, sent, starts, lost, overlap, slipped>>
      /\ overlap' \in [Node -> BOOLEAN] /\ slipped' \subseteq Node
  BY <1>1 DEF history, TypeOK
<1>6. ~up[msg.at] => Sound(d)
  <2>1. ReportsToOther(d)
    BY <1>1, <1>2 DEF Sound, ReportsToOther, Reports
  <2>2. RelaysItsOwn(d)
    BY <1>1, <1>2 DEF Sound, RelaysItsOwn, Relays, StillToTell
  <2>3. ~up[msg.at] => AssignsRightly(d)
    BY <1>1, <1>2 DEF AssignsRightly, CentralInv, Sane
  <2>. QED
    BY <1>2, <2>1, <2>2, <2>3 DEF Sound, AsksForPooled
<1>7. S \subseteq Connection /\ \A k \in S : up[k.at] /\ k.pc # "end" /\ Sound(k)
  BY <1>1, <1>2, <1>4, <1>6 DEF Command
<1>8. CentralInv'
  BY <1>1, <1>3, <1>5, <1>7, CentralTalk
<1>9. /\ j.pc \notin Update /\ \A k \in S : k.pc \notin Update
      /\ \A k \in S : k.pc = "fails" => ~up[Head(k.list)]
  BY <1>2, <1>4 DEF Update, Command
<1>10. ASSUME NEW m \in Node, Checks(j, m) PROVE \E k \in S : Checks(k, m)
  <2>1. then.pc = "check" /\ j.from = m /\ j.at = Central
    BY <1>9, <1>10 DEF Checks, Update
  <2>2. Checks(then, m) /\ Checks(d, m)
    BY <1>1, <1>2, <2>1 DEF Checks
  <2>. QED
    BY <1>4, <2>1, <2>2
<1>11. ListInv' /\ MemoryInv'
  BY <1>1, <1>3, <1>5, <1>9, <1>10, QuietStep
<1>. QED
  BY <1>8, <1>11 DEF IInv

--------------------------------------------------------------------------
(* The end of a process. *)

LEMMA EndsInv ==
    ASSUME IInv, NEW n \in Node, up[n], Ends(n)
    PROVE  IInv'
<1>1. TypeOK /\ Central \in Node
  BY RelayAssumption DEF IInv, CentralInv
<1>2. /\ up' = [up EXCEPT ![n] = FALSE]
      /\ known' = [known EXCEPT ![n] = <<>>]
      /\ pool' = [pool EXCEPT ![n] = {}]
      /\ overlap' = [overlap EXCEPT ![n] = FALSE]
      /\ sent' = sent /\ starts' = starts
      /\ n = Central => lost' = up /\ slipped' = {}
      /\ n # Central => lost' = lost /\ slipped' = slipped
  BY DEF Ends
<1>3. /\ ~up'[n] /\ known'[n] = <<>> /\ pool'[n] = {}
      /\ \A q \in Node \ {n} : /\ up'[q] = up[q] /\ known'[q] = known[q]
                               /\ pool'[q] = pool[q] /\ overlap'[q] = overlap[q]
  BY <1>1, <1>2 DEF TypeOK
<1>4. PICK S \in SUBSET BagToSet(jobs) :
        S = {k \in BagToSet(jobs) : k.at # n} /\ jobs' = [k \in S |-> jobs[k]]
  BY DEF Ends
<1>5. IsABag(jobs') /\ BagToSet(jobs') = S /\ \A k \in S : jobs'[k] = jobs[k]
  <2>1. IsABag(jobs)
    BY <1>1 DEF TypeOK
  <2>. QED
    BY <1>4, <2>1, BagPart
<1>6. \A k \in BagToSet(jobs') : k \in BagToSet(jobs) /\ k.at # n /\ k.at \in Node /\ up[k.at]
  BY <1>1, <1>4, <1>5, JobFacts
<1>7. TypeOK'
  <2>1. /\ up' \in [Node -> BOOLEAN] /\ overlap' \in [Node -> BOOLEAN]
        /\ lost' \in [Node -> BOOLEAN] /\ slipped' \subseteq Node
        /\ pool' \in [Node -> SUBSET (Tx \cup {NoTx})]
    BY <1>1, <1>2 DEF TypeOK
  <2>2. known' \in [Node -> Seq(Node)]
    <3>1. <<>> \in Seq(Node)
      OBVIOUS
    <3>. QED
      BY <1>1, <1>2, <3>1 DEF TypeOK
  <2>3. /\ BagToSet(jobs') \subseteq Connection
        /\ \A k \in BagToSet(jobs') : up'[k.at] /\ k.pc # "end"
    BY <1>1, <1>3, <1>6 DEF TypeOK
  <2>4. \A q \in Node : ~up'[q] => known'[q] = <<>> /\ pool'[q] = {}
    BY <1>1, <1>3 DEF TypeOK
  <2>5. sent' \subseteq Tx /\ \A q \in Node : starts'[q] \in 0 .. MaxStarts[q]
    BY <1>1, <1>2 DEF TypeOK
  <2>. QED
    BY <1>5, <2>1, <2>2, <2>3, <2>4, <2>5 DEF TypeOK
<1>8. CentralInv'
  <2>1. ASSUME NEW k \in BagToSet(jobs') PROVE Sound(k)'
    <3>1. Sound(k)
      BY <1>6 DEF IInv, CentralInv
    <3>2. CASE n # Central
      BY <1>1, <1>2, <1>3, <3>1, <3>2, StaysSound
    <3>3. CASE n = Central
      <4>1. lost'[k.at] /\ k.at # Central
        BY <1>2, <1>6, <3>3
      <4>. QED
        BY <3>1, <4>1
           DEF Sound, ReportsToOther, RelaysItsOwn, AssignsRightly, AsksForPooled
    <3>. QED
      BY <3>2, <3>3
  <2>2. ASSUME NEW q \in Node PROVE Sane(q)'
    <3>1. Sane(q)
      BY DEF IInv, CentralInv
    <3>2. CASE n # Central
      BY <1>1, <1>2, <1>3, <3>1, <3>2 DEF Sane
    <3>3. CASE n = Central
      BY <1>2, <1>3, <3>1, <3>3 DEF Sane
    <3>. QED
      BY <3>2, <3>3
  <2>3. NoTx \notin pool'[Central]
    BY <1>1, <1>3 DEF IInv, CentralInv
  <2>. QED
    BY <1>7, <2>1, <2>2, <2>3 DEF CentralInv
<1>9. ListInv'
  <2>. SUFFICES ASSUME NEW q \in Node, ~overlap'[q]
                PROVE  OneUpdate(q)' /\ UpdatesOnce(q)' /\ IsInjective(known'[q])
    BY DEF ListInv
  <2>1. CASE q = n
    <3>1. \A k \in BagToSet(jobs') : k.at # q
      BY <1>6, <2>1
    <3>2. IsInjective(known'[q])
      BY <1>3, <2>1 DEF IsInjective
    <3>. QED
      BY <3>1, <3>2 DEF OneUpdate, UpdatesOnce
  <2>2. CASE q # n
    <3>1. OneUpdate(q) /\ UpdatesOnce(q) /\ IsInjective(known[q]) /\ known'[q] = known[q]
      BY <1>3, <2>2 DEF IInv, ListInv
    <3>2. \A k \in BagToSet(jobs') : k \in BagToSet(jobs) /\ jobs'[k] = jobs[k]
      BY <1>5
    <3>3. OneUpdate(q)'
      BY <3>1, <3>2 DEF OneUpdate
    <3>4. UpdatesOnce(q)'
      BY <3>1, <3>2 DEF UpdatesOnce
    <3>. QED
      BY <3>1, <3>3, <3>4
  <2>. QED
    BY <2>1, <2>2
<1>10. MemoryInv'
  <2>. SUFFICES ASSUME NEW m \in Node, up'[m], ~lost'[m], up'[Central], ~overlap'[Central],
                       m \notin slipped'
                PROVE  WillCheck(m)' \/ Keeps(m)'
    BY DEF MemoryInv
  <2>1. n # Central /\ n # m
    BY <1>3
  <2>2. WillCheck(m) \/ Keeps(m)
    BY <1>1, <1>2, <1>3, <2>1 DEF IInv, MemoryInv
  <2>3. \A k : k.at = Central => (k \in BagToSet(jobs') <=> k \in BagToSet(jobs))
    BY <1>4, <1>5, <2>1
  <2>4. known'[Central] = known[Central]
    BY <1>1, <1>3, <2>1
  <2>5. CASE WillCheck(m)
    BY <2>3, <2>5 DEF WillCheck, Checks
  <2>6. CASE Keeps(m)
    BY <2>3, <2>4, <2>6 DEF Keeps
  <2>. QED
    BY <2>2, <2>5, <2>6
<1>. QED
  BY <1>8, <1>9, <1>10 DEF IInv

--------------------------------------------------------------------------
(* The steps of the handlers. *)

\* A new KnownNodes is assigned.
LEMMA AssignStep ==
    ASSUME IInv, NEW j \in BagToSet(jobs), j.pc \in {"append", "drop"},
           NEW S, Replace(j, S), S \subseteq Connection,
           \A k \in S : k.at = j.at /\ k.pc \in {"check", "relay"} /\ Sound(k),
           \A m \in Node : Checks(j, m) => \E k \in S : Checks(k, m),
           Remembers(j.at, j.list, pool[j.at]),
           UNCHANGED <<up, sent, starts, lost, overlap, slipped>>
    PROVE  IInv'
<1>1. PICK n \in Node : n = j.at /\ up[n] /\ TypeOK /\ CentralInv /\ ListInv /\ MemoryInv
  BY JobFacts DEF IInv, CentralInv
<1>2. PICK l, p : l = j.list /\ p = pool[n] /\ Remembers(n, l, p)
  BY <1>1
<1>3. /\ known'[n] = l /\ \A q \in Node \ {n} : known'[q] = known[q]
      /\ RightAboutCentral(n, l) /\ (~lost[n] => Central \in ToSet(l))
      /\ pool'[Central] = pool[Central]
  BY <1>1, <1>2, RelayAssumption DEF Remembers, CentralInv, Sound, AssignsRightly
<1>4. CentralInv'
  <2>2. IF n = Central THEN NoTx \notin p ELSE ~lost[n] => p \subseteq pool[Central]
    BY <1>1, <1>2 DEF CentralInv, Sane
  <2>3. \A k \in S : up[k.at] /\ k.pc # "end" /\ Sound(k)'
    <3>1. ASSUME NEW k \in S PROVE Sound(k)'
      BY <1>3, <3>1, StaysSound
    <3>. QED
      BY <1>1, <3>1
  <2>4. /\ overlap' \in [Node -> BOOLEAN] /\ slipped' \subseteq Node
        /\ UNCHANGED <<up, sent, starts, lost>>
    BY <1>1 DEF TypeOK
  <2>5. pool[n] \subseteq p /\ (up[n] /\ ~lost[n] => Central \in ToSet(l))
    BY <1>2, <1>3
  <2>. QED
    BY <1>1, <1>2, <1>3, <2>2, <2>3, <2>4, <2>5, CentralStep
<1>5. \A k \in S : k.pc \notin Update /\ k.pc \notin {"read", "append", "drop", "fails"}
  BY DEF Update
<1>6. j \notin S /\ j.pc \in Update
  BY DEF Update
<1>7. ListInv'
  <2>1. ~overlap[n] => IsInjective(known'[n])
    BY <1>1, <1>2, <1>3 DEF ListInv, UpdatesOnce
  <2>. QED
    BY <1>1, <1>3, <1>5, <1>6, <2>1, ListStep
<1>8. MemoryInv'
  <2>. SUFFICES ASSUME NEW m \in Node, up[m], ~lost[m], up[Central], ~overlap[Central],
                       m \notin slipped
                PROVE  WillCheck(m)' \/ Keeps(m)'
    BY DEF MemoryInv
  <2>1. WillCheck(m) \/ Keeps(m)
    BY <1>1 DEF MemoryInv
  <2>2. BagToSet(jobs') = {k \in BagToSet(jobs) : k # j \/ jobs[j] > 1} \cup S
    BY <1>1, Replaced
  <2>3. CASE WillCheck(m)
    <3>1. PICK k \in BagToSet(jobs) : Checks(k, m)
      BY <2>3 DEF WillCheck
    <3>2. \E i \in BagToSet(jobs') : Checks(i, m)
      BY <2>2, <3>1
    <3>. QED
      BY <3>2 DEF WillCheck
  <2>4. CASE Keeps(m) /\ n # Central
    <3>1. \A k : k.at = Central => (k \in BagToSet(jobs') <=> k \in BagToSet(jobs))
      BY <1>1, <2>2, <2>4
    <3>2. known'[Central] = known[Central]
      BY <1>3, <2>4, RelayAssumption
    <3>. QED
      BY <2>4, <3>1, <3>2 DEF Keeps
  <2>5. CASE Keeps(m) /\ n = Central
    <3>1. m \in ToSet(known'[Central])
      BY <1>1, <1>2, <1>3, <2>5 DEF Keeps
    <3>2. jobs[j] = 1 /\ \A k \in BagToSet(jobs) : k.at = n /\ k.pc \in Update => k = j
      BY <1>1, <1>6, <2>5 DEF ListInv, OneUpdate
    <3>3. ~(jobs[j] > 1)
      BY <3>2
    <3>4. \A k \in BagToSet(jobs') : k.at = Central =>
              k.pc \notin Update /\ (k.pc = "fails" => Head(k.list) # m)
      BY <1>5, <2>2, <2>5, <3>2, <3>3 DEF Keeps
    <3>. QED
      BY <3>1, <3>4 DEF Keeps, Update
  <2>. QED
    BY <2>1, <2>3, <2>4, <2>5
<1>. QED
  BY <1>4, <1>7, <1>8 DEF IInv

LEMMA AssignInv ==
    ASSUME IInv, NEW j \in BagToSet(jobs), Assign(j.at, j)
    PROVE  IInv'
<1>1. PICK S : S = {} /\ Replace(j, S)
  BY DEF Assign
<1>2. ASSUME NEW m \in Node PROVE ~Checks(j, m)
  BY DEF Assign, Checks
<1>3. /\ Remembers(j.at, j.list, pool[j.at]) /\ j.pc \in {"append", "drop"}
      /\ UNCHANGED <<up, sent, starts, lost, overlap, slipped>>
  BY JobFacts DEF Assign, history, Remembers, IInv, CentralInv, TypeOK
<1>4. S \subseteq Connection /\ \A k \in S : FALSE
  BY <1>1
<1>. QED
  BY <1>1, <1>2, <1>3, <1>4, AssignStep

LEMMA DropInv ==
    ASSUME IInv, NEW j \in BagToSet(jobs), Drop(j.at, j)
    PROVE  IInv'
<1>1. /\ j \in Connection /\ j.pc = "drop" /\ j.next \in {"check", "relay", "end"}
      /\ Sound(j)
  BY JobFacts DEF Drop, IInv, CentralInv, Sound
<1>2. PICK r \in Connection : /\ r = Return(j) /\ r.at = j.at /\ r.from = j.from
                              /\ r.pc = j.next /\ r.tx = j.tx /\ r.list = j.rest
  BY <1>1, ReturnFacts
<1>3. PICK S : S = Rest(r) /\ Replace(j, S)
  BY <1>2 DEF Drop, Return
<1>4. Sound(r)
  <2>1. ReportsToOther(r)
    BY <1>1, <1>2 DEF Sound, ReportsToOther, Reports
  <2>2. RelaysItsOwn(r)
    BY <1>1, <1>2 DEF Sound, RelaysItsOwn, Relays, StillToTell
  <2>. QED
    BY <1>1, <1>2, <2>1, <2>2 DEF Sound, AssignsRightly, AsksForPooled
<1>5. S \subseteq {r} /\ \A k \in S : k.pc # "end"
  BY <1>3 DEF Rest
<1>6. ASSUME NEW m \in Node, Checks(j, m) PROVE \E k \in S : Checks(k, m)
  <2>1. r.pc = "check" /\ Checks(r, m)
    BY <1>1, <1>2, <1>6 DEF Checks
  <2>. QED
    BY <1>3, <2>1 DEF Rest
<1>7. \A k \in S : k.at = j.at /\ k.pc \in {"check", "relay"} /\ Sound(k)
  BY <1>1, <1>2, <1>4, <1>5
<1>8. /\ Remembers(j.at, j.list, pool[j.at]) /\ j.pc \in {"append", "drop"}
      /\ UNCHANGED <<up, sent, starts, lost, overlap, slipped>>
  BY JobFacts DEF Drop, history, Remembers, IInv, CentralInv, TypeOK
<1>. QED
  BY <1>2, <1>3, <1>5, <1>6, <1>7, <1>8, AssignStep

\* A handler that is not to check anything ends.
LEMMA LastStep ==
    ASSUME IInv, NEW j \in BagToSet(jobs), Replace(j, {}),
           j.pc \notin Update \cup {"version", "check", "fails"},
           UNCHANGED <<up, known, pool, sent, starts, history>>
    PROVE  IInv'
<1>1. PICK S : S = {} /\ Replace(j, S)
  OBVIOUS
<1>2. TypeOK /\ CentralInv /\ ListInv /\ MemoryInv
  BY DEF IInv, CentralInv
<1>3. \A m \in Node : Checks(j, m) => \E k \in S : Checks(k, m)
  BY DEF Checks, Update
<1>4. /\ UNCHANGED <<up, known, pool, sent, starts, lost, overlap, slipped>>
      /\ overlap' \in [Node -> BOOLEAN] /\ slipped' \subseteq Node
  BY <1>2 DEF history, TypeOK
<1>5. S \subseteq Connection /\ \A k \in S : FALSE
  BY <1>1
<1>6. CentralInv'
  BY <1>1, <1>2, <1>4, <1>5, CentralTalk
<1>7. ListInv' /\ MemoryInv'
  BY <1>1, <1>2, <1>3, <1>4, <1>5, QuietStep
<1>. QED
  BY <1>6, <1>7 DEF IInv

LEMMA HandleVersionInv ==
    ASSUME IInv, NEW j \in BagToSet(jobs), HandleVersion(j.at, j)
    PROVE  IInv'
<1>1. /\ TypeOK /\ CentralInv /\ ListInv /\ MemoryInv
      /\ j \in Connection /\ j.at \in Node /\ Sound(j) /\ up[j.at]
      /\ j.pc \in {"version", "answer"}
      /\ UNCHANGED <<up, known, pool, sent, starts, history>>
  BY JobFacts DEF HandleVersion, IInv, CentralInv
<1>2. j.from \in Node /\ j.from # j.at
  BY <1>1 DEF Sound, ReportsToOther, Reports
<1>3. PICK then \in Connection :
        /\ then = Goes(j, "check") /\ then.at = j.at /\ then.from = j.from
        /\ then.pc = "check"
  <2>1. "check" \in Command \cup Place
    BY DEF Place
  <2>. QED
    BY <1>1, <2>1, GoesFacts
<1>4. PICK msg \in Connection :
        /\ msg = Job(j.from, j.at, "answer", NoTx) /\ msg.at = j.from /\ msg.from = j.at
        /\ msg.pc = "answer"
  <2>1. PICK tx \in Tx \cup {NoTx} : tx = NoTx
    OBVIOUS
  <2>. QED
    BY <1>1, <1>2, <2>1, NewMessage DEF Command
<1>5. Sound(then) /\ Sound(msg)
  BY <1>1, <1>2, <1>3, <1>4
     DEF Sound, ReportsToOther, Reports, RelaysItsOwn, Relays, AssignsRightly, AsksForPooled
<1>6. CASE SendData(j.at, j, msg, then)
  BY <1>1, <1>3, <1>4, <1>5, <1>6, SendStep DEF Command, Update
<1>7. CASE Replace(j, {then})
  <2>1. PICK S : S = {then} /\ Replace(j, S)
    BY <1>7
  <2>2. /\ S \subseteq Connection
        /\ \A k \in S : up[k.at] /\ k.pc = "check" /\ Sound(k) /\ k.pc \notin Update
    BY <1>1, <1>3, <1>5, <2>1 DEF Update
  <2>3. /\ UNCHANGED <<up, known, pool, sent, starts, lost, overlap, slipped>>
        /\ overlap' \in [Node -> BOOLEAN] /\ slipped' \subseteq Node
    BY <1>1 DEF history, TypeOK
  <2>4. CentralInv'
    BY <1>1, <2>1, <2>2, <2>3, CentralTalk
  <2>5. j.pc \notin Update
    BY <1>1 DEF Update
  <2>6. \A m \in Node : Checks(j, m) => \E k \in S : Checks(k, m)
    BY <1>1, <1>3, <2>1 DEF Checks
  <2>7. ListInv' /\ MemoryInv'
    BY <1>1, <2>1, <2>2, <2>3, <2>5, <2>6, QuietStep
  <2>. QED
    BY <2>4, <2>7 DEF IInv
<1>8. \/ Replace(j, {then})
      \/ SendData(j.at, j, msg, then)
  BY <1>3, <1>4 DEF HandleVersion, Goes
<1>. QED
  BY <1>6, <1>7, <1>8

LEMMA CheckKnownInv ==
    ASSUME IInv, NEW j \in BagToSet(jobs), Check(j.at, j), CheckKnown(j.at, j)
    PROVE  IInv'
<1>1. PICK n \in Node : n = j.at /\ up[n] /\ TypeOK /\ CentralInv /\ ListInv /\ MemoryInv
  BY JobFacts DEF IInv, CentralInv
<1>2. /\ j.pc = "check" /\ j.from \in ToSet(known[n]) /\ j.from \in Node
      /\ UNCHANGED <<up, known, pool, sent, starts, lost, overlap>>
  BY <1>1 DEF Check, CheckKnown, NodeIsKnown, CentralInv, Sound, ReportsToOther, Reports
<1>3. PICK S : S = {} /\ Replace(j, S)
  BY DEF CheckKnown
<1>4. \A k \in S : FALSE
  BY <1>3
<1>5. /\ overlap' \in [Node -> BOOLEAN] /\ slipped' \subseteq Node
      /\ \A m \in Node : m \notin slipped' /\ m # j.from => m \notin slipped
      /\ n = Central /\ j.from \notin slipped' => ~Forgetting(n, j.from)
      /\ n # Central => slipped' = slipped
  BY <1>1, <1>2 DEF Check, TypeOK
<1>6. BagToSet(jobs') = {k \in BagToSet(jobs) : k # j \/ jobs[j] > 1}
  BY <1>1, <1>3, Replaced
<1>7. CentralInv'
  BY <1>1, <1>2, <1>3, <1>4, <1>5, CentralTalk
<1>8. ListInv'
  <2>1. ~overlap'[n] => IsInjective(known'[n])
    BY <1>1, <1>2 DEF ListInv
  <2>2. j.pc \notin Update
    BY <1>2 DEF Update
  <2>3. \A q \in Node : known'[q] = known[q] /\ overlap'[q] = overlap[q]
    BY <1>2
  <2>. QED
    BY <1>1, <1>3, <1>4, <2>1, <2>2, <2>3, ListStep
<1>9. MemoryInv'
  <2>. SUFFICES ASSUME NEW m \in Node, up[m], ~lost[m], up[Central], ~overlap[Central],
                       m \notin slipped'
                PROVE  WillCheck(m)' \/ Keeps(m)'
    BY <1>2 DEF MemoryInv
  <2>1. CASE n = Central /\ j.from = m
    <3>1. m \in ToSet(known'[Central]) /\ ~Forgetting(Central, m)
      BY <1>2, <1>5, <2>1
    <3>2. UpdatesOnce(Central)
      BY <1>1, <2>1 DEF ListInv
    <3>3. \A k \in BagToSet(jobs') : k.at = Central =>
            /\ k.pc = "fails" => Head(k.list) # m
            /\ k.pc \in {"append", "drop"} => m \in ToSet(k.list)
      BY <1>2, <1>6, <2>1, <3>1, <3>2 DEF Forgetting, UpdatesOnce
    <3>. QED
      BY <3>1, <3>3 DEF Keeps
  <2>2. CASE ~(n = Central /\ j.from = m)
    <3>1. WillCheck(m) \/ Keeps(m)
      BY <1>1, <1>5, <2>2 DEF MemoryInv
    <3>2. CASE WillCheck(m)
      <4>1. PICK k \in BagToSet(jobs) : Checks(k, m) /\ k # j
        BY <1>1, <2>2, <3>2 DEF WillCheck, Checks
      <4>. QED
        BY <1>6, <4>1 DEF WillCheck
    <3>3. CASE Keeps(m)
      <4>1. \A k \in BagToSet(jobs') : k \in BagToSet(jobs)
        BY <1>6
      <4>2. \A k \in BagToSet(jobs) : k.pc \in Update => k \in BagToSet(jobs')
        BY <1>2, <1>6 DEF Update
      <4>. QED
        BY <1>2, <3>3, <4>1, <4>2 DEF Keeps
    <3>. QED
      BY <3>1, <3>2, <3>3
  <2>. QED
    BY <2>1, <2>2
<1>. QED
  BY <1>7, <1>8, <1>9 DEF IInv

LEMMA CheckNewInv ==
    ASSUME IInv, NEW j \in BagToSet(jobs), Check(j.at, j), CheckNew(j.at, j)
    PROVE  IInv'
<1>1. PICK n \in Node : n = j.at /\ up[n] /\ TypeOK /\ CentralInv /\ ListInv /\ MemoryInv
  BY JobFacts DEF IInv, CentralInv
<1>2. /\ j \in Connection /\ Sound(j) /\ j.pc = "check" /\ j.from \notin ToSet(known[n])
      /\ UNCHANGED <<up, known, pool, sent, starts, lost>>
  BY <1>1, JobFacts DEF Check, CheckNew, NodeIsKnown, CentralInv
<1>3. PICK r \in Connection :
        r = Goes(j, "read") /\ r.at = n /\ r.from = j.from /\ r.pc = "read"
  <2>1. "read" \in Command \cup Place
    BY DEF Place
  <2>. QED
    BY <1>1, <1>2, <2>1, GoesFacts
<1>4. PICK S : S = {r} /\ Replace(j, S)
  BY <1>1, <1>3 DEF CheckNew, Goes
<1>5. /\ overlap' \in [Node -> BOOLEAN]
      /\ \A q \in Node : ~overlap'[q] => ~overlap[q]
      /\ ~overlap'[n] => ~Updating(n, j)
  BY <1>1 DEF CheckNew, TypeOK, Updating
<1>6. j.from \in Node
  BY <1>2 DEF Sound, ReportsToOther, Reports
<1>7. /\ slipped' \subseteq Node
      /\ \A m \in Node : m \notin slipped' /\ m # j.from => m \notin slipped
      /\ n = Central /\ j.from \notin slipped' => ~Forgetting(n, j.from)
      /\ n # Central => slipped' = slipped
  BY <1>1, <1>6 DEF Check, TypeOK
<1>8. CentralInv'
  <2>1. Sound(r)
    BY <1>1, <1>2, <1>3
       DEF Sound, ReportsToOther, Reports, RelaysItsOwn, Relays, AssignsRightly,
           AsksForPooled
  <2>2. S \subseteq Connection /\ \A k \in S : up[k.at] /\ k.pc # "end" /\ Sound(k)
    BY <1>1, <1>3, <1>4, <2>1
  <2>. QED
    BY <1>1, <1>2, <1>4, <1>5, <1>7, <2>2, CentralTalk
<1>9. ListInv'
  <2>1. ~overlap'[n] => IsInjective(known'[n])
    BY <1>1, <1>2, <1>5 DEF ListInv
  <2>2. \A k \in S : k.at = n /\ k.pc = "read" /\ k.from \notin ToSet(known'[n])
    BY <1>2, <1>3, <1>4
  <2>3. j.pc \notin Update /\ \A k, i \in S : k = i
    BY <1>2, <1>4 DEF Update
  <2>4. \A q \in Node : known'[q] = known[q]
    BY <1>2
  <2>. QED
    BY <1>1, <1>4, <1>5, <2>1, <2>2, <2>3, <2>4, ListStep
<1>10. MemoryInv'
  <2>. SUFFICES ASSUME NEW m \in Node, up[m], ~lost[m], up[Central], ~overlap'[Central],
                       m \notin slipped'
                PROVE  WillCheck(m)' \/ Keeps(m)'
    BY <1>2 DEF MemoryInv
  <2>1. BagToSet(jobs') = {k \in BagToSet(jobs) : k # j \/ jobs[j] > 1} \cup {r}
    BY <1>1, <1>4, Replaced
  <2>2. (n = Central /\ j.from = m) \/ WillCheck(m) \/ Keeps(m)
    BY <1>1, <1>5, <1>7, RelayAssumption DEF MemoryInv
  <2>3. CASE \E k \in BagToSet(jobs) : k # j /\ Checks(k, m)
    <3>1. \E k \in BagToSet(jobs') : Checks(k, m)
      BY <2>1, <2>3
    <3>. QED
      BY <3>1 DEF WillCheck
  <2>4. CASE Keeps(m) /\ n # Central
    <3>1. \A k : k.at = Central => (k \in BagToSet(jobs') <=> k \in BagToSet(jobs))
      BY <1>1, <1>3, <2>1, <2>4
    <3>. QED
      BY <1>2, <2>4, <3>1 DEF Keeps
  <2>5. CASE n = Central /\ (j.from = m \/ Keeps(m))
    <3>1. \A k \in BagToSet(jobs) : k.at = Central => k.pc \notin Update
      BY <1>2, <1>5, <2>5 DEF Updating, Update
    <3>2. m \in ToSet(known[Central]) \/ j.from = m
      BY <2>5, <3>1 DEF Keeps
    <3>3. \A k \in BagToSet(jobs') : k.at = Central /\ k.pc \in Update => k = r
      BY <2>1, <3>1
    <3>4. r \in BagToSet(jobs') /\ r.pc \in Update /\ r.at = Central
      BY <1>3, <2>1, <2>5 DEF Update
    <3>5. \A k \in BagToSet(jobs) : k.at = Central /\ k.pc = "fails" => Head(k.list) # m
      BY <1>7, <2>5 DEF Forgetting, Keeps
    <3>6. \A k \in BagToSet(jobs') : k.at = Central /\ k.pc = "fails" => Head(k.list) # m
      BY <1>3, <2>1, <3>5
    <3>. QED
      BY <1>2, <1>3, <3>2, <3>3, <3>4, <3>6 DEF Keeps, Update
  <2>6. WillCheck(m) => (n = Central /\ j.from = m)
                          \/ \E k \in BagToSet(jobs) : k # j /\ Checks(k, m)
    BY <1>1 DEF WillCheck, Checks
  <2>. QED
    BY <2>2, <2>3, <2>4, <2>5, <2>6
<1>. QED
  BY <1>8, <1>9, <1>10 DEF IInv

LEMMA CheckInv ==
    ASSUME IInv, NEW j \in BagToSet(jobs), Check(j.at, j)
    PROVE  IInv'
BY CheckKnownInv, CheckNewInv DEF Check

\* The KnownNodes without a node that did not answer is computed.
LEMMA FilterInv ==
    ASSUME IInv, NEW j \in BagToSet(jobs), Filter(j.at, j)
    PROVE  IInv'
<1>1. PICK n \in Node : n = j.at /\ up[n] /\ TypeOK /\ CentralInv /\ ListInv /\ MemoryInv
  BY JobFacts DEF IInv, CentralInv
<1>2. /\ j \in Connection /\ Sound(j) /\ j.pc = "fails" /\ known[n] \in Seq(Node)
      /\ UNCHANGED <<up, known, pool, sent, starts, lost, slipped>>
      /\ slipped' \subseteq Node
  BY <1>1, JobFacts DEF Filter, CentralInv, TypeOK
<1>3. PICK x : x = Head(j.list) /\ x # n /\ (~lost[n] => x # Central)
  BY <1>1, <1>2 DEF Sound, AssignsRightly
<1>4. PICK l \in Seq(Node) :
        /\ l = Without(known[n], x) /\ ToSet(l) = ToSet(known[n]) \ {x}
        /\ RightAboutCentral(n, known[n]) /\ x # Central => RightAboutCentral(n, l)
        /\ IsInjective(known[n]) => IsInjective(l)
  BY <1>2, OffTheList
<1>5. PICK d : /\ d = Filters(j, l)
               /\ d \in Connection /\ d.at = n /\ d.from = j.from /\ d.pc = "drop"
               /\ d.tx = j.tx /\ d.list = l /\ d.next = j.next /\ d.rest = j.rest
  BY <1>1, <1>2, FiltersFacts
<1>6. PICK S : S = {d} /\ Replace(j, S)
  BY <1>1, <1>3, <1>4, <1>5 DEF Filter, Filters
<1>7. /\ overlap' \in [Node -> BOOLEAN]
      /\ \A q \in Node : ~overlap'[q] => ~overlap[q]
      /\ ~overlap'[n] => ~Updating(n, j)
  BY <1>1 DEF Filter, TypeOK, Updating
<1>8. CentralInv'
  <2>1. RightAboutCentral(n, known[n]) /\ (~lost[n] => Central \in ToSet(known[n]))
    BY <1>1 DEF CentralInv, Sane
  <2>2. RightAboutCentral(n, l)
    <3>1. CASE n = Central
      BY <1>3, <1>4, <2>1, <3>1
    <3>2. CASE n # Central
      BY <1>4, <2>1, <3>2 DEF RightAboutCentral
    <3>. QED
      BY <3>1, <3>2
  <2>3. AssignsRightly(d)
    BY <1>3, <1>4, <1>5, <2>1, <2>2 DEF AssignsRightly
  <2>4. ReportsToOther(d)
    BY <1>1, <1>2, <1>5 DEF Sound, ReportsToOther, Reports
  <2>5. RelaysItsOwn(d)
    BY <1>1, <1>2, <1>5 DEF Sound, RelaysItsOwn, Relays, StillToTell
  <2>6. Sound(d)
    BY <1>2, <1>5, <2>3, <2>4, <2>5 DEF Sound, AsksForPooled
  <2>7. S \subseteq Connection /\ \A k \in S : up[k.at] /\ k.pc # "end" /\ Sound(k)
    BY <1>1, <1>5, <1>6, <2>6
  <2>. QED
    BY <1>1, <1>2, <1>6, <1>7, <2>7, CentralTalk
<1>9. ListInv'
  <2>1. ~overlap'[n] => IsInjective(known'[n]) /\ IsInjective(l)
    BY <1>1, <1>2, <1>4, <1>7 DEF ListInv
  <2>2. \A k \in S : k.at = n /\ k.pc = "drop" /\ k.list = l
    BY <1>5, <1>6
  <2>3. j.pc \notin Update /\ \A k, i \in S : k = i
    BY <1>2, <1>6 DEF Update
  <2>4. \A q \in Node : known'[q] = known[q]
    BY <1>2
  <2>. QED
    BY <1>1, <1>6, <1>7, <2>1, <2>2, <2>3, <2>4, ListStep
<1>10. MemoryInv'
  <2>. SUFFICES ASSUME NEW m \in Node, up[m], ~lost[m], up[Central], ~overlap'[Central],
                       m \notin slipped
                PROVE  WillCheck(m)' \/ Keeps(m)'
    BY <1>2 DEF MemoryInv
  <2>1. WillCheck(m) \/ Keeps(m)
    BY <1>1, <1>7, RelayAssumption DEF MemoryInv
  <2>2. BagToSet(jobs') = {k \in BagToSet(jobs) : k # j \/ jobs[j] > 1} \cup {d}
    BY <1>1, <1>6, Replaced
  <2>3. CASE WillCheck(m)
    <3>1. PICK k \in BagToSet(jobs) : Checks(k, m)
      BY <2>3 DEF WillCheck
    <3>2. k = j => Checks(d, m)
      BY <1>1, <1>2, <1>5, <3>1 DEF Checks
    <3>3. \E i \in BagToSet(jobs') : Checks(i, m)
      BY <2>2, <3>1, <3>2
    <3>. QED
      BY <3>3 DEF WillCheck
  <2>4. CASE Keeps(m) /\ n # Central
    <3>1. \A k : k.at = Central => (k \in BagToSet(jobs') <=> k \in BagToSet(jobs))
      BY <1>1, <1>5, <2>2, <2>4
    <3>. QED
      BY <1>2, <2>4, <3>1 DEF Keeps
  <2>5. CASE Keeps(m) /\ n = Central
    <3>1. \A k \in BagToSet(jobs) : k.at = Central => k.pc \notin Update
      BY <1>2, <1>7, <2>5 DEF Updating, Update
    <3>2. m \in ToSet(l)
      BY <1>1, <1>2, <1>3, <1>4, <2>5, <3>1 DEF Keeps
    <3>3. \A k \in BagToSet(jobs') : k.at = Central /\ k.pc \in Update => k = d
      BY <2>2, <3>1
    <3>4. d \in BagToSet(jobs') /\ d.pc \in Update /\ d.at = Central
      BY <1>5, <2>2, <2>5 DEF Update
    <3>5. \A k \in BagToSet(jobs') : k.at = Central /\ k.pc = "fails" => Head(k.list) # m
      BY <1>5, <2>2, <2>5 DEF Keeps
    <3>. QED
      BY <1>5, <3>2, <3>3, <3>4, <3>5 DEF Keeps, Update
  <2>. QED
    BY <2>1, <2>3, <2>4, <2>5
<1>. QED
  BY <1>8, <1>9, <1>10 DEF IInv

LEMMA ReadInv ==
    ASSUME IInv, NEW j \in BagToSet(jobs), Read(j.at, j)
    PROVE  IInv'
<1>1. PICK n \in Node : n = j.at /\ up[n] /\ TypeOK /\ CentralInv /\ ListInv /\ MemoryInv
  BY JobFacts DEF IInv, CentralInv
<1>2. /\ j \in Connection /\ Sound(j) /\ j.pc = "read"
      /\ UNCHANGED <<up, known, pool, sent, starts, lost, overlap, slipped>>
  BY <1>1, JobFacts DEF Read, CentralInv, history
<1>3. j.from \in Node /\ j.from # n
  BY <1>1, <1>2 DEF Sound, ReportsToOther, Reports
<1>4. PICK l \in Seq(Node) :
        /\ l = Append(known[n], j.from)
        /\ ToSet(l) = ToSet(known[n]) \cup {j.from}
        /\ RightAboutCentral(n, known[n]) => RightAboutCentral(n, l)
        /\ IsInjective(known[n]) /\ j.from \notin ToSet(known[n]) => IsInjective(l)
  BY <1>1, <1>3, OnTheList DEF TypeOK
<1>5. PICK r \in Connection : /\ r = GoesWith(j, "append", l) /\ r.at = n
                              /\ r.from = j.from /\ r.pc = "append" /\ r.list = l
  <2>1. "append" \in Command \cup Place
    BY DEF Place
  <2>. QED
    BY <1>1, <1>2, <2>1, GoesWithFacts
<1>6. PICK S : S = {r} /\ Replace(j, S)
  BY <1>1, <1>4, <1>5 DEF Read, GoesWith
<1>7. CentralInv'
  <2>1. RightAboutCentral(n, known[n]) /\ (~lost[n] => Central \in ToSet(known[n]))
    BY <1>1 DEF CentralInv, Sane
  <2>2. Sound(r)
    BY <1>1, <1>3, <1>4, <1>5, <2>1
       DEF Sound, ReportsToOther, Reports, RelaysItsOwn, Relays, AssignsRightly,
           AsksForPooled
  <2>3. S \subseteq Connection /\ \A k \in S : up[k.at] /\ k.pc # "end" /\ Sound(k)
    BY <1>1, <1>5, <1>6, <2>2
  <2>4. overlap' \in [Node -> BOOLEAN] /\ slipped' \subseteq Node
    BY <1>1, <1>2 DEF TypeOK
  <2>. QED
    BY <1>1, <1>2, <1>6, <2>3, <2>4, CentralTalk
<1>8. j.pc \in Update /\ j \notin S
  BY <1>2, <1>5, <1>6 DEF Update
<1>9. ListInv'
  <2>1. ~overlap[n] => IsInjective(known'[n]) /\ IsInjective(l)
    BY <1>1, <1>2, <1>4 DEF ListInv, UpdatesOnce
  <2>2. \A k \in S : /\ k.at = n /\ k.pc = "append" /\ k.list = l
                     /\ ToSet(known'[n]) \subseteq ToSet(k.list)
    BY <1>2, <1>4, <1>5, <1>6
  <2>3. \A k, i \in S : k = i
    BY <1>6
  <2>4. \A q \in Node : known'[q] = known[q] /\ overlap'[q] = overlap[q]
    BY <1>2
  <2>. QED
    BY <1>1, <1>6, <1>8, <2>1, <2>2, <2>3, <2>4, ListStep
<1>10. MemoryInv'
  <2>. SUFFICES ASSUME NEW m \in Node, up[m], ~lost[m], up[Central], ~overlap[Central],
                       m \notin slipped
                PROVE  WillCheck(m)' \/ Keeps(m)'
    BY <1>2 DEF MemoryInv
  <2>1. WillCheck(m) \/ Keeps(m)
    BY <1>1 DEF MemoryInv
  <2>2. BagToSet(jobs') = {k \in BagToSet(jobs) : k # j \/ jobs[j] > 1} \cup {r}
    BY <1>1, <1>6, Replaced
  <2>3. CASE WillCheck(m)
    <3>1. \E k \in BagToSet(jobs') : Checks(k, m)
      BY <1>2, <2>2, <2>3 DEF WillCheck, Checks
    <3>. QED
      BY <3>1 DEF WillCheck
  <2>4. CASE Keeps(m) /\ n # Central
    <3>1. \A k : k.at = Central => (k \in BagToSet(jobs') <=> k \in BagToSet(jobs))
      BY <1>1, <1>5, <2>2, <2>4
    <3>. QED
      BY <1>2, <2>4, <3>1 DEF Keeps
  <2>5. CASE Keeps(m) /\ n = Central
    <3>1. m \in ToSet(l)
      BY <1>1, <1>2, <1>4, <2>5 DEF Keeps
    <3>2. jobs[j] = 1 /\ \A k \in BagToSet(jobs) : k.at = n /\ k.pc \in Update => k = j
      BY <1>1, <1>8, <2>5 DEF ListInv, OneUpdate
    <3>3. ~(jobs[j] > 1)
      BY <3>2
    <3>4. \A k \in BagToSet(jobs') : k.at = Central /\ k.pc \in Update => k = r
      BY <2>2, <2>5, <3>2, <3>3
    <3>5. r \in BagToSet(jobs') /\ r.at = Central /\ r.pc \in Update
      BY <1>5, <2>2, <2>5 DEF Update
    <3>6. \A k \in BagToSet(jobs') : k.at = Central /\ k.pc = "fails" => Head(k.list) # m
      BY <1>5, <2>2, <2>5 DEF Keeps
    <3>. QED
      BY <1>5, <3>1, <3>4, <3>5, <3>6 DEF Keeps, Update
  <2>. QED
    BY <2>1, <2>3, <2>4, <2>5
<1>. QED
  BY <1>7, <1>9, <1>10 DEF IInv

LEMMA HandleTxInv ==
    ASSUME IInv, NEW j \in BagToSet(jobs), HandleTx(j.at, j)
    PROVE  IInv'
<1>1. PICK n \in Node : n = j.at /\ up[n] /\ TypeOK /\ CentralInv /\ ListInv /\ MemoryInv
  BY JobFacts DEF IInv, CentralInv
<1>2. /\ j \in Connection /\ j.tx \in Tx \cup {NoTx} /\ Sound(j) /\ j.pc = "tx"
      /\ known[n] # <<>> /\ known[n] \in Seq(Node)
      /\ UNCHANGED <<up, known, sent, starts, lost, overlap, slipped>>
  BY <1>1, JobFacts DEF HandleTx, CentralInv, TypeOK, history
<1>3. PICK l, p : l = known[n] /\ p = pool[n] \cup {j.tx} /\ Remembers(n, l, p)
  <2>1. pool' = [pool EXCEPT ![n] = @ \cup {j.tx}]
    BY <1>1 DEF HandleTx
  <2>. QED
    BY <1>1, <1>2, <2>1 DEF Remembers, TypeOK
<1>4. /\ RightAboutCentral(n, l)
      /\ ~lost[n] => Central \in ToSet(l) /\ pool[n] \subseteq pool[Central]
      /\ n = Central => NoTx \notin pool[n] /\ j.tx # NoTx
      /\ n # Central /\ ~lost[n] => j.tx \in pool[Central]
  BY <1>1, <1>2, <1>3 DEF CentralInv, Sane, Sound, AsksForPooled
<1>5. n = Head(known[n]) => n = Central
  <2>1. known[n][1] \in ToSet(known[n]) /\ Head(known[n]) = known[n][1]
    BY <1>2, TailElements
  <2>. QED
    BY <1>3, <1>4, <2>1 DEF RightAboutCentral
<1>6. PICK w \in Seq(Node) : /\ w = Without(Without(known[n], n), j.from)
                             /\ n \notin ToSet(w)
  <2>1. PICK v \in Seq(Node) : v = Without(known[n], n) /\ ToSet(v) = ToSet(known[n]) \ {n}
    BY <1>2, OffTheList
  <2>. QED
    BY <2>1, OffTheList
<1>7. PICK r \in Connection : /\ r = GoesWith(j, "relay", w) /\ r.at = n /\ r.pc = "relay"
                              /\ r.tx = j.tx /\ r.list = w
  <2>1. "relay" \in Command \cup Place
    BY DEF Place
  <2>. QED
    BY <1>1, <1>2, <2>1, GoesWithFacts
<1>8. PICK S : /\ Replace(j, S) /\ S \subseteq {r} /\ (S # {} => n = Central)
  BY <1>1, <1>5, <1>6, <1>7 DEF HandleTx, GoesWith
<1>9. CentralInv'
  <2>1. ASSUME n = Central PROVE Sound(r)'
    BY <1>3, <1>6, <1>7, <2>1
       DEF Sound, ReportsToOther, Reports, RelaysItsOwn, Relays, StillToTell,
           AssignsRightly, AsksForPooled, Remembers
  <2>2. S \subseteq Connection /\ \A k \in S : up[k.at] /\ k.pc # "end" /\ Sound(k)'
    BY <1>1, <1>7, <1>8, <2>1
  <2>3. /\ overlap' \in [Node -> BOOLEAN] /\ slipped' \subseteq Node
        /\ UNCHANGED <<up, sent, starts, lost>>
    BY <1>1, <1>2 DEF TypeOK
  <2>4. pool[n] \subseteq p /\ (up[n] /\ ~lost[n] => Central \in ToSet(l))
    BY <1>3, <1>4
  <2>5. IF n = Central THEN NoTx \notin p ELSE ~lost[n] => p \subseteq pool[Central]
    BY <1>3, <1>4
  <2>. QED
    BY <1>1, <1>3, <1>4, <1>8, <2>2, <2>3, <2>4, <2>5, CentralStep
<1>10. ListInv' /\ MemoryInv'
  <2>1. j.pc \notin Update /\ \A k \in S : k.pc \notin Update /\ k.pc # "fails"
    BY <1>2, <1>7, <1>8 DEF Update
  <2>2. \A m \in Node : Checks(j, m) => \E k \in S : Checks(k, m)
    BY <1>2 DEF Checks
  <2>. QED
    BY <1>1, <1>2, <1>8, <2>1, <2>2, QuietStep
<1>. QED
  BY <1>9, <1>10 DEF IInv

LEMMA HandleTxEndsInv ==
    ASSUME IInv, NEW j \in BagToSet(jobs), HandleTxAlone(j.at, j) \/ MineTx(j.at, j)
    PROVE  IInv'
<1>1. j.at \in Node /\ up[j.at]
  BY JobFacts DEF IInv, CentralInv
<1>2. Ends(j.at)
  BY DEF HandleTxAlone, MineTx
<1>. QED
  BY <1>1, <1>2, EndsInv

LEMMA RelayInv ==
    ASSUME IInv, NEW j \in BagToSet(jobs), Relay(j.at, j)
    PROVE  IInv'
<1>1. /\ TypeOK /\ CentralInv /\ j \in Connection /\ j.at \in Node /\ Sound(j)
      /\ j.tx \in Tx \cup {NoTx} /\ j.list \in Seq(Node)
      /\ j.pc = "relay" /\ UNCHANGED <<up, known, pool, sent, starts, history>>
  BY JobFacts DEF Relay, IInv, CentralInv
<1>2. /\ j.at = Central /\ j.tx \in pool[Central] /\ Central \notin ToSet(j.list)
  BY <1>1 DEF Sound, RelaysItsOwn, Relays, StillToTell
<1>3. CASE j.list = <<>>
  BY <1>1, <1>3, LastStep DEF Relay, Update
<1>4. CASE j.list # <<>>
  <2>1. PICK to \in Node : to = Head(j.list) /\ to # Central
    BY <1>1, <1>2, <1>4, TailElements
  <2>2. Central \notin ToSet(Tail(j.list))
    BY <1>1, <1>2, <1>4, TailElements
  <2>3. PICK then \in Connection :
          /\ then = ToldOne(j) /\ then.at = j.at /\ then.from = j.from
          /\ then.pc = "relay" /\ then.tx = j.tx /\ then.list = Tail(j.list)
    BY <1>1, <1>4, ToldOneFacts
  <2>4. PICK msg \in Connection :
          /\ msg = Job(to, j.at, "inv", j.tx) /\ msg.at = to /\ msg.from = j.at
          /\ msg.pc = "inv" /\ msg.tx = j.tx
    BY <1>1, NewMessage DEF Command
  <2>5. Sound(then) /\ Sound(msg)
    BY <1>1, <1>2, <2>1, <2>2, <2>3, <2>4
       DEF Sound, ReportsToOther, Reports, RelaysItsOwn, Relays, StillToTell,
           AssignsRightly, AsksForPooled
  <2>6. SendData(j.at, j, msg, then)
    BY <1>4, <2>1, <2>3, <2>4 DEF Relay, ToldOne
  <2>. QED
    BY <1>1, <2>3, <2>4, <2>5, <2>6, SendStep DEF Command, Update
<1>. QED
  BY <1>3, <1>4

LEMMA HandleInvInv ==
    ASSUME IInv, NEW j \in BagToSet(jobs), HandleInv(j.at, j)
    PROVE  IInv'
<1>1. /\ TypeOK /\ CentralInv /\ j \in Connection /\ j.at \in Node /\ Sound(j)
      /\ j.tx \in Tx \cup {NoTx}
      /\ j.pc = "inv" /\ UNCHANGED <<up, known, pool, sent, starts, history>>
  BY JobFacts DEF HandleInv, IInv, CentralInv
<1>2. /\ j.from = Central /\ j.at # Central /\ (~lost[j.at] => j.tx \in pool[Central])
  BY <1>1 DEF Sound, AsksForPooled
<1>3. CASE j.tx \in pool[j.at]
  BY <1>1, <1>3, LastStep DEF HandleInv, Update
<1>4. CASE j.tx \notin pool[j.at]
  <2>1. PICK then \in Connection :
          then = Goes(j, "end") /\ then.at = j.at /\ then.from = j.from /\ then.pc = "end"
    <3>1. "end" \in Command \cup Place
      BY DEF Place
    <3>. QED
      BY <1>1, <3>1, GoesFacts
  <2>2. PICK msg \in Connection :
          /\ msg = Job(j.from, j.at, "getdata", j.tx) /\ msg.at = j.from /\ msg.from = j.at
          /\ msg.pc = "getdata" /\ msg.tx = j.tx
    BY <1>1, <1>2, NewMessage, RelayAssumption DEF Command
  <2>3. Sound(then) /\ Sound(msg)
    BY <1>1, <1>2, <2>1, <2>2
       DEF Sound, ReportsToOther, Reports, RelaysItsOwn, Relays, AssignsRightly,
           AsksForPooled
  <2>4. SendData(j.at, j, msg, then)
    BY <1>4, <2>1, <2>2 DEF HandleInv, Goes
  <2>. QED
    BY <1>1, <2>1, <2>2, <2>3, <2>4, SendStep DEF Command, Update
<1>. QED
  BY <1>3, <1>4

LEMMA HandleGetDataInv ==
    ASSUME IInv, NEW j \in BagToSet(jobs), HandleGetData(j.at, j)
    PROVE  IInv'
<1>1. /\ TypeOK /\ CentralInv /\ j \in Connection /\ j.at \in Node /\ Sound(j)
      /\ j.tx \in Tx \cup {NoTx}
      /\ j.pc = "getdata" /\ UNCHANGED <<up, known, pool, sent, starts, history>>
  BY JobFacts DEF HandleGetData, IInv, CentralInv
<1>2. /\ j.at = Central /\ j.from \in Node \ {Central}
      /\ ~lost[j.from] => j.tx \in pool[Central]
  BY <1>1 DEF Sound, AsksForPooled
<1>3. PICK tx \in Tx \cup {NoTx} :
        tx = (IF j.tx \in pool[j.at] THEN j.tx ELSE NoTx)
  BY <1>1
<1>4. PICK then \in Connection :
        then = Goes(j, "end") /\ then.at = j.at /\ then.from = j.from /\ then.pc = "end"
  <2>1. "end" \in Command \cup Place
    BY DEF Place
  <2>. QED
    BY <1>1, <2>1, GoesFacts
<1>5. PICK msg \in Connection :
        /\ msg = Job(j.from, j.at, "tx", tx) /\ msg.at = j.from /\ msg.from = j.at
        /\ msg.pc = "tx" /\ msg.tx = tx
  BY <1>1, <1>2, NewMessage DEF Command
<1>6. Sound(then) /\ Sound(msg)
  BY <1>1, <1>2, <1>3, <1>4, <1>5
     DEF Sound, ReportsToOther, Reports, RelaysItsOwn, Relays, AssignsRightly,
         AsksForPooled
<1>7. SendData(j.at, j, msg, then)
  BY <1>3, <1>4, <1>5 DEF HandleGetData, Goes
<1>. QED
  BY <1>1, <1>4, <1>5, <1>6, <1>7, SendStep DEF Command, Update

--------------------------------------------------------------------------
(* New connections. *)

\* A connection is added.
LEMMA CentralAdd ==
    ASSUME CentralInv, NEW k \in Connection, jobs' = jobs (+) SetToBag({k}),
           up[k.at], k.pc # "end", Sound(k),
           UNCHANGED <<up, known, pool, starts, lost>>, sent' \subseteq Tx,
           overlap' \in [Node -> BOOLEAN], slipped' \subseteq Node
    PROVE  CentralInv'
<1>1. TypeOK
  BY DEF CentralInv
<1>2. IsABag(jobs') /\ BagToSet(jobs') = BagToSet(jobs) \cup {k}
  BY <1>1, Added
<1>3. TypeOK'
  <2>1. /\ BagToSet(jobs') \subseteq Connection
        /\ \A i \in BagToSet(jobs') : up'[i.at] /\ i.pc # "end"
    BY <1>1, <1>2 DEF TypeOK
  <2>. QED
    BY <1>1, <1>2, <2>1 DEF TypeOK
<1>4. ASSUME NEW i \in BagToSet(jobs') PROVE Sound(i)'
  <2>1. Sound(i)
    BY <1>2 DEF CentralInv
  <2>. QED
    BY <2>1, StaysSound
<1>5. ASSUME NEW q \in Node PROVE Sane(q)'
  BY DEF CentralInv, Sane
<1>6. NoTx \notin pool'[Central]
  BY DEF CentralInv
<1>. QED
  BY <1>3, <1>4, <1>5, <1>6 DEF CentralInv

\* The same, of the updates of KnownNodes, if the connection is not one of them.
LEMMA QuietAdd ==
    ASSUME TypeOK, ListInv, MemoryInv, NEW k, jobs' = jobs (+) SetToBag({k}),
           k.pc \notin Update, k.pc = "fails" => ~up[Head(k.list)],
           UNCHANGED <<up, known, lost, overlap, slipped>>
    PROVE  ListInv' /\ MemoryInv'
<1>1. /\ BagToSet(jobs') = BagToSet(jobs) \cup {k}
      /\ \A j \in BagToSet(jobs) : j # k => jobs'[j] = jobs[j]
  BY Added
<1>2. \A j : j.pc \in Update => /\ j \in BagToSet(jobs') <=> j \in BagToSet(jobs)
                                /\ j \in BagToSet(jobs) => jobs'[j] = jobs[j]
  BY <1>1
<1>3. ListInv'
  <2>. SUFFICES ASSUME NEW q \in Node, ~overlap[q]
                PROVE  OneUpdate(q)' /\ UpdatesOnce(q)' /\ IsInjective(known'[q])
    BY DEF ListInv
  <2>1. OneUpdate(q) /\ UpdatesOnce(q) /\ IsInjective(known[q])
    BY DEF ListInv
  <2>2. OneUpdate(q)'
    BY <1>2, <2>1 DEF OneUpdate
  <2>3. UpdatesOnce(q)'
    BY <1>2, <2>1 DEF UpdatesOnce, Update
  <2>. QED
    BY <2>1, <2>2, <2>3
<1>4. MemoryInv'
  <2>. SUFFICES ASSUME NEW m \in Node, up[m], WillCheck(m) \/ Keeps(m)
                PROVE  WillCheck(m)' \/ Keeps(m)'
    BY DEF MemoryInv
  <2>1. WillCheck(m) => WillCheck(m)'
    BY <1>1 DEF WillCheck, Checks
  <2>2. ASSUME Keeps(m), NEW j \in BagToSet(jobs'), j.at = Central, j.pc = "fails"
        PROVE  Head(j.list) # m
    <3>1. CASE j = k
      BY <2>2, <3>1
    <3>2. CASE j # k
      BY <1>1, <2>2, <3>2 DEF Keeps
    <3>. QED
      BY <3>1, <3>2
  <2>3. ASSUME Keeps(m) PROVE Keeps(m)'
    <3>1. \A j : j.pc \in Update => (j \in BagToSet(jobs') <=> j \in BagToSet(jobs))
      BY <1>2
    <3>2. \A j \in BagToSet(jobs') : j.at = Central /\ j.pc = "fails" => Head(j.list) # m
      BY <2>2, <2>3
    <3>. QED
      BY <2>3, <3>1, <3>2 DEF Keeps, Update
  <2>. QED
    BY <2>1, <2>3
<1>. QED
  BY <1>3, <1>4

LEMMA SendInv ==
    ASSUME IInv, NEW tx \in Tx, Send(tx)
    PROVE  IInv'
<1>1. /\ TypeOK /\ CentralInv /\ ListInv /\ MemoryInv /\ Central \in Node /\ tx # NoTx
      /\ UNCHANGED <<up, known, pool, starts, lost, overlap, slipped>>
      /\ sent' \subseteq Tx /\ overlap' \in [Node -> BOOLEAN] /\ slipped' \subseteq Node
  BY RelayAssumption DEF IInv, CentralInv, Send, history, TypeOK
<1>2. CASE ~up[Central]
  <2>1. jobs' = jobs
    BY <1>2 DEF Send
  <2>2. TypeOK'
    BY <1>1, <2>1 DEF TypeOK
  <2>3. CentralInv'
    BY <1>1, <2>1, <2>2
       DEF CentralInv, Sound, ReportsToOther, RelaysItsOwn, AssignsRightly,
           AsksForPooled, Sane
  <2>4. ListInv' /\ MemoryInv'
    BY <1>1, <2>1 DEF ListInv, OneUpdate, UpdatesOnce, MemoryInv, WillCheck, Keeps
  <2>. QED
    BY <2>3, <2>4 DEF IInv
<1>3. CASE up[Central]
  <2>1. PICK k \in Connection :
          /\ jobs' = jobs (+) SetToBag({k}) /\ k.at = Central /\ k.pc = "tx" /\ k.tx = tx
    <3>1. PICK to \in Node, from \in Node \cup {NoAddress}, t \in Tx \cup {NoTx},
               pc \in Command \cup Place :
                 to = Central /\ from = NoAddress /\ t = tx /\ pc = "tx"
      BY <1>1 DEF Command
    <3>2. PICK k \in Connection :
            k = Job(to, from, pc, t) /\ k.at = to /\ k.pc = pc /\ k.tx = t
      BY NewJob
    <3>. QED
      BY <1>3, <3>1, <3>2 DEF Send
  <2>2. Sound(k)
    BY <1>1, <2>1
       DEF Sound, ReportsToOther, Reports, RelaysItsOwn, Relays, AssignsRightly,
           AsksForPooled
  <2>3. CentralInv'
    BY <1>1, <1>3, <2>1, <2>2, CentralAdd
  <2>4. k.pc \notin Update /\ k.pc # "fails"
    BY <2>1 DEF Update
  <2>5. ListInv' /\ MemoryInv'
    BY <1>1, <2>1, <2>4, QuietAdd
  <2>. QED
    BY <2>3, <2>5 DEF IInv
<1>. QED
  BY <1>2, <1>3

LEMMA DialForBlocksInv ==
    ASSUME IInv, NEW n \in Node, NEW m \in Node, DialForBlocks(n, m)
    PROVE  IInv'
<1>1. /\ TypeOK /\ CentralInv /\ ListInv /\ MemoryInv
      /\ up[n] /\ ~up[m]
      /\ UNCHANGED <<up, known, pool, sent, starts, lost, overlap, slipped>>
      /\ sent' \subseteq Tx /\ overlap' \in [Node -> BOOLEAN] /\ slipped' \subseteq Node
  BY DEF IInv, CentralInv, DialForBlocks, history, TypeOK
<1>2. PICK l \in Seq(Node) : l = <<m>> /\ Head(l) = m
  <2>1. <<m>> \in Seq(Node) /\ Head(<<m>>) = m
    OBVIOUS
  <2>. QED
    BY <2>1
<1>3. PICK d \in Connection :
        /\ d = [Job(n, m, "fails", NoTx) EXCEPT !.list = l]
        /\ d.at = n /\ d.pc = "fails" /\ d.list = l /\ d.next = "end"
  <2>1. PICK from \in Node \cup {NoAddress}, t \in Tx \cup {NoTx},
             pc \in Command \cup Place : from = m /\ t = NoTx /\ pc = "fails"
    BY DEF Place
  <2>2. PICK k : k = Job(n, m, "fails", NoTx) /\ k \in Connection
                 /\ k.at = n /\ k.pc = "fails" /\ k.next = "end"
    BY <2>1, NewJob
  <2>3. PICK d : d = [k EXCEPT !.list = l]
    OBVIOUS
  <2>4. d \in Connection /\ d.at = n /\ d.pc = "fails" /\ d.list = l /\ d.next = "end"
    BY <2>2, <2>3 DEF Connection
  <2>. QED
    BY <2>2, <2>3, <2>4
<1>4. jobs' = jobs (+) SetToBag({d})
  BY <1>2, <1>3 DEF DialForBlocks
<1>5. ~lost[n] => m # Central
  BY <1>1 DEF CentralInv, Sane
<1>6. Sound(d)
  BY <1>1, <1>2, <1>3, <1>5
     DEF Sound, ReportsToOther, Reports, RelaysItsOwn, Relays, AssignsRightly,
         AsksForPooled
<1>7. CentralInv'
  BY <1>1, <1>3, <1>4, <1>6, CentralAdd
<1>8. d.pc \notin Update /\ ~up[Head(d.list)]
  BY <1>1, <1>2, <1>3 DEF Update
<1>9. ListInv' /\ MemoryInv'
  BY <1>1, <1>4, <1>8, QuietAdd
<1>. QED
  BY <1>7, <1>9 DEF IInv

LEMMA StartInv ==
    ASSUME IInv, NEW n \in Node, Start(n)
    PROVE  IInv'
<1>. DEFINE alone == n # Central /\ ~up[Central]
<1>1. /\ TypeOK /\ CentralInv /\ ListInv /\ MemoryInv /\ Central \in Node
      /\ ~up[n] /\ starts[n] < MaxStarts[n] /\ MaxStarts[n] \in Nat
      /\ up' = [up EXCEPT ![n] = TRUE]
      /\ UNCHANGED <<pool, sent, overlap, slipped>>
  BY RelayAssumption DEF Start, IInv, CentralInv
<1>2. /\ up' \in [Node -> BOOLEAN] /\ up'[n] /\ \A q \in Node \ {n} : up'[q] = up[q]
      /\ \A q \in Node : starts'[q] \in 0 .. MaxStarts[q]
  <2>1. starts' = [starts EXCEPT ![n] = @ + 1]
    BY DEF Start
  <2>. QED
    BY <1>1, <2>1 DEF TypeOK
<1>3. /\ known' \in [Node -> Seq(Node)]
      /\ known'[n] = IF alone THEN <<>> ELSE <<Central>>
      /\ \A q \in Node \ {n} : known'[q] = known[q]
  <2>1. PICK l \in Seq(Node) : l = IF alone THEN <<>> ELSE <<Central>>
    <3>1. <<>> \in Seq(Node) /\ <<Central>> \in Seq(Node)
      BY <1>1
    <3>. QED
      BY <3>1
  <2>2. known' = [known EXCEPT ![n] = l]
    BY <2>1 DEF Start
  <2>. QED
    BY <1>1, <2>1, <2>2 DEF TypeOK
<1>4. /\ lost' \in [Node -> BOOLEAN]
      /\ lost'[n] <=> /\ n # Central
                      /\ alone \/ (lost[n] /\ \E j \in BagToSet(jobs) : j.from = n)
      /\ \A q \in Node \ {n} : lost'[q] = lost[q]
  BY <1>1 DEF Start, TypeOK
<1>5. \A k \in BagToSet(jobs) : k.at # n /\ k.at \in Node /\ up[k.at]
  BY <1>1, JobFacts
<1>6. PICK v \in Connection : /\ v = Job(Central, n, "version", NoTx)
                              /\ v.at = Central /\ v.from = n /\ v.pc = "version"
  <2>1. PICK tx \in Tx \cup {NoTx}, to \in Node : tx = NoTx /\ to = Central
    BY <1>1
  <2>. QED
    BY <2>1, NewMessage DEF Command
<1>7. /\ IsABag(jobs')
      /\ \A k \in BagToSet(jobs) : k # v => k \in BagToSet(jobs') /\ jobs'[k] = jobs[k]
      /\ BagToSet(jobs) \subseteq BagToSet(jobs')
      /\ \A k \in BagToSet(jobs') : k \in BagToSet(jobs) \/ (k = v /\ n # Central /\ ~alone)
      /\ n # Central /\ ~alone => v \in BagToSet(jobs')
  <2>1. CASE n = Central \/ alone
    <3>1. jobs' = jobs
      BY <2>1 DEF Start
    <3>. QED
      BY <1>1, <2>1, <3>1 DEF TypeOK
  <2>2. CASE n # Central /\ ~alone
    <3>1. jobs' = jobs (+) SetToBag({v})
      BY <1>6, <2>2 DEF Start
    <3>. QED
      BY <1>1, <2>2, <3>1, Added
  <2>. QED
    BY <2>1, <2>2
<1>8. TypeOK'
  <2>1. /\ BagToSet(jobs') \subseteq Connection
        /\ \A k \in BagToSet(jobs') : up'[k.at] /\ k.pc # "end"
    BY <1>1, <1>2, <1>5, <1>6, <1>7, JobFacts
  <2>2. \A q \in Node : ~up'[q] => known'[q] = <<>> /\ pool'[q] = {}
    BY <1>1, <1>2, <1>3 DEF TypeOK
  <2>3. pool' \in [Node -> SUBSET (Tx \cup {NoTx})] /\ sent' \subseteq Tx
        /\ overlap' \in [Node -> BOOLEAN] /\ slipped' \subseteq Node
    BY <1>1 DEF TypeOK
  <2>. QED
    BY <1>2, <1>3, <1>4, <1>7, <2>1, <2>2, <2>3 DEF TypeOK
<1>9. CentralInv'
  <2>1. ASSUME NEW k \in BagToSet(jobs') PROVE Sound(k)'
    <3>1. CASE k \in BagToSet(jobs)
      <4>1. Sound(k)
        BY <1>1, <3>1 DEF CentralInv
      <4>2. /\ lost'[k.at] = lost[k.at]
            /\ k.from \in Node \ {Central} /\ ~lost'[k.from] => ~lost[k.from]
        BY <1>4, <1>5, <3>1
      <4>. QED
        BY <1>1, <4>1, <4>2
           DEF Sound, ReportsToOther, RelaysItsOwn, AssignsRightly, AsksForPooled
    <3>2. CASE k = v /\ n # Central
      BY <1>6, <3>2
         DEF Sound, ReportsToOther, Reports, RelaysItsOwn, Relays, AssignsRightly,
             AsksForPooled
    <3>. QED
      BY <1>7, <3>1, <3>2
  <2>2. ASSUME NEW q \in Node PROVE Sane(q)'
    <3>1. CASE q = n
      <4>1. /\ ToSet(<<>>) = {} /\ ToSet(<<Central>>) = {Central}
            /\ <<Central>> # <<>> /\ <<Central>>[1] = Central
        BY DEF ToSet
      <4>2. RightAboutCentral(n, known'[n])
        BY <1>3, <4>1 DEF RightAboutCentral
      <4>3. ~lost'[n] => up'[Central] /\ Central \in ToSet(known'[n])
        BY <1>1, <1>2, <1>3, <1>4, <4>1
      <4>4. pool'[n] = {}
        BY <1>1 DEF TypeOK
      <4>. QED
        BY <3>1, <4>2, <4>3, <4>4 DEF Sane
    <3>2. CASE q # n
      <4>1. Sane(q)
        BY <1>1 DEF CentralInv
      <4>. QED
        BY <1>1, <1>2, <1>3, <1>4, <3>2, <4>1 DEF Sane
    <3>. QED
      BY <3>1, <3>2
  <2>3. NoTx \notin pool'[Central]
    BY <1>1 DEF CentralInv
  <2>. QED
    BY <1>8, <2>1, <2>2, <2>3 DEF CentralInv
<1>10. \A k : k.pc \in Update \cup {"fails"} =>
                  /\ k \in BagToSet(jobs') <=> k \in BagToSet(jobs)
                  /\ k \in BagToSet(jobs) => jobs'[k] = jobs[k]
  BY <1>6, <1>7 DEF Update
<1>11. ListInv'
  <2>. SUFFICES ASSUME NEW q \in Node, ~overlap[q]
                PROVE  OneUpdate(q)' /\ UpdatesOnce(q)' /\ IsInjective(known'[q])
    BY <1>1 DEF ListInv
  <2>1. OneUpdate(q) /\ UpdatesOnce(q) /\ IsInjective(known[q])
    BY <1>1 DEF ListInv
  <2>2. OneUpdate(q)'
    BY <1>10, <2>1 DEF OneUpdate
  <2>3. CASE q = n
    <3>1. IsInjective(<<>>) /\ IsInjective(<<Central>>)
      BY DEF IsInjective
    <3>2. IsInjective(known'[q])
      BY <1>3, <2>3, <3>1
    <3>3. UpdatesOnce(q)'
      BY <1>5, <1>10, <2>3 DEF UpdatesOnce, Update
    <3>. QED
      BY <2>2, <3>2, <3>3
  <2>4. CASE q # n
    <3>1. known'[q] = known[q]
      BY <1>3, <2>4
    <3>2. UpdatesOnce(q)'
      BY <1>10, <2>1, <3>1 DEF UpdatesOnce, Update
    <3>. QED
      BY <2>1, <2>2, <3>1, <3>2
  <2>. QED
    BY <2>3, <2>4
<1>12. MemoryInv'
  <2>. SUFFICES ASSUME NEW m \in Node, up'[m], ~lost'[m], up'[Central], ~overlap[Central],
                       m \notin slipped
                PROVE  WillCheck(m)' \/ Keeps(m)'
    BY <1>1 DEF MemoryInv
  <2>1. CASE m = n /\ n # Central
    <3>1. v \in BagToSet(jobs') /\ Checks(v, m)
      BY <1>4, <1>6, <1>7, <2>1 DEF Checks
    <3>. QED
      BY <3>1 DEF WillCheck
  <2>2. CASE m = n /\ n = Central
    <3>1. ToSet(known'[Central]) = {Central}
      BY <1>3, <2>2 DEF ToSet
    <3>2. \A k \in BagToSet(jobs') : k.at # Central
      BY <1>5, <1>7, <2>2
    <3>. QED
      BY <2>2, <3>1, <3>2 DEF Keeps
  <2>3. CASE m # n /\ n = Central
    BY <1>1, <1>2, <1>4, <2>3 DEF CentralInv, Sane
  <2>4. CASE m # n /\ n # Central
    <3>1. up[m] /\ ~lost[m] /\ up[Central] /\ known'[Central] = known[Central]
      BY <1>1, <1>2, <1>3, <1>4, <2>4
    <3>2. WillCheck(m) \/ Keeps(m)
      BY <1>1, <3>1 DEF MemoryInv
    <3>3. WillCheck(m) => WillCheck(m)'
      BY <1>7 DEF WillCheck, Checks
    <3>4. Keeps(m) => Keeps(m)'
      BY <1>10, <3>1 DEF Keeps, Update
    <3>. QED
      BY <3>2, <3>3, <3>4
  <2>. QED
    BY <2>1, <2>2, <2>3, <2>4
<1>. QED
  BY <1>9, <1>11, <1>12 DEF IInv

--------------------------------------------------------------------------
(* The theorems. *)

LEMMA InitInv == Init => IInv
<1>. SUFFICES ASSUME Init PROVE IInv
  OBVIOUS
<1>1. IsABag(jobs) /\ BagToSet(jobs) = {}
  BY DEF Init, EmptyBag, IsABag, BagToSet, SetToBag
<1>2. <<>> \in Seq(Node) /\ IsInjective(<<>>)
  BY DEF IsInjective
<1>3. TypeOK
  <2>1. \A n \in Node : 0 \in 0 .. MaxStarts[n]
    BY RelayAssumption
  <2>. QED
    BY <1>1, <1>2, <2>1 DEF Init, TypeOK
<1>4. CentralInv
  BY <1>1, <1>3, RelayAssumption DEF Init, CentralInv, Sane
<1>5. ListInv
  BY <1>1, <1>2 DEF Init, ListInv, OneUpdate, UpdatesOnce
<1>6. MemoryInv
  BY RelayAssumption DEF Init, MemoryInv
<1>. QED
  BY <1>4, <1>5, <1>6 DEF IInv

LEMMA NextInv == IInv /\ [Next]_vars => IInv'
<1>. SUFFICES ASSUME IInv, [Next]_vars PROVE IInv'
  OBVIOUS
<1>1. CASE Work
  <2>1. PICK j \in BagToSet(jobs) : HandleConnection(j.at, j)
    BY <1>1 DEF Work
  <2>2. CASE HandleVersion(j.at, j)
    BY <2>2, HandleVersionInv
  <2>3. CASE Check(j.at, j)
    BY <2>3, CheckInv
  <2>4. CASE Read(j.at, j)
    BY <2>4, ReadInv
  <2>5. CASE Assign(j.at, j)
    BY <2>5, AssignInv
  <2>6. CASE HandleTx(j.at, j)
    BY <2>6, HandleTxInv
  <2>7. CASE HandleTxAlone(j.at, j) \/ MineTx(j.at, j)
    BY <2>7, HandleTxEndsInv
  <2>8. CASE Relay(j.at, j)
    BY <2>8, RelayInv
  <2>9. CASE HandleInv(j.at, j)
    BY <2>9, HandleInvInv
  <2>10. CASE HandleGetData(j.at, j)
    BY <2>10, HandleGetDataInv
  <2>11. CASE Filter(j.at, j)
    BY <2>11, FilterInv
  <2>12. CASE Drop(j.at, j)
    BY <2>12, DropInv
  <2>. QED
    BY <2>1, <2>2, <2>3, <2>4, <2>5, <2>6, <2>7, <2>8, <2>9, <2>10, <2>11,
       <2>12
       DEF HandleConnection
<1>2. ASSUME NEW n \in Node, Start(n) PROVE IInv'
  BY <1>2, StartInv
<1>3. ASSUME NEW n \in Node, Kill(n) PROVE IInv'
  BY <1>3, EndsInv DEF Kill
<1>4. ASSUME NEW n \in Node, NEW m \in Node, DialForBlocks(n, m) PROVE IInv'
  BY <1>4, DialForBlocksInv
<1>5. ASSUME NEW tx \in Tx, Send(tx) PROVE IInv'
  BY <1>5, SendInv
<1>6. CASE UNCHANGED vars
  <2>1. UNCHANGED <<up, known, pool, jobs, sent, starts, lost, overlap, slipped>>
    BY <1>6 DEF vars
  <2>2. TypeOK'
    BY <2>1 DEF IInv, CentralInv, TypeOK
  <2>3. CentralInv'
    BY <2>1, <2>2
       DEF IInv, CentralInv, Sound, ReportsToOther, RelaysItsOwn, AssignsRightly,
           AsksForPooled, Sane
  <2>4. ListInv' /\ MemoryInv'
    BY <2>1 DEF IInv, ListInv, OneUpdate, UpdatesOnce, MemoryInv, WillCheck, Keeps
  <2>. QED
    BY <2>3, <2>4 DEF IInv
<1>. QED
  BY <1>1, <1>2, <1>3, <1>4, <1>5, <1>6 DEF Next

\* The inductive invariant holds throughout: what the handlers hold while they are
\* between two steps is right about the central node, about what it has pooled and
\* about the lists that they are going to assign.
THEOREM Invariance == Spec => []IInv
BY InitInv, NextInv, PTL DEF Spec

\* The variables keep their types; a process that has ended has no memory, no
\* goroutines and no connections.
THEOREM TypeCorrect == Spec => []TypeOK
<1>1. IInv => TypeOK
  BY DEF IInv, CentralInv
<1>. QED
  BY <1>1, Invariance, PTL

\* However SendData and HandleVersion rewrite KnownNodes, the central process finds
\* itself first on its list and no other finds itself on its own: HandleTx relays at
\* the central node only.
THEOREM OthersDoNotRelay == Spec => []OnlyCentralRelays
<1>1. IInv => OnlyCentralRelays
  <2>. SUFFICES ASSUME IInv PROVE OnlyCentralRelays
    OBVIOUS
  <2>1. Central \in Node /\ TypeOK /\ \A n \in Node : Sane(n)
    BY RelayAssumption DEF IInv, CentralInv
  <2>2. up[Central] => known[Central] # <<>> /\ Head(known[Central]) = Central
    BY <2>1 DEF Sane, RightAboutCentral, TypeOK
  <2>3. ASSUME NEW n \in Node \ {Central} PROVE n \notin ToSet(known[n])
    <3>1. CASE up[n]
      BY <2>1, <3>1 DEF Sane, RightAboutCentral
    <3>2. CASE ~up[n]
      BY <2>1, <3>2 DEF TypeOK, ToSet
    <3>. QED
      BY <3>1, <3>2
  <2>4. \A j \in BagToSet(jobs) : j.pc = "relay" => j.at = Central
    BY DEF IInv, CentralInv, Sound, RelaysItsOwn, Relays
  <2>. QED
    BY <2>2, <2>3, <2>4 DEF OnlyCentralRelays
<1>. QED
  BY <1>1, Invariance, PTL

\* A node that has not seen the central node down keeps it on its list, so that HandleTx
\* does not panic over KnownNodes[0].
THEOREM NoNodeIsCutOff == Spec => []StaysConnected
<1>1. IInv => StaysConnected
  BY DEF IInv, CentralInv, Sane, StaysConnected
<1>. QED
  BY <1>1, Invariance, PTL

\* What a node has pooled the central node has pooled too, unless that was down
\* meanwhile: HandleGetData does not answer with the empty transaction.
THEOREM CentralIsAhead == Spec => []CentralHasAll
<1>1. IInv => CentralHasAll
  BY DEF IInv, CentralInv, Sane, CentralHasAll
<1>. QED
  BY <1>1, Invariance, PTL

\* HandleVersion puts no node on KnownNodes twice if its updates do not overlap.
THEOREM ListedOnce == Spec => []NobodyTwice
<1>1. IInv => NobodyTwice
  BY DEF IInv, ListInv, NobodyTwice
<1>. QED
  BY <1>1, Invariance, PTL

\* A node that has reported to the central node is forgotten in two ways only: updates of
\* the list overlap, or the node reports while it is being taken off the list because an
\* earlier process of it did not answer.
THEOREM NoNodeIsForgotten == Spec => []Remembered
<1>1. IInv => Remembered
  <2>. SUFFICES ASSUME IInv, NEW m \in Node, up[m], ~lost[m], up[Central],
                       ~overlap[Central], m \notin slipped,
                       \A j \in BagToSet(jobs) : j.at = Central =>
                          /\ j.pc \notin Update
                          /\ j.from = m => j.pc \notin {"version", "check"} /\ j.next # "check"
                PROVE  m \in ToSet(known[Central])
    BY DEF Remembered
  <2>1. ~WillCheck(m)
    BY DEF WillCheck, Checks
  <2>2. Keeps(m)
    BY <2>1 DEF IInv, MemoryInv
  <2>. QED
    BY <2>2 DEF Keeps
<1>. QED
  BY <1>1, Invariance, PTL
==========================================================================
