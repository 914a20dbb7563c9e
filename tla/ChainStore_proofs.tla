------------------------ MODULE ChainStore_proofs ------------------------
(***************************************************************************)
(* Theorems about ChainStore: for any set of blocks, any parent and height *)
(* functions and any number of concurrent goroutines.                      *)
(***************************************************************************)
EXTENDS ChainStore, TLAPS

--------------------------------------------------------------------------
(* The inductive invariant. *)

\* A creating process has a directory and no chain yet; a node has a chain.
ProcessInv ==
    /\ proc = "creating" => dir /\ lh = NoHash
    /\ proc = "node" => lh # NoHash

\* What an open transaction knows of the database.  Blocks are only added, so
\* its snapshot is a part of what is stored; the keys in stale are exactly the
\* changes since.
SnapshotInv ==
    \A c \in Conn : InTransaction(c) =>
        /\ conn[c].arg \in Hash
        /\ conn[c].head \in conn[c].seen
        /\ conn[c].seen \subseteq stored
        /\ conn[c].stale \cap conn[c].seen = {}
        /\ conn[c].arg \in stored <=> conn[c].arg \in conn[c].seen \cup conn[c].stale
        /\ IF "lh" \in conn[c].stale THEN Raises(lh, conn[c].head) ELSE lh = conn[c].head
        /\ conn[c].pc = "commit" => conn[c].arg \notin conn[c].seen

\* As long as a transaction that moves the tip can still commit, LastHash is
\* the block of some transaction that moves the tip.
LastHashInv ==
    (\E c \in Conn : MovingTip(c) /\ "lh" \notin conn[c].stale)
        => \E d \in Conn : MovingTip(d) /\ lastHash = conn[d].arg

IInv ==
    /\ TypeOK
    /\ TipIsStored
    /\ TipIsHighest
    /\ ProcessInv
    /\ SnapshotInv
    /\ LastHashInv
    /\ LastHashAgrees

--------------------------------------------------------------------------
(* Types. *)

\* An idle goroutine is a goroutine.
LEMMA IdleType == Idle \in Goroutine /\ Idle.pc = "idle"
BY DEF Idle, Goroutine, MaybeHash

\* Before the first command the variables have their types.
LEMMA InitType == Init => TypeOK
BY IdleType DEF Init, TypeOK, MaybeHash, ExitCauses

\* When a process ends nothing of its goroutines is left.
LEMMA PanicType ==
    ASSUME TypeOK, NEW e \in ExitCauses, Panic(e)
    PROVE  TypeOK'
BY IdleType DEF Panic, Ends, dbVars, TypeOK, MaybeHash

\* One goroutine is replaced by a well-typed one; LastHash and exit stay.
LEMMA ReplaceType ==
    ASSUME TypeOK, NEW c \in Conn, NEW r \in Goroutine,
           conn' = [conn EXCEPT ![c] = r],
           r.pc # "idle" => proc = "node" /\ r.arg \in Hash,
           proc' = proc, exit' = exit, UNCHANGED dbVars,
           lastHash' \in MaybeHash, proc = "node" => lastHash' \in Hash
    PROVE  TypeOK'
BY DEF TypeOK, dbVars

\* A commit adds a block of the chain and notes it, and "lh" when it was set, as
\* stale in the open transactions: nothing that is not a hash or a key.
LEMMA CommitType ==
    ASSUME TypeOK, NEW c \in Conn, AddCommit(c)
    PROVE  TypeOK'
<1>1. CASE Conflict(c)
  BY <1>1, PanicType DEF AddCommit, ExitCauses
<1>2. CASE ~Conflict(c)
  <2>1. conn[c].arg \in Hash /\ proc = "node"
    BY DEF AddCommit, TypeOK
  <2>2. stored' \in SUBSET Hash /\ lh' \in MaybeHash
    BY <1>2, <2>1 DEF AddCommit, TypeOK, MaybeHash
  <2>3. ASSUME NEW d \in Conn
        PROVE  /\ [conn[d] EXCEPT !.stale = @ \cup Writes(c)] \in Goroutine
               /\ [conn[d] EXCEPT !.stale = @ \cup Writes(c)].pc = conn[d].pc
               /\ [conn[d] EXCEPT !.stale = @ \cup Writes(c)].arg = conn[d].arg
    <3>1. conn[d] \in Goroutine
      BY DEF TypeOK
    <3>2. Writes(c) \subseteq Key
      BY <2>1 DEF Writes, Key
    <3>3. QED
      BY <3>1, <3>2 DEF Goroutine
  <2>4. conn' \in [Conn -> Goroutine]
    BY <1>2, <2>3, IdleType DEF AddCommit, TypeOK
  <2>5. \A d \in Conn : conn'[d].pc # "idle" => proc = "node" /\ conn'[d].arg \in Hash
    BY <1>2, <2>1, <2>3, IdleType DEF AddCommit, TypeOK
  <2>6. QED
    BY <1>2, <2>2, <2>4, <2>5 DEF AddCommit, TypeOK
<1>3. QED
  BY <1>1, <1>2

\* Every step of a process, of a goroutine or of the outside keeps the types.
LEMMA NextType == TypeOK /\ [Next]_vars => TypeOK'
<1> SUFFICES ASSUME TypeOK, [Next]_vars PROVE TypeOK'
  OBVIOUS
<1>1. CASE InitOpen
  BY <1>1 DEF InitOpen, TypeOK
<1>2. ASSUME NEW g \in Genesis, InitCommit(g) PROVE TypeOK'
  BY <1>2, IdleType DEF InitCommit, Ends, TypeOK, Genesis, ExitCauses, MaybeHash
<1>3. CASE ContinueBlockChain
  <2>1. CASE lh = NoHash
    BY <1>3, <2>1, PanicType DEF ContinueBlockChain, ExitCauses
  <2>2. CASE lh # NoHash
    BY <1>3, <2>2 DEF ContinueBlockChain, TypeOK, MaybeHash
  <2>3. QED
    BY <2>1, <2>2
<1>4. CASE Kill
  BY <1>4, PanicType DEF Kill, ExitCauses
<1>5. ASSUME NEW c \in Conn, Step(c) PROVE TypeOK'
  <2>t. conn[c] \in Goroutine
    BY DEF TypeOK
  <2>1. ASSUME NEW b \in Hash, AddBegin(c, b) PROVE TypeOK'
    <3> DEFINE r == [pc |-> "open", arg |-> b, seen |-> stored, head |-> lh, stale |-> {}]
    <3>1. r \in Goroutine /\ r.arg = b
      BY DEF TypeOK, Goroutine, MaybeHash
    <3>2. QED
      BY <2>1, <3>1, ReplaceType DEF AddBegin, dbVars, TypeOK
  <2>2. CASE AddSeen(c)
    BY <2>2, IdleType, ReplaceType DEF AddSeen, dbVars, TypeOK
  <2>3. CASE AddClosure(c)
    <3>1. CASE conn[c].head \notin conn[c].seen
      BY <2>3, <3>1, PanicType DEF AddClosure, ExitCauses
    <3>2. CASE conn[c].head \in conn[c].seen
      <4> DEFINE r == [conn[c] EXCEPT !.pc = "commit"]
      <4>1. r \in Goroutine /\ r.arg = conn[c].arg
        BY <2>t DEF Goroutine
      <4>2. conn[c].arg \in Hash /\ proc = "node"
        BY <2>3 DEF AddClosure, TypeOK
      <4>3. conn' = [conn EXCEPT ![c] = r]
        BY <2>3, <3>2 DEF AddClosure
      <4>4. lastHash' \in Hash
        BY <2>3, <3>2, <4>2 DEF AddClosure, TypeOK
      <4>5. QED
        BY <2>3, <3>2, <4>1, <4>2, <4>3, <4>4, ReplaceType DEF AddClosure, dbVars, MaybeHash
    <3>3. QED
      BY <3>1, <3>2
  <2>4. CASE AddCommit(c)
    BY <2>4, CommitType
  <2>5. CASE IterBegin(c)
    <3> DEFINE r == [Idle EXCEPT !.pc = "walk", !.arg = lastHash]
    <3>1. r \in Goroutine /\ r.arg = lastHash
      BY DEF TypeOK, Idle, Goroutine, MaybeHash
    <3>2. QED
      BY <2>5, <3>1, ReplaceType DEF IterBegin, dbVars, TypeOK
  <2>6. CASE IterNext(c)
    <3>1. CASE conn[c].arg \notin stored
      BY <2>6, <3>1, PanicType DEF IterNext, ExitCauses
    <3>2. CASE conn[c].arg \in stored
      <4> DEFINE next == PrevHash[conn[c].arg]
                 r == [conn[c] EXCEPT !.arg = next]
      <4>1. next \in MaybeHash /\ proc = "node"
        BY <2>6, BlockAssumption DEF IterNext, TypeOK, MaybeHash
      <4>2. r \in Goroutine /\ r.arg = next
        BY <2>t, <4>1 DEF Goroutine
      <4> HIDE DEF r, next
      <4>3. CASE next = NoHash
        <5>1. conn' = [conn EXCEPT ![c] = Idle] /\ UNCHANGED <<dbVars, proc, lastHash, exit>>
          BY <2>6, <3>2, <4>3 DEF IterNext, dbVars, next
        <5>2. QED
          BY <5>1, IdleType, ReplaceType DEF TypeOK
      <4>4. CASE next # NoHash
        <5>1. conn' = [conn EXCEPT ![c] = r] /\ UNCHANGED <<dbVars, proc, lastHash, exit>>
          BY <2>6, <3>2, <4>4 DEF IterNext, dbVars, next, r
        <5>2. QED
          BY <4>1, <4>2, <4>4, <5>1, ReplaceType DEF TypeOK, MaybeHash
      <4>5. QED
        BY <4>3, <4>4
    <3>3. QED
      BY <3>1, <3>2
  <2>7. CASE MineBlock(c)
    BY <2>7, PanicType DEF MineBlock, ExitCauses
  <2>8. QED
    BY <1>5, <2>1, <2>2, <2>3, <2>4, <2>5, <2>6, <2>7 DEF Step
<1>6. CASE UNCHANGED vars
  BY <1>6 DEF vars, TypeOK
<1>7. QED
  BY <1>1, <1>2, <1>3, <1>4, <1>5, <1>6 DEF Next

\* In every state of the store the variables have their types.
THEOREM TypeCorrect == Spec => []TypeOK
BY InitType, NextType, PTL DEF Spec

--------------------------------------------------------------------------
(* The invariant holds initially and is kept by every action. *)

\* A database that does not exist yet satisfies the invariant.
LEMMA InitInv == Init => IInv
<1> SUFFICES ASSUME Init PROVE IInv
  OBVIOUS
<1>1. \A c \in Conn : conn[c].pc = "idle"
  BY IdleType DEF Init
<1>2. TypeOK
  BY InitType
<1>3. QED
  BY <1>1, <1>2 DEF Init, IInv, TipIsStored, TipIsHighest, ProcessInv, SnapshotInv,
     InTransaction, LastHashInv, LastHashAgrees, MovingTip

\* The end of a process leaves nothing but the database.
LEMMA PanicInv ==
    ASSUME IInv, NEW e \in ExitCauses, Panic(e)
    PROVE  IInv'
<1>1. TypeOK'
  BY PanicType DEF IInv
<1>2. \A c \in Conn : conn'[c].pc = "idle"
  BY IdleType DEF Panic, Ends
<1>3. QED
  BY <1>1, <1>2 DEF Panic, Ends, dbVars, IInv, TipIsStored, TipIsHighest, ProcessInv,
     SnapshotInv, InTransaction, LastHashInv, LastHashAgrees, MovingTip

\* Goroutine c is replaced by one that is in no transaction that moves the tip:
\* an idle one, an iterator, or an AddBlock that has just taken its snapshot.
LEMMA QuietInv ==
    ASSUME IInv, TypeOK', NEW c \in Conn, NEW r,
           conn' = [conn EXCEPT ![c] = r], r.pc # "commit",
           ~MovingTip(c), UNCHANGED <<dbVars, proc, lastHash>>,
           r.pc = "open" => /\ r.arg \in Hash
                            /\ r.seen = stored
                            /\ r.head = lh
                            /\ r.stale = {}
                            /\ lh # NoHash
    PROVE  IInv'
<1>1. conn'[c] = r /\ \A d \in Conn \ {c} : conn'[d] = conn[d]
  BY DEF IInv, TypeOK
<1>2. TipIsStored' /\ TipIsHighest' /\ ProcessInv'
  BY DEF IInv, TipIsStored, TipIsHighest, ProcessInv, dbVars
<1>3. SnapshotInv'
  BY <1>1 DEF IInv, SnapshotInv, InTransaction, TipIsStored, dbVars
<1>4. ~MovingTip(c)' /\ \A d \in Conn \ {c} : MovingTip(d)' <=> MovingTip(d)
  BY <1>1 DEF MovingTip
<1>5. LastHashInv' /\ LastHashAgrees'
  BY <1>1, <1>4 DEF IInv, LastHashInv, LastHashAgrees, dbVars
<1>6. QED
  BY <1>2, <1>3, <1>5 DEF IInv

\* The closure of AddBlock: only a transaction that moves the tip touches
\* LastHash, and it is then the witness LastHashInv asks for.
LEMMA ClosureInv ==
    ASSUME IInv, TypeOK', NEW c \in Conn, AddClosure(c)
    PROVE  IInv'
<1>1. conn[c].head \in conn[c].seen
  BY DEF AddClosure, IInv, SnapshotInv, InTransaction
<1> DEFINE r == [conn[c] EXCEPT !.pc = "commit"]
<1>2. /\ r.pc = "commit" /\ r.arg = conn[c].arg /\ r.head = conn[c].head
      /\ r.seen = conn[c].seen /\ r.stale = conn[c].stale
  BY DEF IInv, TypeOK, Goroutine
<1>3. /\ conn'[c] = r
      /\ \A d \in Conn \ {c} : conn'[d] = conn[d]
      /\ UNCHANGED <<dbVars, proc>>
      /\ lastHash' = IF Raises(conn[c].arg, conn[c].head) THEN conn[c].arg ELSE lastHash
  BY <1>1 DEF AddClosure, IInv, TypeOK, dbVars
<1> HIDE DEF r
<1>4. conn[c].pc = "open" /\ conn[c].arg \notin conn[c].seen
  BY DEF AddClosure
<1>5. TipIsStored' /\ TipIsHighest' /\ ProcessInv'
  BY <1>3 DEF IInv, TipIsStored, TipIsHighest, ProcessInv, dbVars
<1>6. SnapshotInv'
  BY <1>2, <1>3, <1>4 DEF IInv, SnapshotInv, InTransaction, dbVars
<1>7. /\ \A d \in Conn \ {c} : MovingTip(d)' <=> MovingTip(d)
      /\ MovingTip(c)' <=> Raises(conn[c].arg, conn[c].head)
      /\ ~MovingTip(c)
  BY <1>2, <1>3, <1>4 DEF MovingTip
<1>8. LastHashInv' /\ LastHashAgrees'
  <2>1. CASE Raises(conn[c].arg, conn[c].head)
    BY <2>1, <1>2, <1>3, <1>7 DEF LastHashInv, LastHashAgrees
  <2>2. CASE ~Raises(conn[c].arg, conn[c].head)
    BY <2>2, <1>2, <1>3, <1>7 DEF IInv, LastHashInv, LastHashAgrees, dbVars
  <2>3. QED
    BY <2>1, <2>2
<1>9. QED
  BY <1>5, <1>6, <1>8 DEF IInv

\* A commit that meets no conflict was decided on the database as it still is.
LEMMA CommitIsCurrent ==
    ASSUME IInv, NEW c \in Conn, conn[c].pc = "commit", ~Conflict(c)
    PROVE  /\ conn[c].arg \in Hash
           /\ lh = conn[c].head
           /\ lh \in stored
           /\ conn[c].arg \notin stored
           /\ "lh" \notin conn[c].stale
BY DEF IInv, SnapshotInv, InTransaction, Conflict, Reads

\* What the commit of goroutine c does to the others.
LEMMA CommitEffect ==
    ASSUME TypeOK, NEW c \in Conn, AddCommit(c), ~Conflict(c)
    PROVE  /\ conn'[c] = Idle
           /\ \A d \in Conn \ {c} :
                 /\ conn'[d].pc = conn[d].pc
                 /\ conn'[d].arg = conn[d].arg
                 /\ conn'[d].head = conn[d].head
                 /\ conn'[d].seen = conn[d].seen
                 /\ InTransaction(d) => conn'[d].stale = conn[d].stale \cup Writes(c)
<1>1. \A d \in Conn : conn[d] \in Goroutine
  BY DEF TypeOK
<1>2. conn' = [d \in Conn |->
                  IF d = c THEN Idle
                  ELSE IF InTransaction(d)
                       THEN [conn[d] EXCEPT !.stale = @ \cup Writes(c)]
                       ELSE conn[d]]
  BY DEF AddCommit
<1> HIDE DEF TypeOK
<1>3. QED
  BY <1>1, <1>2 DEF Goroutine

\* The commit of AddBlock keeps the invariant: what it decided on is current, so
\* the tip it sets is the highest block, and the transactions still open learn
\* of every key it wrote.
LEMMA CommitInv ==
    ASSUME IInv, NEW c \in Conn, AddCommit(c)
    PROVE  IInv'
<1>1. CASE Conflict(c)
  BY <1>1, PanicInv DEF AddCommit, ExitCauses
<1>2. CASE ~Conflict(c)
  <2> DEFINE b == conn[c].arg
             h == conn[c].head
  <2>pc. conn[c].pc = "commit"
    BY DEF AddCommit
  <2>cur. b \in Hash /\ lh = h /\ lh \in stored /\ b \notin stored /\ "lh" \notin conn[c].stale
    BY <1>2, <2>pc, CommitIsCurrent
  <2>db. /\ stored' = stored \cup {b}
         /\ lh' = IF Raises(b, h) THEN b ELSE lh
         /\ UNCHANGED <<dir, proc, lastHash>>
    BY <1>2 DEF AddCommit
  <2>oth. /\ conn'[c] = Idle
          /\ \A d \in Conn \ {c} :
                /\ conn'[d].pc = conn[d].pc
                /\ conn'[d].arg = conn[d].arg
                /\ conn'[d].head = conn[d].head
                /\ conn'[d].seen = conn[d].seen
                /\ InTransaction(d) => conn'[d].stale = conn[d].stale \cup Writes(c)
    BY <1>2, CommitEffect DEF IInv
  <2>wr. Writes(c) = {b} \cup (IF Raises(b, h) THEN {"lh"} ELSE {})
    BY DEF Writes
  <2>typ. /\ stored \subseteq Hash
          /\ \A x \in Hash : Height[x] \in Nat
          /\ "lh" \notin Hash /\ NoHash \notin Hash
    BY BlockAssumption DEF IInv, TypeOK
  <2> HIDE DEF b, h
  <2>1. TypeOK'
    BY CommitType DEF IInv
  <2>2. TipIsStored' /\ ProcessInv'
    BY <2>cur, <2>db, <2>typ DEF IInv, TipIsStored, ProcessInv, TypeOK
  <2>3. TipIsHighest'
    <3>1. \A x \in stored : Height[x] <= Height[lh]
      BY DEF IInv, TipIsHighest
    <3>2. CASE Raises(b, h)
      BY <3>1, <3>2, <2>cur, <2>db, <2>typ DEF TipIsHighest, Raises
    <3>3. CASE ~Raises(b, h)
      BY <3>1, <3>3, <2>cur, <2>db, <2>typ DEF TipIsHighest, Raises
    <3>4. QED
      BY <3>2, <3>3
  <2>4. SnapshotInv'
    <3> SUFFICES ASSUME NEW d \in Conn, InTransaction(d)'
                 PROVE  /\ conn'[d].arg \in Hash
                        /\ conn'[d].head \in conn'[d].seen
                        /\ conn'[d].seen \subseteq stored'
                        /\ conn'[d].stale \cap conn'[d].seen = {}
                        /\ conn'[d].arg \in stored' <=>
                               conn'[d].arg \in conn'[d].seen \cup conn'[d].stale
                        /\ IF "lh" \in conn'[d].stale THEN Raises(lh', conn'[d].head)
                                                      ELSE lh' = conn'[d].head
                        /\ conn'[d].pc = "commit" => conn'[d].arg \notin conn'[d].seen
      BY DEF SnapshotInv
    <3>1. d # c /\ InTransaction(d)
      BY <2>oth, IdleType DEF InTransaction
    <3>2. /\ conn[d].arg \in Hash
          /\ conn[d].head \in conn[d].seen
          /\ conn[d].seen \subseteq stored
          /\ conn[d].stale \cap conn[d].seen = {}
          /\ conn[d].arg \in stored <=> conn[d].arg \in conn[d].seen \cup conn[d].stale
          /\ IF "lh" \in conn[d].stale THEN Raises(lh, conn[d].head) ELSE lh = conn[d].head
          /\ conn[d].pc = "commit" => conn[d].arg \notin conn[d].seen
      BY <3>1 DEF IInv, SnapshotInv
    <3>3. /\ conn'[d].pc = conn[d].pc
          /\ conn'[d].arg = conn[d].arg
          /\ conn'[d].head = conn[d].head
          /\ conn'[d].seen = conn[d].seen
          /\ conn'[d].stale = conn[d].stale \cup Writes(c)
      BY <3>1, <2>oth
    <3>4. conn'[d].seen \subseteq stored' /\ conn'[d].stale \cap conn'[d].seen = {}
      BY <3>2, <3>3, <2>cur, <2>db, <2>wr, <2>typ
    <3>5. conn'[d].arg \in stored' <=> conn'[d].arg \in conn'[d].seen \cup conn'[d].stale
      BY <3>2, <3>3, <2>db, <2>wr, <2>typ
    <3>6. IF "lh" \in conn'[d].stale THEN Raises(lh', conn'[d].head)
                                     ELSE lh' = conn'[d].head
      <4>1. lh \in Hash /\ conn[d].head \in Hash
        BY <2>cur, <3>2, <2>typ
      <4>2. CASE Raises(b, h)
        <5>1. Raises(lh', conn[d].head)
          BY <3>2, <4>1, <4>2, <2>cur, <2>db, <2>typ DEF Raises
        <5>2. "lh" \in conn'[d].stale
          BY <3>3, <4>2, <2>wr
        <5>3. QED
          BY <3>3, <5>1, <5>2
      <4>3. CASE ~Raises(b, h)
        <5>1. "lh" \in conn'[d].stale <=> "lh" \in conn[d].stale
          BY <3>3, <4>3, <2>cur, <2>wr, <2>typ
        <5>2. lh' = lh
          BY <4>3, <2>db
        <5>3. QED
          BY <3>2, <3>3, <5>1, <5>2
      <4>4. QED
        BY <4>2, <4>3
    <3>7. QED
      BY <3>2, <3>3, <3>4, <3>5, <3>6
  <2>mov. /\ \A d \in Conn \ {c} : MovingTip(d)' <=> MovingTip(d)
          /\ ~MovingTip(c)'
          /\ MovingTip(c) <=> Raises(b, h)
    BY <2>oth, <2>pc, IdleType DEF MovingTip, b, h
  <2>tx. \A d \in Conn : MovingTip(d) => InTransaction(d)
    BY DEF MovingTip, InTransaction
  <2>5. LastHashInv'
    <3>1. CASE Raises(b, h)
      <4>1. \A d \in Conn : MovingTip(d)' => "lh" \in conn'[d].stale
        BY <3>1, <2>mov, <2>tx, <2>oth, <2>wr
      <4>2. QED
        BY <4>1 DEF LastHashInv
    <3>2. CASE ~Raises(b, h)
      <4>1. \A d \in Conn : MovingTip(d)' => d # c /\ MovingTip(d)
        BY <2>mov
      <4>2. ASSUME NEW d \in Conn, MovingTip(d)', "lh" \notin conn'[d].stale
            PROVE  \E e \in Conn : MovingTip(e)' /\ lastHash' = conn'[e].arg
        <5>1. MovingTip(d) /\ "lh" \notin conn[d].stale
          BY <4>1, <4>2, <2>oth, <2>tx
        <5>2. PICK e \in Conn : MovingTip(e) /\ lastHash = conn[e].arg
          BY <5>1 DEF IInv, LastHashInv
        <5>3. e # c
          BY <3>2, <5>2, <2>mov
        <5>4. MovingTip(e)' /\ lastHash' = conn'[e].arg
          BY <5>2, <5>3, <2>mov, <2>oth, <2>db
        <5>5. QED
          BY <5>4
      <4>3. QED
        BY <4>2 DEF LastHashInv
    <3>3. QED
      BY <3>1, <3>2
  <2>6. LastHashAgrees'
    <3> SUFFICES ASSUME proc' = "node", \A d \in Conn : ~MovingTip(d)'
                 PROVE  lastHash' = lh'
      BY DEF LastHashAgrees
    <3>1. \A d \in Conn \ {c} : ~MovingTip(d)
      BY <2>mov
    <3>2. CASE Raises(b, h)
      <4>1. PICK e \in Conn : MovingTip(e) /\ lastHash = conn[e].arg
        BY <3>2, <2>mov, <2>cur DEF IInv, LastHashInv
      <4>2. lastHash = b
        BY <3>1, <4>1 DEF b
      <4>3. QED
        BY <3>2, <4>2, <2>db
    <3>3. CASE ~Raises(b, h)
      BY <3>1, <3>3, <2>mov, <2>db DEF IInv, LastHashAgrees
    <3>4. QED
      BY <3>2, <3>3
  <2>7. QED
    BY <2>1, <2>2, <2>3, <2>4, <2>5, <2>6 DEF IInv
<1>3. QED
  BY <1>1, <1>2

\* Every step keeps the invariant.
LEMMA NextInv == IInv /\ [Next]_vars => IInv'
<1> SUFFICES ASSUME IInv, [Next]_vars PROVE IInv'
  OBVIOUS
<1>t. TypeOK'
  BY NextType DEF IInv
<1>1. CASE InitOpen
  BY <1>1, <1>t DEF InitOpen, IInv, TypeOK, TipIsStored, TipIsHighest, ProcessInv,
     SnapshotInv, InTransaction, LastHashInv, LastHashAgrees, MovingTip
<1>2. ASSUME NEW g \in Genesis, InitCommit(g) PROVE IInv'
  <2>1. dir /\ g \in Hash /\ g # NoHash
    BY <1>2, BlockAssumption DEF InitCommit, IInv, ProcessInv, Genesis
  <2>2. \A c \in Conn : conn'[c].pc = "idle"
    BY <1>2, IdleType DEF InitCommit, Ends
  <2>3. Height[g] \in Nat
    BY <2>1, BlockAssumption
  <2>4. QED
    BY <1>2, <1>t, <2>1, <2>2, <2>3 DEF InitCommit, Ends, IInv, TipIsStored, TipIsHighest,
       ProcessInv, SnapshotInv, InTransaction, LastHashInv, LastHashAgrees, MovingTip
<1>3. CASE ContinueBlockChain
  <2>1. CASE lh = NoHash
    BY <1>3, <2>1, PanicInv DEF ContinueBlockChain, ExitCauses
  <2>2. CASE lh # NoHash
    <3>1. \A c \in Conn : conn'[c].pc = "idle"
      BY <1>3, <2>2 DEF ContinueBlockChain, IInv, TypeOK
    <3>2. QED
      BY <1>3, <1>t, <2>2, <3>1 DEF ContinueBlockChain, IInv, TipIsStored, TipIsHighest,
         ProcessInv, SnapshotInv, InTransaction, LastHashInv, LastHashAgrees, MovingTip
  <2>3. QED
    BY <2>1, <2>2
<1>4. CASE Kill
  BY <1>4, PanicInv DEF Kill, ExitCauses
<1>5. ASSUME NEW c \in Conn, Step(c) PROVE IInv'
  <2>1. ASSUME NEW b \in Hash, AddBegin(c, b) PROVE IInv'
    <3> DEFINE r == [pc |-> "open", arg |-> b, seen |-> stored, head |-> lh, stale |-> {}]
    <3>1. /\ r.pc = "open" /\ r.arg = b /\ r.seen = stored /\ r.head = lh /\ r.stale = {}
      OBVIOUS
    <3>2. /\ conn' = [conn EXCEPT ![c] = r]
          /\ UNCHANGED <<dbVars, proc, lastHash>>
          /\ ~MovingTip(c)
          /\ lh # NoHash
      BY <2>1 DEF AddBegin, dbVars, MovingTip, IInv, ProcessInv
    <3> HIDE DEF r
    <3>3. QED
      BY <3>1, <3>2, <1>t, QuietInv
  <2>2. CASE AddSeen(c)
    BY <2>2, <1>t, QuietInv, IdleType DEF AddSeen, dbVars, MovingTip
  <2>3. CASE AddClosure(c)
    BY <2>3, <1>t, ClosureInv
  <2>4. CASE AddCommit(c)
    BY <2>4, CommitInv
  <2>5. CASE IterBegin(c)
    <3> DEFINE r == [Idle EXCEPT !.pc = "walk", !.arg = lastHash]
    <3>1. r.pc = "walk"
      BY DEF Idle
    <3>2. QED
      BY <2>5, <3>1, <1>t, QuietInv DEF IterBegin, dbVars, MovingTip
  <2>6. CASE IterNext(c)
    <3>1. CASE conn[c].arg \notin stored
      BY <2>6, <3>1, PanicInv DEF IterNext, ExitCauses
    <3>2. CASE conn[c].arg \in stored
      <4> DEFINE parent == PrevHash[conn[c].arg]
                 r == IF parent = NoHash THEN Idle ELSE [conn[c] EXCEPT !.arg = parent]
      <4>1. r.pc \notin {"open", "commit"}
        BY <2>6, IdleType DEF IterNext, IInv, TypeOK, Goroutine
      <4>2. conn' = [conn EXCEPT ![c] = r] /\ UNCHANGED <<dbVars, proc, lastHash>>
        BY <2>6, <3>2 DEF IterNext, dbVars
      <4>3. ~MovingTip(c)
        BY <2>6 DEF IterNext, MovingTip
      <4> HIDE DEF r
      <4>4. QED
        BY <4>1, <4>2, <4>3, <1>t, QuietInv
    <3>3. QED
      BY <3>1, <3>2
  <2>7. CASE MineBlock(c)
    BY <2>7, PanicInv DEF MineBlock, ExitCauses
  <2>8. QED
    BY <1>5, <2>1, <2>2, <2>3, <2>4, <2>5, <2>6, <2>7 DEF Step
<1>6. CASE UNCHANGED vars
  BY <1>6 DEF vars, IInv, TypeOK, TipIsStored, TipIsHighest, ProcessInv, SnapshotInv,
     InTransaction, LastHashInv, LastHashAgrees, MovingTip
<1>7. QED
  BY <1>1, <1>2, <1>3, <1>4, <1>5, <1>6 DEF Next

\* In every reachable state the inductive invariant holds.
THEOREM Invariance == Spec => []IInv
BY InitInv, NextInv, PTL DEF Spec

--------------------------------------------------------------------------
(* What follows from it. *)

\* The Gets that AddBlock and GetBestHeight make of the block named by "lh"
\* (blockchain.go:150, 234) never miss.
THEOREM TipAlwaysStored == Spec => []TipIsStored
<1>1. IInv => TipIsStored
  BY DEF IInv
<1>2. QED
  BY <1>1, Invariance, PTL

\* The fork choice of AddBlock is right under any interleaving of transactions
\* and any crash: no block in the database is higher than the tip.
THEOREM TipAlwaysHighest == Spec => []TipIsHighest
<1>1. IInv => TipIsHighest
  BY DEF IInv
<1>2. QED
  BY <1>1, Invariance, PTL

\* chain.LastHash, which AddBlock sets inside the closure, is "lh" again as soon
\* as no AddBlock that moves the tip is between its closure and its commit.
THEOREM LastHashAlwaysAgrees == Spec => []LastHashAgrees
<1>1. IInv => LastHashAgrees
  BY DEF IInv
<1>2. QED
  BY <1>1, Invariance, PTL

\* AddBlock panics on ErrConflict only when its decision was really overtaken.
THEOREM ConflictAlwaysReal == Spec => []ConflictIsReal
<1>1. IInv => ConflictIsReal
  <2> SUFFICES ASSUME IInv, NEW c \in Conn, conn[c].pc = "commit"
               PROVE  Conflict(c) <=> (lh # conn[c].head \/ conn[c].arg \in stored)
    BY DEF ConflictIsReal
  <2>1. /\ conn[c].head \in conn[c].seen
        /\ conn[c].seen \subseteq stored
        /\ conn[c].stale \cap conn[c].seen = {}
        /\ conn[c].arg \in stored <=> conn[c].arg \in conn[c].seen \cup conn[c].stale
        /\ IF "lh" \in conn[c].stale THEN Raises(lh, conn[c].head) ELSE lh = conn[c].head
        /\ conn[c].arg \notin conn[c].seen
    BY DEF IInv, SnapshotInv, InTransaction
  <2>2. "lh" \in conn[c].stale <=> lh # conn[c].head
    <3>1. stored \subseteq Hash
      BY DEF IInv, TypeOK
    <3>2. Height[conn[c].head] \in Nat
      BY <2>1, <3>1, BlockAssumption
    <3>3. QED
      BY <2>1, <3>2 DEF Raises
  <2>3. QED
    BY <2>1, <2>2 DEF Conflict, Reads
<1>2. QED
  BY <1>1, Invariance, PTL

--------------------------------------------------------------------------
(* The refinement. *)

\* Every step of the store is one step of ChainSpec or leaves it as it is.
LEMMA StepRefines ==
    ASSUME IInv, [Next]_vars
    PROVE  [Promise!SpecNext]_<<stored, lh>>
<1>1. ASSUME NEW g \in Genesis, InitCommit(g) PROVE Promise!SpecNext
  <2>1. Promise!Create(g)
    BY <1>1 DEF InitCommit, IInv, ProcessInv, Promise!Create
  <2>2. QED
    BY <2>1 DEF Promise!SpecNext, Promise!Genesis, Genesis
<1>2. ASSUME NEW c \in Conn, AddCommit(c), ~Conflict(c) PROVE Promise!SpecNext
  <2>1. /\ conn[c].arg \in Hash
        /\ lh = conn[c].head
        /\ lh \in stored
        /\ conn[c].arg \notin stored
    BY <1>2, CommitIsCurrent DEF AddCommit
  <2>2. lh # NoHash
    BY <2>1, BlockAssumption DEF IInv, TypeOK
  <2>3. Promise!Add(conn[c].arg)
    BY <1>2, <2>1, <2>2 DEF AddCommit, Promise!Add, Promise!Raises, Raises
  <2>4. QED
    BY <2>1, <2>3 DEF Promise!SpecNext
<1>3. ASSUME NEW c \in Conn, Step(c), ~(AddCommit(c) /\ ~Conflict(c))
      PROVE  UNCHANGED <<stored, lh>>
  BY <1>3 DEF Step, AddBegin, AddSeen, AddClosure, AddCommit, IterBegin, IterNext,
     MineBlock, Panic, dbVars
<1>4. CASE InitOpen \/ ContinueBlockChain \/ Kill
  BY <1>4 DEF InitOpen, ContinueBlockChain, Kill, Panic, dbVars
<1>5. CASE UNCHANGED vars
  BY <1>5 DEF vars
<1>6. QED
  BY <1>1, <1>2, <1>3, <1>4, <1>5 DEF Next

\* A database written by concurrent AddBlock transactions of a process that may
\* die at any point is one that atomic AddBlocks would have written.
THEOREM Refinement == Spec => ImplementsChainSpec
<1>1. Init => Promise!SpecInit
  BY DEF Init, Promise!SpecInit
<1>2. IInv /\ [Next]_vars => [Promise!SpecNext]_<<stored, lh>>
  BY StepRefines
<1>3. QED
  BY <1>1, <1>2, Invariance, PTL DEF Spec, ImplementsChainSpec, Promise!Spec, Promise!specVars

\* "lh" moves only to strictly higher blocks, and no block is ever lost.
THEOREM TipRises == Spec => TipOnlyRises
<1>1. ASSUME IInv, [Next]_vars
      PROVE  [/\ stored \subseteq stored'
              /\ (lh' # lh /\ lh # NoHash) => Raises(lh', lh)]_vars
  <2>1. [Promise!SpecNext]_<<stored, lh>>
    BY <1>1, StepRefines
  <2>2. CASE UNCHANGED <<stored, lh>>
    BY <2>2
  <2>3. ASSUME NEW g \in Promise!Genesis, Promise!Create(g)
        PROVE  lh = NoHash /\ stored \subseteq stored'
    BY <1>1, <2>3 DEF Promise!Create, IInv, TipIsStored
  <2>4. ASSUME NEW b \in Hash, Promise!Add(b)
        PROVE  /\ stored \subseteq stored'
               /\ lh' # lh => Raises(lh', lh)
    BY <2>4 DEF Promise!Add, Promise!Raises, Raises
  <2>5. QED
    BY <2>1, <2>2, <2>3, <2>4 DEF Promise!SpecNext
<1>2. QED
  BY <1>1, Invariance, PTL DEF Spec, TipOnlyRises
==========================================================================
