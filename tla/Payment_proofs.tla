-------------------------- MODULE Payment_proofs --------------------------
(***************************************************************************)
(* What a miner makes of a signed transaction, for any transaction, any    *)
(* keys and any numbers that ecdsa.Sign can return; that send signs its    *)
(* transactions so, whatever it finds in the database; and that the index  *)
(* is what UtxoSet promises also with these commands on the database.      *)
(***************************************************************************)
EXTENDS Payment, UtxoSet_proofs, WellFoundedInduction

--------------------------------------------------------------------------
(* Two numbers that are joined can be told apart again exactly if they have *)
(* the same number of bytes or the second has one byte more.               *)

\* Some number of leading bytes is the number of leading zeros: the first
\* position of a byte that is not zero, if there is one.
LEMMA LeadingZerosExist ==
    ASSUME NEW b \in Seq(Byte)
    PROVE  \E k \in 0..Len(b) : LeadingZeros(b, k)
<1>. DEFINE Z == {i \in 1..Len(b) : b[i] # 0}
<1>1. Len(b) \in Nat
  OBVIOUS
<1>2. CASE Z = {}
  <2>1. LeadingZeros(b, Len(b))
    BY <1>1, <1>2 DEF LeadingZeros
  <2>. QED
    BY <1>1, <2>1
<1>3. CASE Z # {}
  <2>. DEFINE S == 1..Len(b)
              T == {1..i : i \in Z}
  <2>1. Z \subseteq S /\ T # {} /\ T \subseteq SUBSET S /\ IsFiniteSet(S)
    <3>1. IsFiniteSet(S)
      BY <1>1, FS_Interval
    <3>. QED
      BY <1>1, <1>3, <3>1
  <2>2. PICK i \in Z : \A j \in Z : i <= j
    <3>1. PICK t \in T : \A u \in T : ~(<<u, t>> \in StrictSubsetOrdering(S))
      <4>. HIDE DEF S, T
      <4>. QED
        BY <2>1, FS_StrictSubsetOrderingWellFounded, FS_FiniteSubsetsOfFinite, WFMin
    <3>2. PICK i \in Z : t = 1..i
      OBVIOUS
    <3>3. ASSUME NEW j \in Z, j < i PROVE FALSE
      <4>1. /\ 1..j \in T /\ 1..j \subseteq 1..i
            /\ i \in 1..i /\ i \notin 1..j
        BY <1>1, <3>3
      <4>2. <<1..j, 1..i>> \in StrictSubsetOrdering(S)
        BY <1>1, <2>1, <4>1 DEF StrictSubsetOrdering
      <4>. QED
        BY <3>1, <3>2, <4>1, <4>2
    <3>. QED
      BY <1>1, <3>3
  <2>3. i - 1 \in 0..Len(b)
    BY <1>1
  <2>4. LeadingZeros(b, i - 1)
    <3>1. \A j \in 1..(i - 1) : b[j] = 0
      BY <1>1, <2>2
    <3>2. b[(i - 1) + 1] # 0
      OBVIOUS
    <3>. QED
      BY <3>1, <3>2 DEF LeadingZeros
  <2>. QED
    BY <2>3, <2>4
<1>. QED
  BY <1>2, <1>3

\* SetBytes cuts off a number of leading bytes that are zeros.
LEMMA SetBytesCuts ==
    ASSUME NEW b \in Seq(Byte)
    PROVE  \E k \in 0..Len(b) : LeadingZeros(b, k) /\ SetBytes(b) = SubSeq(b, k + 1, Len(b))
BY LeadingZerosExist DEF SetBytes

\* SetBytes makes nothing longer.
LEMMA SetBytesShortens ==
    ASSUME NEW b \in Seq(Byte)
    PROVE  SetBytes(b) \in Seq(Byte) /\ Len(SetBytes(b)) <= Len(b)
<1>1. PICK k \in 0..Len(b) : SetBytes(b) = SubSeq(b, k + 1, Len(b))
  BY SetBytesCuts
<1>2. /\ Len(b) \in Nat
      /\ k \in Nat /\ k <= Len(b)
  OBVIOUS
<1>3. \A i \in (k + 1)..Len(b) : b[i] \in Byte
  BY <1>2, ElementOfSeq
<1>. QED
  BY <1>1, <1>2, <1>3, SubSeqProperties

\* A number is what it is after SetBytes.
LEMMA SetBytesOfNumber ==
    ASSUME NEW b \in Number
    PROVE  SetBytes(b) = b
<1>1. b \in Seq(Byte) /\ Len(b) \in Nat
  BY DEF Number
<1>2. PICK k \in 0..Len(b) :
             LeadingZeros(b, k) /\ SetBytes(b) = SubSeq(b, k + 1, Len(b))
  BY <1>1, SetBytesCuts
<1>3. k = 0
  <2>1. SUFFICES ASSUME k # 0 PROVE FALSE
    OBVIOUS
  <2>2. 1 \in 1..k /\ Len(b) # 0
    BY <1>1, <2>1
  <2>3. b[1] = 0
    BY <1>2, <2>2 DEF LeadingZeros
  <2>4. b # <<>>
    BY <1>1, <2>2, EmptySeq
  <2>. QED
    BY <2>3, <2>4 DEF Number
<1>4. SubSeq(b, 1, Len(b)) = b
  BY <1>1, SubSeqFull
<1>. QED
  BY <1>2, <1>3, <1>4

\* The halves of two joined numbers, if the middle is where they meet.
LEMMA CutWhereTheyMeet ==
    ASSUME NEW r \in Seq(Byte), NEW s \in Seq(Byte)
    PROVE  /\ SubSeq(r \o s, 1, Len(r)) = r
           /\ SubSeq(r \o s, Len(r) + 1, Len(r \o s)) = s
BY ConcatProperties, SubSeqProperties, SeqEqual

\* Verify reads the numbers out of a signature that Sign has put in, and the
\* coordinates of a key that NewKeyPair has, exactly if they fit: if one is
\* shorter for want of leading zeros, it is the first, and by one byte.
THEOREM HalvesOfJoin ==
    ASSUME NEW r \in Number, NEW s \in Number
    PROVE  Halves(Join(r, s)) = <<r, s>> <=> Fits(r, s)
<1>. DEFINE b == r \o s
            half == Len(b) \div 2
            first == SubSeq(b, 1, half)
            second == SubSeq(b, half + 1, Len(b))
<1>1. /\ r \in Seq(Byte) /\ s \in Seq(Byte) /\ b \in Seq(Byte)
      /\ Len(r) \in Nat /\ Len(s) \in Nat
      /\ Len(b) = Len(r) + Len(s)
  BY ConcatProperties DEF Number
<1>2. half \in Nat /\ half <= Len(b) /\ (half = Len(r) <=> Fits(r, s))
  BY <1>1 DEF Fits
<1>3. Halves(Join(r, s)) = <<SetBytes(first), SetBytes(second)>>
  BY DEF Halves, Join
<1>4. ASSUME half = Len(r) PROVE SetBytes(first) = r /\ SetBytes(second) = s
  <2>1. first = r /\ second = s
    BY <1>1, <1>4, CutWhereTheyMeet
  <2>. QED
    BY <2>1, SetBytesOfNumber
<1>5. /\ first \in Seq(Byte) /\ Len(first) = half
      /\ second \in Seq(Byte) /\ Len(second) = Len(b) - half
  <2>1. \A i \in 1..Len(b) : b[i] \in Byte
    BY <1>1, ElementOfSeq
  <2>. HIDE DEF b
  <2>2. first \in Seq(Byte) /\ Len(first) = half
    BY <1>1, <1>2, <2>1, SubSeqProperties
  <2>3. second \in Seq(Byte) /\ Len(second) = Len(b) - half
    <3>1. /\ half + 1 \in Int /\ Len(b) \in Int
          /\ \A i \in (half + 1)..Len(b) : b[i] \in Byte
      BY <1>1, <1>2, <2>1
    <3>. HIDE DEF half
    <3>2. /\ second \in Seq(Byte)
          /\ Len(second) = IF half + 1 <= Len(b) THEN Len(b) - (half + 1) + 1 ELSE 0
      BY <3>1, SubSeqProperties
    <3>. QED
      BY <1>1, <1>2, <3>2
  <2>. QED
    BY <2>2, <2>3
<1>6. ASSUME SetBytes(first) = r, SetBytes(second) = s PROVE half = Len(r)
  <2>1. Len(SetBytes(first)) <= Len(first) /\ Len(SetBytes(second)) <= Len(second)
    BY <1>5, SetBytesShortens
  <2>2. Len(r) <= half /\ Len(s) <= Len(b) - half
    BY <1>5, <1>6, <2>1
  <2>. QED
    BY <1>1, <1>2, <2>2
<1>. QED
  BY <1>2, <1>3, <1>4, <1>6

--------------------------------------------------------------------------
(* Signatures. *)

\* Sign and Verify, which build the trimmed copy each for itself, agree on it.
LEMMA SameDigest ==
    ASSUME NEW tx, NEW i
    PROVE  SignDigest(tx, i) = VerifyDigest(tx, i)
BY DEF SignDigest, VerifyDigest

\* Of a signature that Sign has made, Verify checks nothing but whether the
\* numbers of the signature and of the public key can be told apart again.
LEMMA OneInput ==
    ASSUME NEW owner \in Owner, NEW tx, NEW i,
           tx.key = PubKey(owner),
           tx.sigs[i] \in Signatures(owner, SignDigest(tx, i))
    PROVE  EcdsaVerify(Halves(tx.key), VerifyDigest(tx, i),
                       Halves(tx.sigs[i].bytes), tx.sigs[i])
             <=> /\ Fits(Key[owner][1], Key[owner][2])
                 /\ Fits(tx.sigs[i].pair[1], tx.sigs[i].pair[2])
<1>. DEFINE x == Key[owner][1]
            y == Key[owner][2]
            digest == SignDigest(tx, i)
            sig == tx.sigs[i]
<1>1. x \in Number /\ y \in Number /\ Key[owner] = <<x, y>>
  BY PaymentAssumption
<1>2. PICK r \in Scalar, s \in Scalar :
             sig = [bytes |-> Join(r, s), pair |-> <<r, s>>, by |-> Key[owner], of |-> digest]
  <2>. HIDE DEF digest
  <2>. QED
    BY DEF Signatures, digest
<1>3. r \in Number /\ s \in Number
  BY PaymentAssumption
<1>4. Halves(tx.key) = sig.by <=> Fits(x, y)
  <2>1. Halves(tx.key) = Halves(Join(x, y))
    BY DEF PubKey
  <2>2. sig.by = <<x, y>>
    BY <1>1, <1>2
  <2>. QED
    BY <1>1, <2>1, <2>2, HalvesOfJoin
<1>5. Halves(sig.bytes) = sig.pair <=> Fits(r, s)
  <2>1. sig.bytes = Join(r, s) /\ sig.pair = <<r, s>>
    BY <1>2
  <2>. QED
    BY <1>3, <2>1, HalvesOfJoin
<1>6. VerifyDigest(tx, i) = sig.of
  BY <1>2, SameDigest
<1>7. sig.pair[1] = r /\ sig.pair[2] = s
  BY <1>2
<1>. QED
  BY <1>4, <1>5, <1>6, <1>7 DEF EcdsaVerify

\* A transaction whose inputs the sender has signed is accepted exactly if all
\* pairs in it fit: r and s of every signature, and the coordinates of the key.
THEOREM VerifyIffItFits ==
    ASSUME NEW owner \in Owner, NEW tx,
           DOMAIN tx.ins # {},
           tx.key = PubKey(owner),
           \A i \in DOMAIN tx.ins : tx.sigs[i] \in Signatures(owner, SignDigest(tx, i))
    PROVE  Verify(tx) <=> /\ Fits(Key[owner][1], Key[owner][2])
                          /\ \A i \in DOMAIN tx.ins :
                                Fits(tx.sigs[i].pair[1], tx.sigs[i].pair[2])
<1>1. \A i \in DOMAIN tx.ins :
          EcdsaVerify(Halves(tx.key), VerifyDigest(tx, i),
                      Halves(tx.sigs[i].bytes), tx.sigs[i])
            <=> /\ Fits(Key[owner][1], Key[owner][2])
                /\ Fits(tx.sigs[i].pair[1], tx.sigs[i].pair[2])
  BY OneInput
<1>. QED
  BY <1>1 DEF Verify

--------------------------------------------------------------------------
(***************************************************************************)
(* The inductive invariant of VerifiesIfItFits: what a payment is while it *)
(* is signed.  All else about the database and the index may change.       *)
(***************************************************************************)
Shape ==
    /\ cmd = [pc |-> cmd.pc, order |-> cmd.order, left |-> cmd.left, acc |-> cmd.acc,
              taken |-> cmd.taken, tx |-> cmd.tx]
    /\ cmd.tx = [ins |-> cmd.tx.ins, key |-> cmd.tx.key, sigs |-> cmd.tx.sigs,
                 outs |-> cmd.tx.outs]

Ordered == cmd.pc # "off" => cmd.order \in Orders

SignedByOwner ==
    cmd.pc = "sign" =>
        /\ cmd.tx.key = PubKey(cmd.order.from)
        /\ \E S : cmd.tx.sigs \in Seq(S)
        /\ \A i \in DOMAIN cmd.tx.sigs :
              cmd.tx.sigs[i] \in Signatures(cmd.order.from, SignDigest(cmd.tx, i))

PayInv == Shape /\ Ordered /\ SignedByOwner


LEMMA PayInvOfNoCmd ==
    ASSUME cmd = NoCmd
    PROVE  PayInv
BY DEF PayInv, Shape, Ordered, SignedByOwner, NoCmd, NoTx

LEMMA PayInvSend ==
    ASSUME PayInv, NEW order \in Orders, Send(order)
    PROVE  PayInv'
BY DEF PayInv, Shape, Ordered, SignedByOwner, Send, NoCmd, NoTx

LEMMA PayInvFindEntry ==
    ASSUME PayInv, NEW tx, FindEntry(tx)
    PROVE  PayInv'
<1>1. PICK found :
          cmd' = [cmd EXCEPT !.left = @ \ {tx}, !.acc = found.acc, !.taken = found.taken]
  BY DEF FindEntry
<1>2. cmd.pc = "find"
  BY DEF FindEntry
<1>. QED
  BY <1>1, <1>2 DEF PayInv, Shape, Ordered, SignedByOwner

LEMMA PayInvBuild ==
    ASSUME PayInv, Build
    PROVE  PayInv'
<1>1. PICK ins :
          cmd' = [cmd EXCEPT !.pc = "sign", !.taken = <<>>,
                    !.tx = [ins  |-> ins,
                            key  |-> PubKey(cmd.order.from),
                            sigs |-> <<>>,
                            outs |-> Outputs(cmd.order, cmd.acc)]]
  BY DEF Build
<1>2. cmd.pc = "find"
  BY DEF Build
<1>3. /\ cmd'.pc = "sign" /\ cmd'.order = cmd.order /\ cmd'.tx.sigs = <<>>
      /\ cmd'.tx.key = PubKey(cmd.order.from)
  BY <1>1 DEF PayInv, Shape
<1>4. Shape'
  BY <1>1 DEF PayInv, Shape
<1>5. SignedByOwner'
  <2>1. cmd'.tx.sigs \in Seq({})
    BY <1>3
  <2>. QED
    BY <1>3, <2>1 DEF SignedByOwner, PubKey
<1>. QED
  BY <1>2, <1>3, <1>4, <1>5 DEF PayInv, Ordered

LEMMA PayInvSign ==
    ASSUME PayInv, Sign
    PROVE  PayInv'
<1>. DEFINE i == Len(cmd.tx.sigs) + 1
            owner == cmd.order.from
<1>1. PICK sig \in Signatures(owner, SignDigest(cmd.tx, i)) :
          cmd' = [cmd EXCEPT !.tx.sigs = Append(@, sig)]
  BY DEF Sign
<1>2. cmd.pc = "sign"
  BY DEF Sign
<1>3. /\ cmd'.pc = cmd.pc /\ cmd'.order = cmd.order
      /\ cmd'.tx.ins = cmd.tx.ins /\ cmd'.tx.outs = cmd.tx.outs
      /\ cmd'.tx.key = cmd.tx.key
      /\ cmd'.tx.sigs = Append(cmd.tx.sigs, sig)
  BY <1>1 DEF PayInv, Shape
<1>4. Shape'
  BY <1>1 DEF PayInv, Shape
<1>5. PICK S : cmd.tx.sigs \in Seq(S)
  BY <1>2 DEF PayInv, SignedByOwner
<1>6. \A k : SignDigest(cmd.tx, k)' = SignDigest(cmd.tx, k)
  BY <1>3 DEF SignDigest
<1>7. cmd'.tx.sigs \in Seq(S \cup {sig})
  BY <1>3, <1>5
<1>8. \A k \in DOMAIN cmd'.tx.sigs :
          cmd'.tx.sigs[k] \in Signatures(owner, SignDigest(cmd.tx, k))
  <2>. SUFFICES ASSUME NEW k \in DOMAIN cmd'.tx.sigs
                PROVE  cmd'.tx.sigs[k] \in Signatures(owner, SignDigest(cmd.tx, k))
    OBVIOUS
  <2>1. CASE k = i
    <3>1. cmd'.tx.sigs[k] = sig
      BY <1>3, <1>5, <2>1
    <3>. QED
      BY <2>1, <3>1
  <2>2. CASE k # i
    <3>1. k \in DOMAIN cmd.tx.sigs /\ cmd'.tx.sigs[k] = cmd.tx.sigs[k]
      BY <1>3, <1>5, <2>2
    <3>. QED
      BY <1>2, <3>1 DEF PayInv, SignedByOwner
  <2>. QED
    BY <2>1, <2>2
<1>9. \A k : Signatures(owner, SignDigest(cmd.tx, k))
             = Signatures(cmd'.order.from, SignDigest(cmd.tx, k)')
  BY <1>3, <1>6
<1>10. SignedByOwner'
  BY <1>2, <1>3, <1>7, <1>8, <1>9 DEF SignedByOwner, PayInv, PubKey, Signatures
<1>. QED
  BY <1>3, <1>4, <1>10 DEF PayInv, Ordered

\* Whatever a payment is made from, and whatever crashes and Reindexes are about:
\* while it is signed, its signatures are the sender's over its own digests.
THEOREM PayInvariance == PaySpec => []PayInv
<1>1. PayInit => PayInv
  BY PayInvOfNoCmd DEF PayInit
<1>2. PayInv /\ [PayNext]_payVars => PayInv'
  <2>. SUFFICES ASSUME PayInv, [PayNext]_payVars
                PROVE  PayInv'
    OBVIOUS
  <2>1. ASSUME cmd' = NoCmd PROVE PayInv'
    BY <2>1 DEF PayInv, Shape, Ordered, SignedByOwner, NoCmd, NoTx
  <2>2. ASSUME cmd' = cmd PROVE PayInv'
    BY <2>2 DEF PayInv, Shape, Ordered, SignedByOwner
  <2>3. CASE SendStep
    <3>1. CASE \E order \in Orders : Send(order)
      BY <3>1, PayInvSend
    <3>2. CASE \E tx \in cmd.left : FindEntry(tx)
      BY <3>2, PayInvFindEntry
    <3>3. CASE NotEnoughFunds \/ SignPanics \/ Submit
      BY <2>1, <3>3 DEF NotEnoughFunds, SignPanics, Submit, Exit
    <3>4. CASE Build
      BY <3>4, PayInvBuild
    <3>5. CASE Sign
      BY <3>5, PayInvSign
    <3>. QED
      BY <2>3, <3>1, <3>2, <3>3, <3>4, <3>5 DEF SendStep
  <2>4. CASE PayKill
    BY <2>1, <2>4 DEF PayKill
  <2>5. CASE UNCHANGED cmd
    BY <2>2, <2>5
  <2>. QED
    BY <2>3, <2>4, <2>5 DEF PayNext, payVars
<1>. QED
  BY <1>1, <1>2, PTL DEF PaySpec

\* A miner accepts a transaction of send exactly if the numbers in it can be told
\* apart again, for any chains, orders, keys and numbers.
THEOREM AlwaysVerifiesIfItFits == PaySpec => []VerifiesIfItFits
<1>1. PayInv => VerifiesIfItFits
  <2>. SUFFICES ASSUME PayInv, Signed
                PROVE  Verify(cmd.tx) <=>
                         \A i \in DOMAIN cmd.tx.sigs :
                             /\ Fits(Key[cmd.order.from][1], Key[cmd.order.from][2])
                             /\ Fits(cmd.tx.sigs[i].pair[1], cmd.tx.sigs[i].pair[2])
    BY DEF VerifiesIfItFits
  <2>. DEFINE owner == cmd.order.from
  <2>1. /\ cmd.tx.key = PubKey(owner)
        /\ DOMAIN cmd.tx.sigs = DOMAIN cmd.tx.ins
        /\ \A i \in DOMAIN cmd.tx.sigs :
              cmd.tx.sigs[i] \in Signatures(owner, SignDigest(cmd.tx, i))
    BY DEF PayInv, SignedByOwner, Signed
  <2>2. owner \in Owner
    BY PaymentAssumption DEF PayInv, Ordered, Signed
  <2>3. \A i \in DOMAIN cmd.tx.ins :
            EcdsaVerify(Halves(cmd.tx.key), VerifyDigest(cmd.tx, i),
                        Halves(cmd.tx.sigs[i].bytes), cmd.tx.sigs[i])
              <=> /\ Fits(Key[owner][1], Key[owner][2])
                  /\ Fits(cmd.tx.sigs[i].pair[1], cmd.tx.sigs[i].pair[2])
    BY <2>1, <2>2, OneInput
  <2>. QED
    BY <2>1, <2>3 DEF Verify
<1>. QED
  BY <1>1, PayInvariance, PTL

--------------------------------------------------------------------------
(***************************************************************************)
(* The index under the commands.  send runs between two processes of the   *)
(* node and writes nothing, so what UtxoSet says of the index stays true.  *)
(***************************************************************************)

\* send has the database for itself.
SendIsAlone == cmd.pc # "off" => proc = "send"

IndexInv == UtxoInv /\ SendIsAlone

\* While send runs, no step of a node or of a Reindex can.
LEMMA NodeIsDown ==
    ASSUME IndexInv, cmd.pc # "off", NodeStep
    PROVE  FALSE
<1>1. proc = "send" /\ Quiet
  BY DEF IndexInv, SendIsAlone, UtxoInv, CommandsAreAlone
<1>. QED
  BY <1>1 DEF NodeStep, StartNode, Step, AddBlock, Collect, Delete, Find, FindPanics,
              Write, ReindexCommand, Quiet

LEMMA IndexInvSend ==
    ASSUME IndexInv, PayInv, SendStep
    PROVE  IndexInv'
<1>1. ASSUME Exit, cmd.pc # "off" PROVE IndexInv'
  <2>1. proc = "send" /\ proc' = "down" /\ UNCHANGED <<blocks, stored, tip, index, conn, trust, walked>>
    BY <1>1 DEF IndexInv, SendIsAlone, Exit
  <2>2. UtxoInv'
    BY <2>1, UtxoInvProcess DEF IndexInv
  <2>3. cmd'.pc = "off"
    BY <1>1 DEF Exit, NoCmd
  <2>. QED
    BY <2>2, <2>3 DEF IndexInv, SendIsAlone
<1>2. ASSUME UNCHANGED vars, cmd.pc # "off" PROVE IndexInv'
  <2>1. UtxoInv'
    BY <1>2, UtxoInvProcess DEF vars, IndexInv
  <2>. QED
    BY <1>2, <2>1 DEF vars, IndexInv, SendIsAlone
<1>3. CASE \E order \in Orders : Send(order)
  <2>1. proc = "down" /\ proc' = "send" /\ UNCHANGED <<blocks, stored, tip, index, conn, trust, walked>>
    BY <1>3 DEF Send
  <2>2. UtxoInv'
    BY <2>1, UtxoInvProcess DEF IndexInv
  <2>. QED
    BY <2>1, <2>2 DEF IndexInv, SendIsAlone
<1>4. CASE \E tx \in cmd.left : FindEntry(tx)
  BY <1>2, <1>4 DEF FindEntry
<1>5. CASE NotEnoughFunds \/ SignPanics \/ Submit
  BY <1>1, <1>5 DEF NotEnoughFunds, SignPanics, Submit, Signed
<1>6. CASE Build
  <2>1. UNCHANGED vars /\ cmd.pc = "find"
    BY <1>6 DEF Build
  <2>. QED
    BY <1>2, <2>1
<1>7. CASE Sign
  <2>1. UNCHANGED vars /\ cmd.pc = "sign"
    BY <1>7 DEF Sign
  <2>. QED
    BY <1>2, <2>1
<1>. QED
  BY <1>3, <1>4, <1>5, <1>6, <1>7 DEF SendStep

LEMMA IndexInvariance == PaySpec => []IndexInv
<1>1. PayInit => IndexInv
  <2>1. ASSUME cmd = NoCmd PROVE cmd.pc = "off"
    BY <2>1 DEF NoCmd
  <2>2. PayInit => UtxoInv
    BY UtxoInvInit DEF PayInit
  <2>. QED
    BY <2>1, <2>2 DEF PayInit, IndexInv, SendIsAlone
<1>2. IndexInv /\ PayInv /\ [PayNext]_payVars => IndexInv'
  <2>. SUFFICES ASSUME IndexInv, PayInv, [PayNext]_payVars
                PROVE  IndexInv'
    OBVIOUS
  <2>1. CASE SendStep
    BY <2>1, IndexInvSend
  <2>2. CASE PayKill
    <3>1. UtxoInv' /\ cmd' = NoCmd
      BY <2>2, UtxoInvEnds DEF PayKill, Kill, IndexInv
    <3>. QED
      BY <3>1 DEF IndexInv, SendIsAlone, NoCmd
  <2>3. CASE NodeStep /\ UNCHANGED cmd
    <3>1. cmd.pc = "off"
      BY <2>3, NodeIsDown
    <3>2. UtxoInv'
      BY <2>3, UtxoInvNext DEF NodeStep, Next, IndexInv
    <3>. QED
      BY <2>3, <3>1, <3>2 DEF IndexInv, SendIsAlone
  <2>4. CASE UNCHANGED payVars
    <3>1. UtxoInv'
      BY <2>4, UtxoInvNext DEF payVars, IndexInv
    <3>. QED
      BY <2>4, <3>1 DEF IndexInv, SendIsAlone, payVars, vars
  <2>. QED
    BY <2>1, <2>2, <2>3, <2>4 DEF PayNext
<1>. QED
  BY <1>1, <1>2, PayInvariance, PTL DEF PaySpec

\* Also with commands that come, panic and are killed on the database of any
\* chains: an index that a Reindex had for itself holds exactly what is unspent, ...
THEOREM ExactForPayments == PaySpec => []IndexIsExact
BY IndexInvariance, IndexIsExactOfInv, PTL DEF IndexInv

\* ... Reindexes that overlapped miss nothing that is unspent, ...
THEOREM NothingMissingForPayments == PaySpec => []NothingUnspentIsMissing
BY IndexInvariance, NothingUnspentIsMissingOfInv, PTL DEF IndexInv

\* ... and a Reindex that is alone, also if it dies, shows send and getbalance the
\* index of one tip.
THEOREM NeverMixedForPayments == PaySpec => []NeverAMixture
BY IndexInvariance, NeverAMixtureOfInv, PTL DEF IndexInv

\* ... and Update, where it may be used, makes the same of it as Reindex would.
THEOREM UpdateForPayments == PaySpec => []UpdateIsReindex
BY IndexInvariance, UpdateIsReindexOfInv, PTL DEF IndexInv

--------------------------------------------------------------------------
(* Sums of outputs. *)

Valued(O) == \A o \in O : o.value \in Int

\* The sum after each output.
Summing(sum, outs) ==
    /\ sum \in [0..Len(outs) -> Int]
    /\ sum[0] = 0
    /\ \A i \in 1..Len(outs) : sum[i] = sum[i - 1] + outs[i].value
    /\ Values(outs) = sum[Len(outs)]

LEMMA ValuesLoop ==
    ASSUME NEW O, Valued(O), NEW outs \in Seq(O)
    PROVE  \E sum : Summing(sum, outs)
<1>1. PICK n \in Nat : n = Len(outs) /\ \A i \in 1..n : outs[i].value \in Int
  <2>1. \A i \in 1..Len(outs) : outs[i] \in O
    OBVIOUS
  <2>. QED
    BY <2>1 DEF Valued
<1>. DEFINE Pass(s, i) == IF i \in 1..n THEN s + outs[i].value ELSE s
<1>2. PICK g \in [Int \X Nat -> Int] : \A s \in Int, i \in Nat : g[<<s, i>>] = Pass(s, i)
  <2>1. \A s \in Int, i \in Nat : Pass(s, i) \in Int
    BY <1>1
  <2>. DEFINE h == [p \in Int \X Nat |-> Pass(p[1], p[2])]
  <2>2. h \in [Int \X Nat -> Int] /\ \A s \in Int, i \in Nat : h[<<s, i>>] = Pass(s, i)
    <3>. HIDE DEF Pass
    <3>. QED
      BY <2>1
  <2>. QED
    BY <2>2
<1>3. PICK r : IsRun(r, n, Int, 0, g)
  <2>. DEFINE A == Int
              e == 0
  <2>1. e \in A /\ g \in [A \X Nat -> A]
    OBVIOUS
  <2>. HIDE DEF A, e
  <2>2. \E r : IsRun(r, n, A, e, g)
    BY <2>1, Iteration
  <2>. QED
    BY <2>2 DEF A, e
<1>4. /\ r \in [0..n -> Int]
      /\ r[0] = 0 /\ \A i \in 1..n : r[i] = g[<<r[i - 1], i>>]
  BY <1>3 DEF IsRun
<1>. DEFINE Steps(h) == [i \in 0..n |-> IF i = 0 THEN 0 ELSE h[i - 1] + outs[i].value]
            sum == CHOOSE h : h = Steps(h)
<1>5. r = Steps(r)
  <2>1. ASSUME NEW i \in 0..n, i # 0 PROVE r[i] = r[i - 1] + outs[i].value
    <3>1. i \in 1..n /\ i \in Nat /\ i - 1 \in 0..n
      BY <1>1, <2>1
    <3>2. r[i] = Pass(r[i - 1], i)
      <4>1. r[i - 1] \in Int
        BY <1>4, <3>1
      <4>. HIDE DEF Pass
      <4>. QED
        BY <1>2, <1>4, <3>1, <4>1
    <3>. QED
      BY <3>1, <3>2
  <2>2. \A i \in 0..n : r[i] = IF i = 0 THEN 0 ELSE r[i - 1] + outs[i].value
    BY <1>4, <2>1
  <2>3. r = [i \in 0..n |-> r[i]]
    BY <1>4
  <2>. HIDE DEF Pass
  <2>. QED
    BY <2>2, <2>3
<1>6. sum = Steps(sum)
  <2>. HIDE DEF Steps
  <2>. QED
    BY <1>5
<1>7. Values(outs) = sum[n]
  BY <1>1 DEF Values
<1>. HIDE DEF sum
<1>8. /\ sum[0] = 0
      /\ \A i \in 1..n : sum[i] = sum[i - 1] + outs[i].value
      /\ sum = [i \in 0..n |-> sum[i]]
  <2>1. 0 \in 0..n /\ \A i \in 1..n : i \in 0..n /\ i # 0
    BY <1>1
  <2>. QED
    BY <1>6, <2>1
<1>. DEFINE T == {i \in 0..n : sum[i] \in Int}
<1>9. 0..n \subseteq T
  <2>1. 0 \in T
    BY <1>1, <1>8
  <2>2. ASSUME NEW i \in 0..(n - 1), i \in T PROVE i + 1 \in T
    <3>1. i + 1 \in 1..n /\ (i + 1) - 1 = i /\ i + 1 \in 0..n
      BY <1>1
    <3>2. sum[i + 1] = sum[i] + outs[i + 1].value
      BY <1>8, <3>1
    <3>. QED
      BY <1>1, <2>2, <3>1, <3>2
  <2>. HIDE DEF T
  <2>. QED
    BY <1>1, <2>1, <2>2, InductionUpTo
<1>10. sum \in [0..n -> Int]
  BY <1>8, <1>9
<1>. HIDE DEF Steps, Pass
<1>. QED
  BY <1>1, <1>7, <1>8, <1>10 DEF Summing

\* One output more, and its value is added.
LEMMA ValuesAppend ==
    ASSUME NEW O, Valued(O), NEW outs \in Seq(O), NEW o \in O
    PROVE  /\ Values(outs) \in Int
           /\ Values(Append(outs, o)) = Values(outs) + o.value
<1>1. PICK n \in Nat : n = Len(outs)
  OBVIOUS
<1>2. PICK more \in Seq(O) : /\ more = Append(outs, o) /\ Len(more) = n + 1
                             /\ more[n + 1] = o /\ \A i \in 1..n : more[i] = outs[i]
  <2>. DEFINE m == Append(outs, o)
  <2>1. m \in Seq(O) /\ Len(m) = n + 1 /\ m[n + 1] = o /\ \A i \in 1..n : m[i] = outs[i]
    BY <1>1
  <2>. QED
    BY <2>1
<1>3. PICK sum : Summing(sum, outs)
  BY ValuesLoop
<1>4. PICK sum2 : Summing(sum2, more)
  BY ValuesLoop
<1>5. /\ sum \in [0..n -> Int] /\ sum[0] = 0 /\ Values(outs) = sum[n]
      /\ \A i \in 1..n : sum[i] = sum[i - 1] + outs[i].value
  BY <1>1, <1>3 DEF Summing
<1>6. /\ sum2[0] = 0 /\ Values(more) = sum2[n + 1]
      /\ \A i \in 1..(n + 1) : sum2[i] = sum2[i - 1] + more[i].value
  BY <1>2, <1>4 DEF Summing
<1>. DEFINE T == {i \in 0..n : sum2[i] = sum[i]}
<1>7. 0..n \subseteq T
  <2>1. 0 \in T
    BY <1>1, <1>5, <1>6
  <2>2. ASSUME NEW i \in 0..(n - 1), i \in T PROVE i + 1 \in T
    <3>1. i + 1 \in 1..n /\ (i + 1) - 1 = i /\ i + 1 \in 0..n /\ i + 1 \in 1..(n + 1)
      BY <1>1
    <3>2. more[i + 1] = outs[i + 1]
      BY <1>2, <3>1
    <3>. QED
      BY <1>5, <1>6, <2>2, <3>1, <3>2
  <2>. HIDE DEF T
  <2>. QED
    BY <1>1, <2>1, <2>2, InductionUpTo
<1>8. n \in 0..n /\ n + 1 \in 1..(n + 1) /\ (n + 1) - 1 = n
  BY <1>1
<1>9. sum2[n + 1] = sum2[n] + o.value
  <2>1. sum2[n + 1] = sum2[n] + more[n + 1].value
    BY <1>6, <1>8
  <2>. QED
    BY <1>2, <2>1
<1>10. sum2[n] = sum[n]
  BY <1>7, <1>8
<1>. QED
  BY <1>2, <1>5, <1>6, <1>8, <1>9, <1>10

LEMMA ValuesEmpty == Values(<<>>) = 0
<1>1. PICK none \in Seq({}) : none = <<>> /\ Len(none) = 0
  <2>1. <<>> \in Seq({}) /\ Len(<<>>) = 0
    OBVIOUS
  <2>. QED
    BY <2>1
<1>2. PICK sum : Summing(sum, none)
  <2>1. Valued({})
    BY DEF Valued
  <2>. QED
    BY <2>1, ValuesLoop
<1>. QED
  BY <1>1, <1>2 DEF Summing

\* What a list of outpoints is worth, if f gives their outputs.
Worth(f, ps) == Values([i \in DOMAIN ps |-> f[ps[i]]])

LEMMA WorthEmpty ==
    ASSUME NEW f
    PROVE  Worth(f, <<>>) = 0
<1>1. [i \in DOMAIN <<>> |-> f[<<>>[i]]] = <<>>
  OBVIOUS
<1>. QED
  BY <1>1, ValuesEmpty DEF Worth

LEMMA WorthAppend ==
    ASSUME NEW O, Valued(O), NEW P, NEW f \in [P -> O],
           NEW ps \in Seq(P), NEW p \in P
    PROVE  /\ Worth(f, ps) \in Int
           /\ Worth(f, Append(ps, p)) = Worth(f, ps) + f[p].value
<1>2. PICK n \in Nat : n = Len(ps) /\ DOMAIN ps = 1..n /\ \A i \in 1..n : ps[i] \in P
  OBVIOUS
<1>3. PICK outs \in Seq(O) : /\ outs = [i \in DOMAIN ps |-> f[ps[i]]]
                             /\ Len(outs) = n /\ \A i \in 1..n : outs[i] = f[ps[i]]
  <2>1. [i \in 1..n |-> f[ps[i]]] \in Seq(O) /\ Len([i \in 1..n |-> f[ps[i]]]) = n
    BY <1>2
  <2>. QED
    BY <1>2, <2>1
<1>4. PICK o \in O : o = f[p]
  OBVIOUS
<1>5. [i \in DOMAIN Append(ps, p) |-> f[Append(ps, p)[i]]] = Append(outs, o)
  <2>1. DOMAIN Append(ps, p) = 1..(n + 1) /\ DOMAIN Append(outs, o) = 1..(n + 1)
    BY <1>2, <1>3
  <2>2. ASSUME NEW i \in 1..(n + 1) PROVE f[Append(ps, p)[i]] = Append(outs, o)[i]
    <3>1. CASE i \in 1..n
      BY <1>2, <1>3, <3>1
    <3>2. CASE i = n + 1
      BY <1>2, <1>3, <1>4, <3>2
    <3>3. i \in 1..n \/ i = n + 1
      BY <1>2
    <3>. QED
      BY <3>1, <3>2, <3>3
  <2>3. Append(outs, o) = [i \in 1..(n + 1) |-> Append(outs, o)[i]]
    <3>1. PICK more \in Seq(O) : more = Append(outs, o)
      <4>1. Append(outs, o) \in Seq(O)
        OBVIOUS
      <4>. QED
        BY <4>1
    <3>2. more = [i \in DOMAIN more |-> more[i]]
      OBVIOUS
    <3>. QED
      BY <2>1, <3>1, <3>2
  <2>. QED
    BY <2>1, <2>2, <2>3
<1>6. Values(outs) \in Int /\ Values(Append(outs, o)) = Values(outs) + o.value
  BY ValuesAppend
<1>. QED
  BY <1>3, <1>4, <1>5, <1>6 DEF Worth

LEMMA WorthInt ==
    ASSUME NEW O, Valued(O), NEW P, NEW f \in [P -> O], NEW ps \in Seq(P)
    PROVE  Worth(f, ps) \in Int
<1>1. CASE P = {}
  <2>1. ps = <<>>
    BY <1>1
  <2>. QED
    BY <2>1, WorthEmpty
<1>2. CASE P # {}
  <2>1. PICK p \in P : TRUE
    BY <1>2
  <2>. QED
    BY <2>1, WorthAppend
<1>. QED
  BY <1>1, <1>2

\* Two lists, one after the other, are worth what each of them is.
LEMMA WorthConcat ==
    ASSUME NEW O, Valued(O), NEW P, NEW f \in [P -> O],
           NEW s \in Seq(P), NEW t \in Seq(P)
    PROVE  Worth(f, s \o t) = Worth(f, s) + Worth(f, t)
<1>1. PICK n \in Nat : n = Len(t) /\ DOMAIN t = 1..n /\ \A i \in 1..n : t[i] \in P
  OBVIOUS
<1>. DEFINE T == {i \in 0..n : Worth(f, s \o SubSeq(t, 1, i))
                                 = Worth(f, s) + Worth(f, SubSeq(t, 1, i))}
<1>2. 0 \in T
  <2>1. SubSeq(t, 1, 0) = <<>> /\ s \o <<>> = s
    BY <1>1
  <2>2. Worth(f, <<>>) = 0 /\ Worth(f, s) \in Int
    BY WorthEmpty, WorthInt
  <2>3. Worth(f, s \o SubSeq(t, 1, 0)) = Worth(f, s) + Worth(f, SubSeq(t, 1, 0))
    <3>1. PICK none, all : /\ none = SubSeq(t, 1, 0) /\ all = s \o none
                           /\ none = <<>> /\ all = s
      BY <2>1
    <3>2. Worth(f, all) = Worth(f, s) /\ Worth(f, none) = 0
      BY <2>2, <3>1, Zenon
    <3>3. Worth(f, all) = Worth(f, s) + Worth(f, none)
      BY <2>2, <3>2
    <3>. QED
      BY <3>1, <3>3
  <2>. QED
    BY <1>1, <2>3
<1>3. ASSUME NEW i \in 0..(n - 1), i \in T PROVE i + 1 \in T
  <2>1. i + 1 \in 1..n /\ i + 1 \in 0..n /\ i \in 0..n /\ i \in Nat
    BY <1>1
  <2>2. PICK p \in P : p = t[i + 1]
    <3>1. t[i + 1] \in P
      BY <1>1, <2>1
    <3>. QED
      BY <3>1
  <2>3. PICK u \in Seq(P) : u = SubSeq(t, 1, i)
    <3>1. SubSeq(t, 1, i) \in Seq(P)
      BY <1>1, <2>1
    <3>. QED
      BY <3>1
  <2>4. SubSeq(t, 1, i + 1) = Append(u, p)
    BY <1>1, <2>1, <2>2, <2>3
  <2>5. s \o Append(u, p) = Append(s \o u, p)
    OBVIOUS
  <2>6. PICK v \in Seq(P) : v = s \o u
    <3>1. s \o u \in Seq(P)
      OBVIOUS
    <3>. QED
      BY <3>1
  <2>7. /\ Worth(f, Append(u, p)) = Worth(f, u) + f[p].value
        /\ Worth(f, u) \in Int /\ Worth(f, s) \in Int
    BY WorthAppend
  <2>8. Worth(f, Append(s \o u, p)) = Worth(f, s \o u) + f[p].value
    <3>1. Worth(f, Append(v, p)) = Worth(f, v) + f[p].value
      BY WorthAppend
    <3>. QED
      BY <2>6, <3>1
  <2>9. Worth(f, s \o u) = Worth(f, s) + Worth(f, u)
    BY <1>3, <2>3
  <2>10. f[p].value \in Int
    BY DEF Valued
  <2>11. Worth(f, s \o Append(u, p)) = Worth(f, s) + Worth(f, Append(u, p))
    BY <2>5, <2>7, <2>8, <2>9, <2>10
  <2>. QED
    BY <2>1, <2>4, <2>11
<1>4. n \in T
  <2>. HIDE DEF T
  <2>1. 0..n \subseteq T
    BY <1>1, <1>2, <1>3, InductionUpTo
  <2>. QED
    BY <1>1, <2>1
<1>5. SubSeq(t, 1, n) = t
  BY <1>1, SubSeqFull
<1>. QED
  BY <1>4, <1>5

\* What is chosen at either of two disjoint sets of positions is worth both.
LEMMA WorthChosen ==
    ASSUME NEW O, Valued(O), NEW P, NEW f \in [P -> O], NEW list \in Seq(P),
           NEW ks, NEW ls, NEW both, ks \cap ls = {}, both = ks \cup ls
    PROVE  Worth(f, Chosen(list, both)) = Worth(f, Chosen(list, ks)) + Worth(f, Chosen(list, ls))
<1>1. PICK n \in Nat : n = Len(list) /\ \A i \in 1..n : list[i] \in P
  OBVIOUS
<1>2. PICK k : Choice(k, list, ks, P)
  BY ChosenLoop
<1>3. PICK l : Choice(l, list, ls, P)
  BY ChosenLoop
<1>4. PICK b : Choice(b, list, both, P)
  BY ChosenLoop
<1>5. /\ k \in [0..n -> Seq(P)] /\ k[0] = <<>> /\ Chosen(list, ks) = k[n]
      /\ \A i \in 1..n : k[i] = IF i \in ks THEN Append(k[i - 1], list[i]) ELSE k[i - 1]
  BY <1>1, <1>2 DEF Choice
<1>6. /\ l \in [0..n -> Seq(P)] /\ l[0] = <<>> /\ Chosen(list, ls) = l[n]
      /\ \A i \in 1..n : l[i] = IF i \in ls THEN Append(l[i - 1], list[i]) ELSE l[i - 1]
  BY <1>1, <1>3 DEF Choice
<1>7. /\ b \in [0..n -> Seq(P)] /\ b[0] = <<>> /\ Chosen(list, both) = b[n]
      /\ \A i \in 1..n : b[i] = IF i \in both THEN Append(b[i - 1], list[i]) ELSE b[i - 1]
  BY <1>1, <1>4 DEF Choice
<1>. DEFINE T == {i \in 0..n : Worth(f, b[i]) = Worth(f, k[i]) + Worth(f, l[i])}
<1>8. 0 \in T
  <2>1. Worth(f, k[0]) = 0 /\ Worth(f, l[0]) = 0 /\ Worth(f, b[0]) = 0
    BY <1>5, <1>6, <1>7, WorthEmpty, Zenon
  <2>. QED
    BY <1>1, <2>1
<1>9. ASSUME NEW i \in 0..(n - 1), i \in T PROVE i + 1 \in T
  <2>1. i + 1 \in 1..n /\ (i + 1) - 1 = i /\ i \in 0..n /\ i + 1 \in 0..n
    BY <1>1
  <2>2. PICK p \in P : p = list[i + 1]
    <3>1. list[i + 1] \in P
      BY <1>1, <2>1
    <3>. QED
      BY <3>1
  <2>3. k[i] \in Seq(P) /\ l[i] \in Seq(P) /\ b[i] \in Seq(P)
    BY <1>5, <1>6, <1>7, <2>1
  <2>4. PICK w \in Int : w = f[p].value
    <3>1. f[p].value \in Int
      BY DEF Valued
    <3>. QED
      BY <3>1
  <2>5. /\ Worth(f, k[i]) \in Int /\ Worth(f, Append(k[i], p)) = Worth(f, k[i]) + w
        /\ Worth(f, l[i]) \in Int /\ Worth(f, Append(l[i], p)) = Worth(f, l[i]) + w
        /\ Worth(f, b[i]) \in Int /\ Worth(f, Append(b[i], p)) = Worth(f, b[i]) + w
    <3>1. ASSUME NEW ps \in Seq(P)
          PROVE  Worth(f, ps) \in Int /\ Worth(f, Append(ps, p)) = Worth(f, ps) + w
      BY <2>4, WorthAppend
    <3>. QED
      BY <2>3, <3>1
  <2>6. /\ k[i + 1] = IF i + 1 \in ks THEN Append(k[i], p) ELSE k[i]
        /\ l[i + 1] = IF i + 1 \in ls THEN Append(l[i], p) ELSE l[i]
        /\ b[i + 1] = IF i + 1 \in both THEN Append(b[i], p) ELSE b[i]
    BY <1>5, <1>6, <1>7, <2>1, <2>2
  <2>7. Worth(f, b[i]) = Worth(f, k[i]) + Worth(f, l[i])
    BY <1>9
  <2>8. Worth(f, b[i + 1]) = Worth(f, k[i + 1]) + Worth(f, l[i + 1])
    <3>1. CASE i + 1 \in ks
      <4>1. i + 1 \notin ls /\ i + 1 \in both
        BY <3>1
      <4>. QED
        BY <2>5, <2>6, <2>7, <3>1, <4>1
    <3>2. CASE i + 1 \in ls
      <4>1. i + 1 \notin ks /\ i + 1 \in both
        BY <3>2
      <4>. QED
        BY <2>5, <2>6, <2>7, <3>2, <4>1
    <3>3. CASE i + 1 \notin both
      BY <2>6, <2>7, <3>3
    <3>. QED
      BY <3>1, <3>2, <3>3
  <2>. QED
    BY <2>1, <2>8
<1>10. n \in T
  <2>. HIDE DEF T
  <2>1. 0..n \subseteq T
    BY <1>1, <1>8, <1>9, InductionUpTo
  <2>. QED
    BY <1>1, <2>1
<1>. QED
  BY <1>5, <1>6, <1>7, <1>10


--------------------------------------------------------------------------
(* The inputs of a transaction. *)

\* A list of the elements of a finite set, none twice, that is as long as the set
\* is large has them all.
LEMMA ListOfSet ==
    ASSUME NEW S, IsFiniteSet(S), NEW list \in SetToSeqs(S)
    PROVE  list \in Seq(S) /\ IsInjective(list) /\ ToSet(list) = S
<1>1. PICK m \in Nat : m = Cardinality(S)
  BY FS_CardinalityType
<1>2. list \in [1..m -> S] /\ \A i, j \in 1..m : i # j => list[i] # list[j]
  BY <1>1 DEF SetToSeqs
<1>3. DOMAIN list = 1..m
  BY <1>2
<1>4. IsInjective(list)
  BY <1>2, <1>3 DEF IsInjective
<1>5. list \in Injection(1..m, S)
  BY <1>2, <1>4 DEF Injection
<1>6. Cardinality(1..m) = m
  BY FS_Interval
<1>7. list \in Surjection(1..m, S)
  BY <1>1, <1>5, <1>6, FS_Injection
<1>8. ToSet(list) = S
  BY <1>2, <1>3, <1>7 DEF Surjection, ToSet
<1>9. list \in Seq(S)
  BY <1>2
<1>. QED
  BY <1>4, <1>8, <1>9

\* One list after another: what is in either, and nothing twice if they share nothing.
LEMMA ConcatOnce ==
    ASSUME NEW P, NEW s \in Seq(P), NEW t \in Seq(P)
    PROVE  /\ ToSet(s \o t) = ToSet(s) \cup ToSet(t)
           /\ IsInjective(s) /\ IsInjective(t) /\ ToSet(s) \cap ToSet(t) = {}
                => IsInjective(s \o t)
<1>0. PICK n \in Nat : n = Len(s) /\ DOMAIN s = 1..n
  OBVIOUS
<1>1. PICK m \in Nat : m = Len(t) /\ DOMAIN t = 1..m
  OBVIOUS
<1>2. PICK u \in Seq(P) : /\ u = s \o t /\ DOMAIN u = 1..(n + m)
                          /\ \A i \in 1..n : u[i] = s[i]
                          /\ \A i \in 1..m : u[n + i] = t[i]
  <2>. DEFINE v == s \o t
  <2>1. v \in Seq(P) /\ DOMAIN v = 1..(n + m)
    BY <1>0, <1>1
  <2>2. (\A i \in 1..n : v[i] = s[i]) /\ \A i \in 1..m : v[n + i] = t[i]
    BY <1>0, <1>1
  <2>. QED
    BY <2>1, <2>2
<1>3. \A i \in 1..(n + m) : i \in 1..n \/ (i - n \in 1..m /\ i = n + (i - n))
  BY <1>0, <1>1
<1>4. \A i \in 1..m : n + i \in 1..(n + m)
  BY <1>0, <1>1
<1>5. \A i \in 1..n : i \in 1..(n + m)
  BY <1>0, <1>1
<1>6. /\ \A x : x \in ToSet(s) <=> \E i \in 1..n : x = s[i]
      /\ \A x : x \in ToSet(t) <=> \E i \in 1..m : x = t[i]
      /\ \A x : x \in ToSet(u) <=> \E i \in 1..(n + m) : x = u[i]
  BY <1>0, <1>1, <1>2 DEF ToSet
<1>8. ToSet(u) = ToSet(s) \cup ToSet(t)
  <2>1. ASSUME NEW i \in 1..(n + m) PROVE u[i] \in ToSet(s) \/ u[i] \in ToSet(t)
    <3>1. CASE i \in 1..n
      BY <1>2, <1>6, <3>1
    <3>2. CASE i - n \in 1..m /\ i = n + (i - n)
      <4>1. u[i] = t[i - n]
        BY <1>2, <3>2
      <4>. QED
        BY <1>6, <3>2, <4>1
    <3>. QED
      BY <1>3, <3>1, <3>2
  <2>2. ASSUME NEW i \in 1..n PROVE s[i] \in ToSet(u)
    BY <1>2, <1>5, <1>6
  <2>3. ASSUME NEW i \in 1..m PROVE t[i] \in ToSet(u)
    <3>1. t[i] = u[n + i] /\ n + i \in 1..(n + m)
      BY <1>2, <1>4
    <3>. QED
      BY <1>6, <3>1
  <2>. QED
    BY <1>6, <2>1, <2>2, <2>3
<1>7. ASSUME IsInjective(s), IsInjective(t), ToSet(s) \cap ToSet(t) = {}
      PROVE  IsInjective(u)
  <2>. SUFFICES ASSUME NEW i \in 1..(n + m), NEW j \in 1..(n + m), u[i] = u[j]
                PROVE  i = j
    BY <1>2 DEF IsInjective
  <2>1. CASE i \in 1..n /\ j \in 1..n
    BY <1>0, <1>1, <1>2, <1>7, <2>1 DEF IsInjective
  <2>2. CASE i - n \in 1..m /\ j - n \in 1..m
    <3>1. u[i] = t[i - n] /\ u[j] = t[j - n]
      BY <1>2, <1>3, <2>2
    <3>2. i - n = j - n
      BY <1>0, <1>1, <1>7, <2>2, <3>1 DEF IsInjective
    <3>. QED
      BY <1>0, <1>1, <3>2
  <2>3. CASE i \in 1..n /\ j - n \in 1..m
    <3>1. u[i] \in ToSet(s) /\ u[j] \in ToSet(t)
      <4>1. u[i] = s[i] /\ u[j] = t[j - n]
        BY <1>2, <1>3, <2>3
      <4>. QED
        BY <1>6, <2>3, <4>1
    <3>. QED
      BY <1>7, <3>1
  <2>4. CASE j \in 1..n /\ i - n \in 1..m
    <3>1. u[j] \in ToSet(s) /\ u[i] \in ToSet(t)
      <4>1. u[j] = s[j] /\ u[i] = t[i - n]
        BY <1>2, <1>3, <2>4
      <4>. QED
        BY <1>6, <2>4, <4>1
    <3>. QED
      BY <1>7, <3>1
  <2>. QED
    BY <1>3, <2>1, <2>2, <2>3, <2>4
<1>. QED
  BY <1>2, <1>7, <1>8

\* The positions in taken of outputs of t, and of the first i transactions in at.
Of(taken, t) == {k \in DOMAIN taken : taken[k].tx = t}
UpTo(taken, at, i) == {k \in DOMAIN taken : \E j \in 1..i : taken[k].tx = at[j]}

\* The loop over validOutputs: the inputs after each transaction of it.
Grouping(n, at, flat, taken, ins, P) ==
    /\ n \in Nat
    /\ \A i, j \in 1..n : at[i] = at[j] => i = j
    /\ \A p \in ToSet(taken) : \E i \in 1..n : at[i] = p.tx
    /\ flat \in [0..n -> Seq(P)]
    /\ flat[0] = <<>>
    /\ \A i \in 1..n : flat[i] = flat[i - 1] \o Chosen(taken, Of(taken, at[i]))
    /\ ins = flat[n]

LEMMA InputsLoop ==
    ASSUME NEW P, NEW taken \in Seq(P), NEW ins \in Inputs(taken)
    PROVE  \E n, at, flat : Grouping(n, at, flat, taken, ins, P)
<1>1. PICK T : T = {p.tx : p \in ToSet(taken)}
  OBVIOUS
<1>2. IsFiniteSet(T)
  <2>1. PICK m \in Nat : DOMAIN taken = 1..m
    OBVIOUS
  <2>2. IsFiniteSet(1..m)
    BY FS_Interval
  <2>. DEFINE f == [k \in 1..m |-> taken[k].tx]
  <2>3. f \in Surjection(1..m, T)
    <3>1. f \in [1..m -> T]
      BY <1>1, <2>1 DEF ToSet
    <3>2. ASSUME NEW t \in T PROVE \E k \in 1..m : f[k] = t
      BY <1>1, <2>1 DEF ToSet
    <3>. QED
      BY <3>1, <3>2 DEF Surjection
  <2>. QED
    BY <2>2, <2>3, FS_Surjection
<1>3. PICK txs \in SetToSeqs(T) :
        ins = FlattenSeq([k \in DOMAIN txs |->
                            Chosen(taken, {i \in DOMAIN taken : taken[i].tx = txs[k]})])
  BY <1>1 DEF Inputs
<1>4. txs \in Seq(T) /\ IsInjective(txs) /\ ToSet(txs) = T
  BY <1>2, ListOfSet
<1>5. PICK n \in Nat : n = Len(txs) /\ DOMAIN txs = 1..n
  BY <1>4
<1>6. PICK lists \in Seq(Seq(P)) :
        /\ Len(lists) = n /\ FlattenSeq(lists) = ins
        /\ \A k \in 1..n : lists[k] = Chosen(taken, Of(taken, txs[k]))
  <2>. DEFINE l == [k \in 1..n |-> Chosen(taken, Of(taken, txs[k]))]
  <2>1. ASSUME NEW k \in 1..n PROVE Chosen(taken, Of(taken, txs[k])) \in Seq(P)
    <3>1. Of(taken, txs[k]) \in SUBSET DOMAIN taken
      BY DEF Of
    <3>. QED
      BY <3>1, ChosenShortens
  <2>2. l \in Seq(Seq(P)) /\ Len(l) = n
    BY <2>1
  <2>3. FlattenSeq(l) = ins
    BY <1>3, <1>5 DEF Of
  <2>. QED
    BY <2>2, <2>3
<1>7. PICK flat : Concatenation(flat, lists, P)
  BY FlattenLoop
<1>8. /\ flat \in [0..n -> Seq(P)] /\ flat[0] = <<>> /\ ins = flat[n]
      /\ \A i \in 1..n : flat[i] = flat[i - 1] \o lists[i]
  BY <1>6, <1>7 DEF Concatenation
<1>9. \A i, j \in 1..n : txs[i] = txs[j] => i = j
  BY <1>4, <1>5 DEF IsInjective
<1>10. \A p \in ToSet(taken) : \E i \in 1..n : txs[i] = p.tx
  BY <1>1, <1>4, <1>5 DEF ToSet
<1>11. \A i \in 1..n : flat[i] = flat[i - 1] \o Chosen(taken, Of(taken, txs[i]))
  BY <1>6, <1>8
<1>12. Grouping(n, txs, flat, taken, ins, P)
  BY <1>8, <1>9, <1>10, <1>11 DEF Grouping
<1>. QED
  BY <1>12

\* From one transaction to the next.
LEMMA NextGroup ==
    ASSUME NEW P, NEW taken \in Seq(P), NEW n, NEW at, NEW flat, NEW ins,
           Grouping(n, at, flat, taken, ins, P), NEW i \in 0..(n - 1)
    PROVE  /\ UpTo(taken, at, i) \cap Of(taken, at[i + 1]) = {}
           /\ UpTo(taken, at, i + 1) = UpTo(taken, at, i) \cup Of(taken, at[i + 1])
<1>1. n \in Nat /\ \A x, y \in 1..n : at[x] = at[y] => x = y
  BY DEF Grouping
<1>2. \A j \in 1..i : j \in 1..n /\ j # i + 1
  BY <1>1
<1>3. i + 1 \in 1..n /\ i + 1 \in 1..(i + 1) /\ (\A j \in 1..i : j \in 1..(i + 1))
  BY <1>1
<1>4. \A j \in 1..(i + 1) : j \in 1..i \/ j = i + 1
  BY <1>1
<1>5. \A j \in 1..i : at[j] # at[i + 1]
  BY <1>1, <1>2, <1>3
<1>6. UpTo(taken, at, i) \cap Of(taken, at[i + 1]) = {}
  BY <1>5 DEF UpTo, Of
<1>7. UpTo(taken, at, i + 1) = UpTo(taken, at, i) \cup Of(taken, at[i + 1])
  BY <1>3, <1>4 DEF UpTo, Of
<1>. QED
  BY <1>6, <1>7

LEMMA AllGroups ==
    ASSUME NEW P, NEW taken \in Seq(P), NEW n, NEW at, NEW flat, NEW ins,
           Grouping(n, at, flat, taken, ins, P)
    PROVE  UpTo(taken, at, 0) = {} /\ UpTo(taken, at, n) = DOMAIN taken
<1>1. UpTo(taken, at, 0) = {}
  BY DEF UpTo
<1>2. \A k \in DOMAIN taken : taken[k] \in ToSet(taken)
  BY DEF ToSet
<1>3. \A k \in DOMAIN taken : \E i \in 1..n : taken[k].tx = at[i]
  BY <1>2 DEF Grouping
<1>. QED
  BY <1>1, <1>3 DEF UpTo

LEMMA NothingChosen ==
    ASSUME NEW P, NEW list \in Seq(P)
    PROVE  Chosen(list, {}) = <<>>
<1>1. PICK m \in 0..Len(list) : m = 0 /\ 1..m = {}
  OBVIOUS
<1>2. PICK c \in Seq(P) : c = Chosen(list, 1..m) /\ Len(c) = m
  BY ChosenFirst
<1>. QED
  BY <1>1, <1>2

\* Grouped by transaction, the inputs are the outputs that were taken, none of them
\* twice if none was taken twice, ...
LEMMA InputsAreTaken ==
    ASSUME NEW P, NEW taken \in Seq(P), NEW ins \in Inputs(taken)
    PROVE  /\ ins \in Seq(P)
           /\ ToSet(ins) = ToSet(taken)
           /\ IsInjective(taken) => IsInjective(ins)
<1>1. PICK n, at, flat : Grouping(n, at, flat, taken, ins, P)
  BY InputsLoop
<1>2. /\ n \in Nat /\ flat \in [0..n -> Seq(P)] /\ flat[0] = <<>> /\ ins = flat[n]
      /\ \A i \in 1..n : flat[i] = flat[i - 1] \o Chosen(taken, Of(taken, at[i]))
  BY <1>1 DEF Grouping
<1>. DEFINE Met(i) == {taken[k] : k \in UpTo(taken, at, i)}
            T == {i \in 0..n : /\ ToSet(flat[i]) = Met(i)
                               /\ IsInjective(taken) => IsInjective(flat[i])}
<1>3. 0 \in T
  <2>1. PICK none \in Seq(P) : none = flat[0] /\ DOMAIN none = {}
    <3>1. <<>> \in Seq(P) /\ DOMAIN <<>> = {}
      OBVIOUS
    <3>. QED
      BY <1>2, <3>1
  <2>2. Met(0) = {}
    BY <1>1, AllGroups
  <2>3. ToSet(flat[0]) = {} /\ IsInjective(flat[0])
    <3>1. ToSet(none) = {} /\ IsInjective(none)
      BY <2>1 DEF ToSet, IsInjective
    <3>. QED
      BY <2>1, <3>1
  <2>4. ToSet(flat[0]) = Met(0)
    BY <2>2, <2>3, Zenon
  <2>5. IsInjective(taken) => IsInjective(flat[0])
    BY <2>3
  <2>6. 0 \in 0..n
    BY <1>2
  <2>. HIDE DEF Met
  <2>. QED
    BY <2>4, <2>5, <2>6
<1>4. ASSUME NEW i \in 0..(n - 1), i \in T PROVE i + 1 \in T
  <2>1. i + 1 \in 1..n /\ (i + 1) - 1 = i /\ i \in 0..n /\ i + 1 \in 0..n
    BY <1>2
  <2>2. PICK ks \in SUBSET DOMAIN taken : ks = Of(taken, at[i + 1])
    BY DEF Of
  <2>3. PICK more \in Seq(P) : more = Chosen(taken, ks)
    BY ChosenShortens
  <2>4. PICK s \in Seq(P) : s = flat[i]
    BY <1>2, <2>1
  <2>5. flat[i + 1] = s \o more
    BY <1>2, <2>1, <2>2, <2>3, <2>4
  <2>6. ToSet(more) = {taken[k] : k \in ks}
    BY <2>3, ChosenElements
  <2>7. /\ UpTo(taken, at, i) \cap ks = {}
        /\ UpTo(taken, at, i + 1) = UpTo(taken, at, i) \cup ks
    BY <1>1, <2>2, NextGroup
  <2>8. ToSet(s \o more) = Met(i + 1)
    <3>1. ToSet(s \o more) = Met(i) \cup {taken[k] : k \in ks}
      BY <1>4, <2>4, <2>6, ConcatOnce
    <3>. QED
      BY <2>7, <3>1
  <2>9. ASSUME IsInjective(taken) PROVE IsInjective(s \o more)
    <3>1. IsInjective(s) /\ ToSet(s) = Met(i)
      BY <1>4, <2>4, <2>9
    <3>2. IsInjective(more)
      BY <2>3, <2>9, ChosenOnce
    <3>3. ToSet(s) \cap ToSet(more) = {}
      <4>. SUFFICES ASSUME NEW x \in ToSet(s), x \in ToSet(more) PROVE FALSE
        OBVIOUS
      <4>1. PICK k \in UpTo(taken, at, i) : x = taken[k]
        BY <3>1
      <4>2. PICK l \in ks : x = taken[l]
        BY <2>6
      <4>3. k \in DOMAIN taken /\ l \in DOMAIN taken
        BY DEF UpTo
      <4>4. k = l
        BY <2>9, <4>1, <4>2, <4>3 DEF IsInjective
      <4>. QED
        BY <2>7, <4>4
    <3>. QED
      BY <3>1, <3>2, <3>3, ConcatOnce
  <2>. QED
    BY <2>1, <2>5, <2>8, <2>9
<1>5. n \in T
  <2>. HIDE DEF T
  <2>1. 0..n \subseteq T
    BY <1>2, <1>3, <1>4, InductionUpTo
  <2>. QED
    BY <1>2, <2>1
<1>6. Met(n) = ToSet(taken)
  <2>1. UpTo(taken, at, n) = DOMAIN taken
    BY <1>1, AllGroups
  <2>. QED
    BY <2>1 DEF ToSet
<1>. QED
  BY <1>2, <1>5, <1>6

\* ... and they are worth the same.
LEMMA InputsAreWorth ==
    ASSUME NEW O, Valued(O), NEW P, NEW f \in [P -> O],
           NEW taken \in Seq(P), NEW ins \in Inputs(taken)
    PROVE  Worth(f, ins) = Worth(f, taken)
<1>1. PICK n, at, flat : Grouping(n, at, flat, taken, ins, P)
  BY InputsLoop
<1>2. /\ n \in Nat /\ flat \in [0..n -> Seq(P)] /\ flat[0] = <<>> /\ ins = flat[n]
      /\ \A i \in 1..n : flat[i] = flat[i - 1] \o Chosen(taken, Of(taken, at[i]))
  BY <1>1 DEF Grouping
<1>. DEFINE Met(i) == Chosen(taken, UpTo(taken, at, i))
            T == {i \in 0..n : Worth(f, flat[i]) = Worth(f, Met(i))}
<1>3. 0 \in T
  <2>1. Met(0) = <<>>
    BY <1>1, AllGroups, NothingChosen
  <2>2. Worth(f, flat[0]) = Worth(f, Met(0))
    BY <1>2, <2>1, Zenon
  <2>. QED
    BY <1>2, <2>2
<1>4. ASSUME NEW i \in 0..(n - 1), i \in T PROVE i + 1 \in T
  <2>1. i + 1 \in 1..n /\ (i + 1) - 1 = i /\ i \in 0..n /\ i + 1 \in 0..n
    BY <1>2
  <2>2. PICK ks \in SUBSET DOMAIN taken : ks = Of(taken, at[i + 1])
    BY DEF Of
  <2>3. PICK more \in Seq(P) : more = Chosen(taken, ks)
    BY ChosenShortens
  <2>4. PICK s \in Seq(P) : s = flat[i]
    BY <1>2, <2>1
  <2>5. flat[i + 1] = s \o more
    BY <1>2, <2>1, <2>2, <2>3, <2>4
  <2>6. PICK ls, both : /\ ls = UpTo(taken, at, i) /\ both = UpTo(taken, at, i + 1)
                        /\ ls \cap ks = {} /\ both = ls \cup ks
    BY <1>1, <2>2, NextGroup
  <2>7. Worth(f, Chosen(taken, both)) = Worth(f, Chosen(taken, ls)) + Worth(f, more)
    BY <2>3, <2>6, WorthChosen
  <2>8. Worth(f, s \o more) = Worth(f, s) + Worth(f, more)
    BY WorthConcat
  <2>9. Worth(f, s) = Worth(f, Chosen(taken, ls))
    BY <1>4, <2>4, <2>6
  <2>10. Worth(f, flat[i + 1]) = Worth(f, Met(i + 1))
    BY <2>5, <2>6, <2>7, <2>8, <2>9
  <2>. QED
    BY <2>1, <2>10
<1>5. n \in T
  <2>. HIDE DEF T
  <2>1. 0..n \subseteq T
    BY <1>2, <1>3, <1>4, InductionUpTo
  <2>. QED
    BY <1>2, <2>1
<1>6. Met(n) = taken
  BY <1>1, AllGroups, ChosenAll
<1>. QED
  BY <1>2, <1>5, <1>6

--------------------------------------------------------------------------
(***************************************************************************)
(* What send takes from the index.  An outpoint is a place in the index:   *)
(* while send runs nobody writes it, so the places keep what they hold.    *)
(***************************************************************************)
Listed == UNION {{Outpoint(t, k) : k \in DOMAIN index[t]} : t \in DOMAIN index}
At(p) == index[p.tx][p.out]
held == [p \in Listed |-> At(p)]

\* What FindSpendableOutputs has when it has looked at i outputs of the entry of tx.
Sound(found, tx, i) ==
    /\ found.taken \in Seq(Listed)
    /\ IsInjective(found.taken)
    /\ \A p \in ToSet(found.taken) :
          /\ At(p).owner = cmd.order.from
          /\ p.tx \in cmd.left => p.tx = tx /\ p.out \in 1..i
    /\ found.acc = Worth(held, found.taken)

\* No output of any block is a debt.
LEMMA NoDebts ==
    ASSUME UtxoTypes
    PROVE  \A out \in TreeOuts(blocks) : out.value \in Nat
<1>. SUFFICES ASSUME NEW block \in blocks, NEW out \in Outs(block) PROVE out.value \in Nat
  BY DEF TreeOuts
<1>1. blocks \in Trees
  BY DEF UtxoTypes
<1>2. OnChain(block) = Txs(block)
  BY <1>1, FoundType, WalkMeetsTheChain
<1>3. PICK tx \in OnChain(block) : out \in ToSet(tx.outs)
  BY <1>2 DEF Outs
<1>. QED
  BY <1>1, <1>3, PaymentAssumption

LEMMA IndexTypes ==
    ASSUME IndexInv
    PROVE  /\ Valued(TreeOuts(blocks))
           /\ held \in [Listed -> TreeOuts(blocks)]
           /\ \A p \in Listed : held[p] = At(p) /\ At(p).value \in Int
           /\ \A t \in DOMAIN index : index[t] \in Seq(TreeOuts(blocks))
           /\ \A t \in DOMAIN index : \A k \in DOMAIN index[t] : Outpoint(t, k) \in Listed
           /\ \A p \in Listed : /\ p = Outpoint(p.tx, p.out)
                                /\ p.tx \in DOMAIN index /\ p.out \in DOMAIN index[p.tx]
<1>1. Valued(TreeOuts(blocks))
  BY NoDebts DEF IndexInv, UtxoInv, Valued
<1>2. \A t \in DOMAIN index : index[t] \in Seq(TreeOuts(blocks))
  BY IndexesType DEF IndexInv, UtxoInv, UtxoTypes
<1>3. \A t \in DOMAIN index : \A k \in DOMAIN index[t] : Outpoint(t, k) \in Listed
  BY DEF Listed
<1>4. \A p \in Listed : /\ p = Outpoint(p.tx, p.out)
                        /\ p.tx \in DOMAIN index /\ p.out \in DOMAIN index[p.tx]
  BY DEF Listed, Outpoint
<1>5. ASSUME NEW p \in Listed PROVE At(p) \in TreeOuts(blocks) /\ At(p).value \in Int
  <2>1. index[p.tx] \in Seq(TreeOuts(blocks)) /\ p.out \in DOMAIN index[p.tx]
    BY <1>2, <1>4
  <2>2. At(p) \in TreeOuts(blocks)
    BY <2>1 DEF At
  <2>. QED
    BY <1>1, <2>2 DEF Valued
<1>6. held \in [Listed -> TreeOuts(blocks)] /\ \A p \in Listed : held[p] = At(p)
  BY <1>5 DEF held
<1>. QED
  BY <1>1, <1>2, <1>3, <1>4, <1>5, <1>6

\* Take keeps it so.
LEMMA TakeIsSound ==
    ASSUME IndexInv, cmd.order.amount \in Int, NEW tx \in DOMAIN index, tx \in cmd.left,
           NEW i \in Nat, i + 1 \in DOMAIN index[tx],
           NEW found, found = [acc |-> found.acc, taken |-> found.taken], Sound(found, tx, i)
    PROVE  Sound(Take(found, index[tx][i + 1], tx, i + 1), tx, i + 1)
<1>1. PICK p \in Listed : p = Outpoint(tx, i + 1)
  BY IndexTypes
<1>2. p.tx = tx /\ p.out = i + 1 /\ At(p) = index[tx][i + 1]
  BY <1>1 DEF Outpoint, At
<1>3. PICK taken \in Seq(Listed) : taken = found.taken
  BY DEF Sound
<1>4. \A q \in ToSet(taken) : q.tx = tx => q.out \in 1..i
  BY <1>3 DEF Sound
<1>5. \A j \in 1..i : j \in 1..(i + 1) /\ j # i + 1
  OBVIOUS
<1>6. CASE At(p).owner = cmd.order.from /\ found.acc < cmd.order.amount
  <2>1. PICK next : /\ next = Take(found, index[tx][i + 1], tx, i + 1)
                    /\ next.acc = found.acc + At(p).value
                    /\ next.taken = Append(taken, p)
    <3>1. PICK out : out = index[tx][i + 1] /\ out = At(p)
      BY <1>2
    <3>2. Take(found, out, tx, i + 1)
            = [acc |-> found.acc + out.value,
               taken |-> Append(found.taken, Outpoint(tx, i + 1))]
      BY <1>6, <3>1 DEF Take
    <3>3. PICK next : next = Take(found, out, tx, i + 1)
      OBVIOUS
    <3>4. next.acc = found.acc + out.value /\ next.taken = Append(found.taken, p)
      BY <1>1, <3>2, <3>3
    <3>. QED
      BY <1>3, <3>1, <3>3, <3>4
  <2>2. p \notin ToSet(taken)
    BY <1>2, <1>4, <1>5
  <2>3. ToSet(Append(taken, p)) = ToSet(taken) \cup {p} /\ IsInjective(Append(taken, p))
    BY <1>3, <2>2, AppendElements DEF Sound
  <2>4. PICK more \in Seq(Listed) : /\ more = Append(taken, p)
                                    /\ Len(more) = Len(taken) + 1 /\ more[Len(more)] = p
    <3>1. /\ Append(taken, p) \in Seq(Listed)
          /\ Len(Append(taken, p)) = Len(taken) + 1
          /\ Append(taken, p)[Len(taken) + 1] = p
      OBVIOUS
    <3>. QED
      BY <3>1
  <2>5. /\ Worth(held, taken) \in Int
        /\ Worth(held, Append(taken, p)) = Worth(held, taken) + held[p].value
    BY IndexTypes, WorthAppend
  <2>6. held[p] = At(p) /\ At(p).value \in Int
    BY IndexTypes
  <2>7. found.acc = Worth(held, taken)
    BY <1>3 DEF Sound
  <2>8. ASSUME NEW q \in ToSet(next.taken)
        PROVE  /\ At(q).owner = cmd.order.from
               /\ q.tx \in cmd.left => q.tx = tx /\ q.out \in 1..(i + 1)
    <3>1. CASE q = p
      BY <1>2, <1>6, <3>1
    <3>2. CASE q \in ToSet(taken)
      BY <1>3, <1>5, <3>2 DEF Sound
    <3>. QED
      BY <2>1, <2>3, <3>1, <3>2
  <2>9. next.acc = Worth(held, next.taken)
    BY <2>1, <2>5, <2>6, <2>7
  <2>10. next.acc - At(next.taken[Len(next.taken)]).value < cmd.order.amount
    <3>1. next.taken[Len(next.taken)] = p
      BY <2>1, <2>4
    <3>2. next.acc - At(p).value = found.acc
      BY <2>1, <2>5, <2>6, <2>7
    <3>. QED
      BY <1>6, <3>1, <3>2
  <2>. QED
    BY <2>1, <2>3, <2>4, <2>8, <2>9, <2>10 DEF Sound
<1>7. CASE ~(At(p).owner = cmd.order.from /\ found.acc < cmd.order.amount)
  <2>1. Take(found, index[tx][i + 1], tx, i + 1) = found
    BY <1>2, <1>7 DEF Take
  <2>. QED
    BY <1>5, <2>1 DEF Sound
<1>. QED
  BY <1>6, <1>7

\* The inner loop of FindSpendableOutputs.
Founds == [acc : Int, taken : Seq(Listed)]

LEMMA EntryLoop ==
    ASSUME IndexInv, NEW tx \in DOMAIN index, FindEntry(tx),
           cmd.acc \in Int, cmd.taken \in Seq(Listed)
    PROVE  \E met :
             /\ met \in [0..Len(index[tx]) -> Founds]
             /\ met[0] = [acc |-> cmd.acc, taken |-> cmd.taken]
             /\ \A i \in 1..Len(index[tx]) : met[i] = Take(met[i - 1], index[tx][i], tx, i)
             /\ cmd' = [cmd EXCEPT !.left = @ \ {tx},
                          !.acc = met[Len(index[tx])].acc, !.taken = met[Len(index[tx])].taken]
<1>1. PICK entry \in Seq(TreeOuts(blocks)) : entry = index[tx]
  BY IndexTypes
<1>2. PICK n \in Nat : n = Len(entry) /\ DOMAIN entry = 1..n
  OBVIOUS
<1>. DEFINE A == Founds
            e == [acc |-> cmd.acc, taken |-> cmd.taken]
            Pass(s, i) == IF i \in 1..n THEN Take(s, entry[i], tx, i) ELSE s
<1>3. e \in A
  BY DEF Founds
<1>4. ASSUME NEW s \in A, NEW i \in Nat PROVE Pass(s, i) \in A
  <2>1. CASE i \in 1..n
    <3>1. Outpoint(tx, i) \in Listed /\ At(Outpoint(tx, i)) = entry[i]
      BY <1>1, <1>2, <2>1, IndexTypes DEF At, Outpoint
    <3>2. entry[i].value \in Int
      BY <3>1, IndexTypes
    <3>3. s.acc \in Int /\ s.taken \in Seq(Listed)
      BY DEF Founds
    <3>4. PICK v \in Int, p \in Listed : v = s.acc + entry[i].value /\ p = Outpoint(tx, i)
      BY <3>1, <3>2, <3>3
    <3>5. [acc |-> v, taken |-> Append(s.taken, p)] \in Founds
      BY <3>3 DEF Founds
    <3>6. Take(s, entry[i], tx, i) \in Founds
      BY <3>4, <3>5 DEF Take
    <3>. QED
      BY <2>1, <3>6
  <2>2. CASE i \notin 1..n
    BY <2>2
  <2>. QED
    BY <2>1, <2>2
<1>5. PICK g \in [A \X Nat -> A] : \A s \in A, i \in Nat : g[<<s, i>>] = Pass(s, i)
  <2>. DEFINE h == [p \in A \X Nat |-> Pass(p[1], p[2])]
  <2>1. h \in [A \X Nat -> A] /\ \A s \in A, i \in Nat : h[<<s, i>>] = Pass(s, i)
    <3>. HIDE DEF Pass, A
    <3>. QED
      BY <1>4
  <2>. QED
    BY <2>1
<1>. HIDE DEF A, e
<1>6. PICK r : IsRun(r, n, A, e, g)
  BY <1>3, <1>5, Iteration
<1>7. /\ r \in [0..n -> A]
      /\ r[0] = e /\ \A i \in 1..n : r[i] = g[<<r[i - 1], i>>]
  BY <1>6 DEF IsRun
<1>. DEFINE Steps(h) == [k \in 0..n |-> IF k = 0 THEN e ELSE Take(h[k - 1], entry[k], tx, k)]
            met == CHOOSE h : h = Steps(h)
<1>8. r = Steps(r)
  <2>1. ASSUME NEW i \in 0..n, i # 0 PROVE r[i] = Take(r[i - 1], entry[i], tx, i)
    <3>1. i \in 1..n /\ i \in Nat /\ i - 1 \in 0..n
      BY <1>2, <2>1
    <3>2. r[i] = Pass(r[i - 1], i)
      <4>1. r[i - 1] \in A
        BY <1>7, <3>1
      <4>. HIDE DEF Pass
      <4>. QED
        BY <1>5, <1>7, <3>1, <4>1
    <3>. QED
      BY <3>1, <3>2
  <2>2. \A i \in 0..n : r[i] = IF i = 0 THEN e ELSE Take(r[i - 1], entry[i], tx, i)
    BY <1>7, <2>1
  <2>3. r = [i \in 0..n |-> r[i]]
    BY <1>7
  <2>. HIDE DEF Pass
  <2>. QED
    BY <2>2, <2>3
<1>9. met = Steps(met)
  <2>. HIDE DEF Steps
  <2>. QED
    BY <1>8
<1>10. cmd' = [cmd EXCEPT !.left = @ \ {tx}, !.acc = met[n].acc, !.taken = met[n].taken]
  BY <1>1, <1>2 DEF FindEntry, e
<1>. HIDE DEF met
<1>11. /\ met[0] = e
       /\ \A i \in 1..n : met[i] = Take(met[i - 1], entry[i], tx, i)
       /\ met = [i \in 0..n |-> met[i]]
  <2>1. 0 \in 0..n /\ \A i \in 1..n : i \in 0..n /\ i # 0
    BY <1>2
  <2>. QED
    BY <1>9, <2>1
<1>12. IsRun(met, n, A, e, g)
  <2>1. ASSUME NEW i \in 1..n, met[i - 1] \in A PROVE met[i] = g[<<met[i - 1], i>>]
    <3>1. met[i] = Take(met[i - 1], entry[i], tx, i)
      BY <1>11
    <3>2. met[i] = Pass(met[i - 1], i)
      BY <3>1, Zenon
    <3>3. PICK s \in A : s = met[i - 1] /\ met[i] = Pass(s, i)
      BY <2>1, <3>2
    <3>4. i \in Nat
      BY <1>2
    <3>. HIDE DEF Pass
    <3>. QED
      BY <1>5, <3>3, <3>4
  <2>. HIDE DEF Steps, Pass
  <2>. QED
    BY <1>3, <1>11, <2>1, LoopIsRun
<1>13. met \in [0..n -> Founds]
  BY <1>12 DEF IsRun, A
<1>. HIDE DEF Steps, Pass
<1>. QED
  BY <1>1, <1>2, <1>10, <1>11, <1>13 DEF e

--------------------------------------------------------------------------
(* The inductive invariant of a payment. *)

Taking ==
    cmd.pc = "find" =>
        /\ cmd.left \subseteq DOMAIN index
        /\ cmd.taken \in Seq(Listed)
        /\ IsInjective(cmd.taken)
        /\ \A p \in ToSet(cmd.taken) : At(p).owner = cmd.order.from /\ p.tx \notin cmd.left
        /\ cmd.acc = Worth(held, cmd.taken)

Building ==
    cmd.pc = "sign" =>
        /\ cmd.tx.ins \in Seq(Listed)
        /\ IsInjective(cmd.tx.ins)
        /\ \A p \in ToSet(cmd.tx.ins) : At(p).owner = cmd.order.from
        /\ Values(cmd.tx.outs) = Worth(held, cmd.tx.ins)
        /\ [value |-> cmd.order.amount, owner |-> cmd.order.to] \in ToSet(cmd.tx.outs)

Places ==
    /\ cmd.pc \in {"off", "find", "sign"}
    /\ cmd.pc # "find" => cmd.taken = <<>>

TakenInv == Places /\ Taking /\ Building

LEMMA OrderTypes ==
    ASSUME PayInv, cmd.pc # "off"
    PROVE  /\ cmd.order \in Orders /\ cmd.order.from \in Owner /\ cmd.order.to \in Owner
           /\ cmd.order.amount \in Nat \ {0}
BY PaymentAssumption DEF PayInv, Ordered

LEMMA TakenInvOfNoCmd ==
    ASSUME cmd = NoCmd
    PROVE  TakenInv
<1>1. cmd.pc = "off" /\ cmd.taken = <<>>
  BY DEF NoCmd
<1>. QED
  BY <1>1 DEF TakenInv, Places, Taking, Building

LEMMA TakenInvSend ==
    ASSUME NEW order \in Orders, Send(order)
    PROVE  TakenInv'
<1>1. /\ cmd'.pc = "find" /\ cmd'.left = DOMAIN index /\ cmd'.taken = <<>> /\ cmd'.acc = 0
      /\ index' = index
  BY DEF Send, NoCmd
<1>2. <<>> \in Seq(Listed) /\ IsInjective(<<>>) /\ ToSet(<<>>) = {}
  <2>1. PICK none \in Seq(Listed) : none = <<>> /\ DOMAIN none = {}
    <3>1. <<>> \in Seq(Listed) /\ DOMAIN <<>> = {}
      OBVIOUS
    <3>. QED
      BY <3>1
  <2>2. IsInjective(none) /\ ToSet(none) = {}
    BY <2>1 DEF IsInjective, ToSet
  <2>. QED
    BY <2>1, <2>2
<1>3. Listed' = Listed /\ held' = held
  BY <1>1 DEF Listed, held, At
<1>4. cmd'.acc = Worth(held, cmd'.taken)
  BY <1>1, WorthEmpty
<1>5. Taking'
  BY <1>1, <1>2, <1>3, <1>4 DEF Taking
<1>. QED
  BY <1>1, <1>5 DEF TakenInv, Places, Building

LEMMA TakenInvFindEntry ==
    ASSUME IndexInv, PayInv, TakenInv, NEW tx \in cmd.left, FindEntry(tx)
    PROVE  TakenInv'
<1>1. cmd.pc = "find" /\ UNCHANGED vars
  BY DEF FindEntry
<1>2. tx \in DOMAIN index /\ cmd.taken \in Seq(Listed) /\ cmd.acc = Worth(held, cmd.taken)
  BY <1>1 DEF TakenInv, Taking
<1>3. cmd.order.amount \in Int
  BY <1>1, OrderTypes
<1>4. cmd.acc \in Int
  BY <1>2, IndexTypes, WorthInt
<1>5. PICK n \in Nat : n = Len(index[tx]) /\ DOMAIN index[tx] = 1..n
  <2>1. PICK entry \in Seq(TreeOuts(blocks)) : entry = index[tx]
    BY <1>2, IndexTypes
  <2>. QED
    BY <2>1
<1>6. PICK met :
        /\ met \in [0..n -> Founds]
        /\ met[0] = [acc |-> cmd.acc, taken |-> cmd.taken]
        /\ \A i \in 1..n : met[i] = Take(met[i - 1], index[tx][i], tx, i)
        /\ cmd' = [cmd EXCEPT !.left = @ \ {tx}, !.acc = met[n].acc, !.taken = met[n].taken]
  BY <1>2, <1>4, <1>5, EntryLoop
<1>. DEFINE T == {i \in 0..n : Sound(met[i], tx, i)}
<1>7. 0 \in T
  <2>1. met[0].acc = cmd.acc /\ met[0].taken = cmd.taken
    BY <1>6
  <2>2. Sound(met[0], tx, 0)
    BY <1>1, <2>1 DEF Sound, TakenInv, Taking
  <2>. QED
    BY <1>5, <2>2
<1>8. ASSUME NEW i \in 0..(n - 1), i \in T PROVE i + 1 \in T
  <2>1. i \in Nat /\ i \in 0..n /\ i + 1 \in 0..n /\ i + 1 \in 1..n /\ (i + 1) - 1 = i
    BY <1>5
  <2>2. PICK found \in Founds : found = met[i]
    BY <1>6, <2>1
  <2>3. found = [acc |-> found.acc, taken |-> found.taken]
    BY DEF Founds
  <2>4. met[i + 1] = Take(found, index[tx][i + 1], tx, i + 1)
    BY <1>6, <2>1, <2>2
  <2>5. Sound(found, tx, i) /\ i + 1 \in DOMAIN index[tx]
    BY <1>5, <1>8, <2>1, <2>2
  <2>6. Sound(Take(found, index[tx][i + 1], tx, i + 1), tx, i + 1)
    BY <1>2, <1>3, <2>1, <2>3, <2>5, TakeIsSound
  <2>. QED
    BY <2>1, <2>4, <2>6
<1>9. Sound(met[n], tx, n)
  <2>. HIDE DEF T
  <2>1. 0..n \subseteq T
    BY <1>5, <1>7, <1>8, InductionUpTo
  <2>. QED
    BY <1>5, <2>1 DEF T
<1>10. /\ cmd'.pc = "find" /\ cmd'.left = cmd.left \ {tx} /\ cmd'.order = cmd.order
       /\ cmd'.acc = met[n].acc /\ cmd'.taken = met[n].taken /\ index' = index
  <2>1. index' = index
    BY <1>1 DEF vars
  <2>. QED
    BY <1>1, <1>6, <2>1 DEF PayInv, Shape
<1>11. Listed' = Listed /\ held' = held
  BY <1>10 DEF Listed, held, At
<1>12. \A p : At(p)' = At(p)
  BY <1>10 DEF At
<1>13. Taking'
  <2>1. cmd'.left \subseteq DOMAIN index'
    BY <1>1, <1>10 DEF TakenInv, Taking
  <2>2. ASSUME NEW p \in ToSet(met[n].taken)
        PROVE  At(p).owner = cmd.order.from /\ p.tx \notin cmd.left \ {tx}
    BY <1>9 DEF Sound
  <2>3. /\ met[n].taken \in Seq(Listed) /\ IsInjective(met[n].taken)
        /\ met[n].acc = Worth(held, met[n].taken)
    BY <1>9 DEF Sound
  <2>. QED
    BY <1>10, <1>11, <1>12, <2>1, <2>2, <2>3 DEF Taking
<1>. QED
  BY <1>10, <1>13 DEF TakenInv, Places, Building

\* The amount and the change add up to what was taken.
LEMMA OutputsAddUp ==
    ASSUME NEW order, order.amount \in Int, NEW acc \in Int, acc >= order.amount
    PROVE  /\ Values(Outputs(order, acc)) = acc
           /\ [value |-> order.amount, owner |-> order.to] \in ToSet(Outputs(order, acc))
<1>. DEFINE pay == [value |-> order.amount, owner |-> order.to]
            back == [value |-> acc - order.amount, owner |-> order.from]
<1>1. PICK p, b, O : p = pay /\ b = back /\ O = {p, b}
  OBVIOUS
<1>2. p.value = order.amount /\ b.value = acc - order.amount /\ p \in O /\ b \in O
  BY <1>1
<1>3. Valued(O)
  BY <1>1, <1>2 DEF Valued
<1>4. PICK none \in Seq(O) : none = <<>> /\ Values(none) = 0
  <2>1. <<>> \in Seq(O)
    OBVIOUS
  <2>. QED
    BY <2>1, ValuesEmpty
<1>5. PICK one \in Seq(O) : /\ one = <<p>> /\ one = Append(none, p)
                            /\ one \o <<>> = one /\ one \o <<b>> = Append(one, b)
  <2>1. <<p>> \in Seq(O) /\ <<p>> = Append(<<>>, p) /\ <<p>> \o <<>> = <<p>>
        /\ <<p>> \o <<b>> = Append(<<p>>, b)
    BY <1>2
  <2>. QED
    BY <1>4, <2>1
<1>6. Values(one) = order.amount
  <2>1. Values(Append(none, p)) = Values(none) + p.value
    BY <1>2, <1>3, ValuesAppend
  <2>2. Values(one) = 0 + p.value
    BY <1>4, <1>5, <2>1, Zenon
  <2>. QED
    BY <1>2, <2>2
<1>7. Values(Append(one, b)) = Values(one) + b.value
  BY <1>2, <1>3, ValuesAppend
<1>8. p \in ToSet(one) /\ p \in ToSet(Append(one, b))
  <2>1. ToSet(Append(none, p)) = ToSet(none) \cup {p}
    BY <1>2, AppendElements
  <2>2. ToSet(Append(one, b)) = ToSet(one) \cup {b}
    BY <1>2, AppendElements
  <2>. QED
    BY <1>5, <2>1, <2>2
<1>9. CASE acc > order.amount
  <2>1. Outputs(order, acc) = Append(one, b)
    BY <1>1, <1>5, <1>9 DEF Outputs
  <2>2. Values(Append(one, b)) = acc
    BY <1>2, <1>6, <1>7
  <2>. QED
    BY <1>1, <1>8, <2>1, <2>2, Zenon
<1>10. CASE acc = order.amount
  <2>1. Outputs(order, acc) = one
    <3>1. ~(acc > order.amount)
      BY <1>10
    <3>2. Outputs(order, acc) = <<pay>> \o <<>>
      BY <3>1, Zenon DEF Outputs
    <3>3. <<pay>> = one
      BY <1>1, <1>5
    <3>4. <<pay>> \o <<>> = one \o <<>>
      BY <3>3, Zenon
    <3>. QED
      BY <1>5, <3>2, <3>4, Zenon
  <2>. QED
    BY <1>1, <1>6, <1>8, <1>10, <2>1, Zenon
<1>. QED
  BY <1>9, <1>10

LEMMA TakenInvBuild ==
    ASSUME IndexInv, PayInv, TakenInv, Build
    PROVE  TakenInv'
<1>1. PICK ins \in Inputs(cmd.taken) :
          cmd' = [cmd EXCEPT !.pc = "sign", !.taken = <<>>,
                    !.tx = [ins  |-> ins,
                            key  |-> PubKey(cmd.order.from),
                            sigs |-> <<>>,
                            outs |-> Outputs(cmd.order, cmd.acc)]]
  BY DEF Build
<1>2. cmd.pc = "find" /\ UNCHANGED vars /\ cmd.acc >= cmd.order.amount
  BY DEF Build
<1>3. /\ cmd'.pc = "sign" /\ cmd'.taken = <<>> /\ cmd'.order = cmd.order
      /\ cmd'.tx.ins = ins /\ cmd'.tx.outs = Outputs(cmd.order, cmd.acc)
  BY <1>1 DEF PayInv, Shape
<1>4. index' = index
  BY <1>2 DEF vars
<1>5. Listed' = Listed /\ held' = held /\ \A p : At(p)' = At(p)
  BY <1>4 DEF Listed, held, At
<1>6. /\ cmd.taken \in Seq(Listed) /\ IsInjective(cmd.taken)
      /\ \A p \in ToSet(cmd.taken) : At(p).owner = cmd.order.from
      /\ cmd.acc = Worth(held, cmd.taken)
  BY <1>2 DEF TakenInv, Taking
<1>7. ins \in Seq(Listed) /\ IsInjective(ins) /\ ToSet(ins) = ToSet(cmd.taken)
  BY <1>6, InputsAreTaken
<1>8. Worth(held, ins) = cmd.acc /\ cmd.acc \in Int
  BY <1>6, IndexTypes, InputsAreWorth, WorthInt
<1>9. /\ Values(cmd'.tx.outs) = cmd.acc
      /\ [value |-> cmd.order.amount, owner |-> cmd.order.to] \in ToSet(cmd'.tx.outs)
  BY <1>2, <1>3, <1>8, OrderTypes, OutputsAddUp
<1>10. Building'
  BY <1>3, <1>5, <1>6, <1>7, <1>8, <1>9 DEF Building
<1>. QED
  BY <1>3, <1>10 DEF TakenInv, Places, Taking

LEMMA TakenInvSign ==
    ASSUME PayInv, TakenInv, Sign
    PROVE  TakenInv'
<1>1. cmd.pc = "sign" /\ UNCHANGED vars
  BY DEF Sign
<1>2. PICK sig : cmd' = [cmd EXCEPT !.tx.sigs = Append(@, sig)]
  BY DEF Sign
<1>3. /\ cmd'.pc = "sign" /\ cmd'.taken = cmd.taken /\ cmd'.order = cmd.order
      /\ cmd'.tx.ins = cmd.tx.ins /\ cmd'.tx.outs = cmd.tx.outs
  BY <1>1, <1>2 DEF PayInv, Shape
<1>4. index' = index
  BY <1>1 DEF vars
<1>5. Listed' = Listed /\ held' = held /\ \A p : At(p)' = At(p)
  BY <1>4 DEF Listed, held, At
<1>6. Building'
  BY <1>1, <1>3, <1>5 DEF TakenInv, Building
<1>. QED
  BY <1>1, <1>3, <1>6 DEF TakenInv, Places, Taking

LEMMA TakenInvIdle ==
    ASSUME TakenInv, UNCHANGED cmd, cmd.pc = "off" \/ index' = index
    PROVE  TakenInv'
<1>1. CASE cmd.pc = "off"
  BY <1>1 DEF TakenInv, Places, Taking, Building
<1>2. CASE index' = index
  <2>1. Listed' = Listed /\ held' = held /\ \A p : At(p)' = At(p)
    BY <1>2 DEF Listed, held, At
  <2>. QED
    BY <2>1 DEF TakenInv, Places, Taking, Building
<1>. QED
  BY <1>1, <1>2

\* What send has taken is the sender's, each output once, and worth what is counted,
\* for any index it may find and any order of the keys.
THEOREM TakenInvariance == PaySpec => []TakenInv
<1>1. PayInit => TakenInv
  BY TakenInvOfNoCmd DEF PayInit
<1>2. IndexInv /\ PayInv /\ TakenInv /\ [PayNext]_payVars => TakenInv'
  <2>. SUFFICES ASSUME IndexInv, PayInv, TakenInv, [PayNext]_payVars
                PROVE  TakenInv'
    OBVIOUS
  <2>1. ASSUME cmd' = NoCmd PROVE TakenInv'
    <3>1. cmd'.pc = "off" /\ cmd'.taken = <<>>
      BY <2>1 DEF NoCmd
    <3>. QED
      BY <3>1 DEF TakenInv, Places, Taking, Building
  <2>2. CASE \E order \in Orders : Send(order)
    BY <2>2, TakenInvSend
  <2>3. CASE \E tx \in cmd.left : FindEntry(tx)
    BY <2>3, TakenInvFindEntry
  <2>4. CASE Build
    BY <2>4, TakenInvBuild
  <2>5. CASE Sign
    BY <2>5, TakenInvSign
  <2>6. CASE NotEnoughFunds \/ SignPanics \/ Submit \/ PayKill
    BY <2>1, <2>6 DEF NotEnoughFunds, SignPanics, Submit, PayKill, Exit
  <2>7. CASE NodeStep /\ UNCHANGED cmd
    BY <2>7, NodeIsDown, TakenInvIdle
  <2>8. CASE UNCHANGED payVars
    BY <2>8, TakenInvIdle DEF payVars, vars
  <2>. QED
    BY <2>2, <2>3, <2>4, <2>5, <2>6, <2>7, <2>8 DEF PayNext, SendStep
<1>. QED
  BY <1>1, <1>2, IndexInvariance, PayInvariance, PTL DEF PaySpec

--------------------------------------------------------------------------
(* What follows for payments. *)

\* With no block missing, all of the chain is found.
LEMMA CompleteIsFound ==
    ASSUME UtxoTypes, Complete(tip)
    PROVE  Found = OnChain(tip)
<1>1. PICK n \in Nat : n = Len(tip) /\ DOMAIN tip = 1..n
  BY TipIsChain, ChainOfTxs
<1>2. \A k \in 1..n : \A i \in k..n : SubSeq(tip, 1, i) \in stored
  BY <1>1 DEF Complete
<1>3. {k \in DOMAIN tip : \A i \in k..Len(tip) : SubSeq(tip, 1, i) \in stored} = DOMAIN tip
  BY <1>1, <1>2
<1>4. Found = Txs(tip)
  BY <1>3 DEF Found, Txs
<1>. QED
  BY <1>4, TipIsChain, WalkMeetsTheChain

\* With no block missing, no transaction repeated and nothing left of another fork,
\* all that send puts into a transaction is on the chain, also if the index is old,
\* mixed or half rebuilt: it can be signed.
THEOREM AlwaysSigns == PaySpec => []SignsUnlessRepeated
<1>1. IndexInv /\ TakenInv => SignsUnlessRepeated
  <2>. SUFFICES ASSUME IndexInv, TakenInv, cmd.pc = "sign", Complete(tip), NoRepeats(tip),
                       \A chain \in walked : IsPrefix(chain, tip),
                       NEW p \in ToSet(cmd.tx.ins)
                PROVE  Resolves(p)
    BY DEF SignsUnlessRepeated
  <2>1. p \in Listed
    <3>1. PICK ins \in Seq(Listed) : ins = cmd.tx.ins
      BY DEF TakenInv, Building
    <3>. QED
      BY <3>1 DEF ToSet
  <2>2. p.tx \in DOMAIN index /\ p.out \in DOMAIN index[p.tx]
    BY <2>1, IndexTypes
  <2>3. p.tx \in OnChain(tip) /\ DOMAIN index[p.tx] \subseteq DOMAIN p.tx.outs
    BY <2>2, EntriesFit DEF IndexInv
  <2>4. Found = OnChain(tip)
    BY CompleteIsFound DEF IndexInv, UtxoInv
  <2>. QED
    BY <2>2, <2>3, <2>4 DEF Resolves
<1>. QED
  BY <1>1, TakenInvariance, IndexInvariance, PTL

\* From the exact index of the tip, without gaps, a payment spends unspent outputs of the sender,
\* each of them once, and pays the amount to the receiver.
THEOREM SpendsWhatIsUnspent == PaySpec => []SpendsUnspent
<1>1. IndexInv /\ TakenInv => SpendsUnspent
  <2>. SUFFICES ASSUME IndexInv, TakenInv, cmd.pc = "sign", UpToDate,
                       NoRepeats(tip), Gapless
                PROVE  /\ IsInjective(cmd.tx.ins)
                       /\ \A p \in ToSet(cmd.tx.ins) :
                             p \in Unspent(tip) /\ p.tx.outs[p.out].owner = cmd.order.from
                       /\ [value |-> cmd.order.amount, owner |-> cmd.order.to]
                             \in ToSet(cmd.tx.outs)
    BY DEF SpendsUnspent
  <2>1. /\ IsInjective(cmd.tx.ins)
        /\ [value |-> cmd.order.amount, owner |-> cmd.order.to] \in ToSet(cmd.tx.outs)
    BY DEF TakenInv, Building
  <2>2. ASSUME NEW p \in ToSet(cmd.tx.ins)
        PROVE  p \in Unspent(tip) /\ p.tx.outs[p.out].owner = cmd.order.from
    <3>1. p \in Listed /\ At(p).owner = cmd.order.from
      <4>1. PICK ins \in Seq(Listed) : ins = cmd.tx.ins
        BY DEF TakenInv, Building
      <4>. QED
        BY <4>1 DEF ToSet, TakenInv, Building
    <3>2. /\ p = Outpoint(p.tx, p.out)
          /\ p.tx \in DOMAIN index /\ p.out \in DOMAIN index[p.tx]
      BY <3>1, IndexTypes
    <3>4. NoGaps(p.tx)
      BY DEF Gapless
    <3>5. PICK m : /\ Positions(p.tx) = 1..m
                   /\ DOMAIN index[p.tx] = 1..m
                   /\ \A k \in 1..m : index[p.tx][k] = p.tx.outs[k]
      BY <3>2, <3>4, GaplessEntry DEF IndexInv
    <3>6. p.out \in Positions(p.tx) /\ p.tx.outs[p.out] = At(p)
      BY <3>2, <3>5 DEF At
    <3>7. p \in Unspent(tip)
      BY <3>2, <3>6 DEF Positions
    <3>. QED
      BY <3>1, <3>6, <3>7
  <2>. QED
    BY <2>1, <2>2
<1>. QED
  BY <1>1, TakenInvariance, IndexInvariance, PTL

\* A transaction spends what the outputs that it names hold on the chain, if the
\* entries it takes from have the positions of their transactions, whatever they are
\* otherwise.
THEOREM ValueIsAlwaysConserved == PaySpec => []ValueIsConserved
<1>1. IndexInv /\ TakenInv => ValueIsConserved
  <2>. SUFFICES ASSUME IndexInv, TakenInv, cmd.pc = "sign", Aligned
                PROVE  Values(cmd.tx.outs) = Values([k \in DOMAIN cmd.tx.ins |->
                                  cmd.tx.ins[k].tx.outs[cmd.tx.ins[k].out]])
    BY DEF ValueIsConserved
  <2>1. PICK ins \in Seq(Listed) : ins = cmd.tx.ins
    BY DEF TakenInv, Building
  <2>2. Values(cmd.tx.outs) = Worth(held, ins)
    BY <2>1 DEF TakenInv, Building
  <2>3. ASSUME NEW k \in DOMAIN ins PROVE held[ins[k]] = ins[k].tx.outs[ins[k].out]
    <3>1. PICK p \in Listed : p = ins[k]
      OBVIOUS
    <3>2. p.tx \in DOMAIN index /\ p.out \in DOMAIN index[p.tx] /\ held[p] = index[p.tx][p.out]
      BY IndexTypes DEF At
    <3>3. p \in ToSet(cmd.tx.ins)
      BY <2>1, <3>1 DEF ToSet
    <3>4. IsPrefix(index[p.tx], p.tx.outs)
      BY <3>3 DEF Aligned
    <3>5. PICK entry \in Seq(TreeOuts(blocks)) : entry = index[p.tx]
      BY <3>2, IndexTypes
    <3>6. PICK O : p.tx.outs \in Seq(O)
      <4>1. PICK block \in blocks : p.tx \in Txs(block)
        BY <3>2, IndexesType DEF IndexInv, UtxoInv, UtxoTypes, TreeTxs
      <4>2. IsChain(block)
        BY FoundType DEF IndexInv, UtxoInv, UtxoTypes
      <4>. QED
        BY <4>1, <4>2, ListsOfTx
    <3>outs. PICK outs \in Seq(O) : outs = p.tx.outs
      BY <3>6
    <3>7. entry = SubSeq(outs, 1, Len(entry)) /\ Len(entry) <= Len(outs)
      BY <3>4, <3>5, <3>outs DEF IsPrefix
    <3>8. entry[p.out] = outs[p.out]
      BY <3>2, <3>5, <3>7
    <3>. QED
      BY <3>1, <3>2, <3>5, <3>outs, <3>8
  <2>4. [k \in DOMAIN ins |-> held[ins[k]]] = [k \in DOMAIN ins |-> ins[k].tx.outs[ins[k].out]]
    BY <2>3
  <2>. QED
    BY <2>1, <2>2, <2>4 DEF Worth
<1>. QED
  BY <1>1, TakenInvariance, IndexInvariance, PTL

--------------------------------------------------------------------------
(* getbalance. *)

\* What an owner has in each entry of the index.
OwnedBy(owner) == [tx \in DOMAIN index |-> Owned(tx, owner)]

LEMMA OwnedType ==
    ASSUME IndexInv, NEW owner
    PROVE  OwnedBy(owner) \in [DOMAIN index -> Int]
<1>. SUFFICES ASSUME NEW tx \in DOMAIN index PROVE Owned(tx, owner) \in Int
  BY DEF OwnedBy
<1>1. PICK entry \in Seq(TreeOuts(blocks)) : entry = index[tx]
  BY IndexTypes
<1>. DEFINE ks == {k \in DOMAIN entry : entry[k].owner = owner}
<1>2. PICK list \in Seq(TreeOuts(blocks)) : list = Chosen(entry, ks)
  BY ChosenHolds
<1>3. PICK sum : Summing(sum, list)
  BY IndexTypes, ValuesLoop
<1>4. Values(list) \in Int
  <2>1. Len(list) \in 0..Len(list)
    OBVIOUS
  <2>. QED
    BY <1>3, <2>1 DEF Summing
<1>. QED
  BY <1>1, <1>2, <1>4 DEF Owned

LEMMA IndexIsFinite ==
    ASSUME IndexInv
    PROVE  IsFiniteSet(DOMAIN index)
BY IndexesType DEF IndexInv, UtxoInv, UtxoTypes

\* The balance is the sum over the entries, whatever the order they come in.
LEMMA BalanceAdds ==
    ASSUME IndexInv, NEW owner
    PROVE  \E F : /\ Additive(F, OwnedBy(owner), DOMAIN index)
                  /\ Balance(owner) = F[DOMAIN index]
<1>1. PICK P, g : P = DOMAIN index /\ g = OwnedBy(owner)
  OBVIOUS
<1>2. IsFiniteSet(P) /\ g \in [P -> Int] /\ \A tx \in P : g[tx] = Owned(tx, owner)
  BY <1>1, IndexIsFinite, OwnedType DEF OwnedBy
<1>3. PICK F : Additive(F, g, P)
  BY <1>2, AdditiveExists
<1>4. Folding(F, g, P)
  BY <1>2, <1>3, AdditiveIsFolding
<1>. DEFINE Fold(f) == [s \in SUBSET P |->
                          IF s = {} THEN 0
                          ELSE Owned(CHOOSE x \in s : TRUE, owner)
                                 + f[s \ {CHOOSE x \in s : TRUE}]]
            f == CHOOSE f : f = Fold(f)
<1>5. Balance(owner) = f[P]
  BY <1>1 DEF Balance, MapThenSumSet, MapThenFoldSet
<1>6. ASSUME NEW h PROVE h = Fold(h) <=> Folding(h, g, P)
  <2>1. \A s \in SUBSET P : s # {} =>
          g[CHOOSE x \in s : TRUE] = Owned(CHOOSE x \in s : TRUE, owner)
    BY <1>2
  <2>. DEFINE other == [s \in SUBSET P |-> IF s = {} THEN 0
                                         ELSE g[CHOOSE x \in s : TRUE]
                                                + h[s \ {CHOOSE x \in s : TRUE}]]
  <2>2. Fold(h) = other
    BY <2>1
  <2>. QED
    BY <2>2 DEF Folding
<1>7. f = Fold(f)
  <2>. HIDE DEF Fold
  <2>1. F = Fold(F)
    BY <1>4, <1>6
  <2>. QED
    BY <2>1
<1>. HIDE DEF f, Fold
<1>8. f[P] = F[P]
  BY <1>2, <1>4, <1>6, <1>7, FoldingIsAdditive
<1>. QED
  BY <1>1, <1>3, <1>5, <1>8

\* What has been counted: all that the sender has in the entries met, or enough.
Counted ==
    cmd.pc = "find" =>
        \A F : Additive(F, OwnedBy(cmd.order.from), DOMAIN index) =>
            LET met == DOMAIN index \ cmd.left
            IN  /\ cmd.acc <= F[met]
                /\ cmd.acc < cmd.order.amount => cmd.acc = F[met]

\* An entry adds all that the sender has in it, or as much as makes the amount.
LEMMA EntryCounts ==
    ASSUME IndexInv, PayInv, TakenInv, NEW tx \in cmd.left, FindEntry(tx)
    PROVE  LET all == cmd.acc + Owned(tx, cmd.order.from)
           IN  /\ cmd'.acc \in Int /\ cmd.acc \in Int
               /\ cmd.acc <= cmd'.acc /\ cmd'.acc <= all
               /\ cmd'.acc < cmd.order.amount => cmd'.acc = all
<1>1. cmd.pc = "find" /\ UNCHANGED vars
  BY DEF FindEntry
<1>2. tx \in DOMAIN index /\ cmd.taken \in Seq(Listed) /\ cmd.acc = Worth(held, cmd.taken)
  BY <1>1 DEF TakenInv, Taking
<1>3. cmd.order.amount \in Int
  BY <1>1, OrderTypes
<1>4. cmd.acc \in Int
  BY <1>2, IndexTypes, WorthInt
<1>5. PICK entry \in Seq(TreeOuts(blocks)) : entry = index[tx]
  BY <1>2, IndexTypes
<1>6. PICK n \in Nat : n = Len(entry) /\ DOMAIN entry = 1..n /\ n \in 0..n /\ 0 \in 0..n
  <2>1. PICK n \in Nat : n = Len(entry)
    OBVIOUS
  <2>. QED
    BY <2>1
<1>7. PICK met :
        /\ met \in [0..n -> Founds]
        /\ met[0] = [acc |-> cmd.acc, taken |-> cmd.taken]
        /\ \A i \in 1..n : met[i] = Take(met[i - 1], entry[i], tx, i)
        /\ cmd' = [cmd EXCEPT !.left = @ \ {tx}, !.acc = met[n].acc, !.taken = met[n].taken]
  BY <1>2, <1>4, <1>5, <1>6, EntryLoop
<1>8. \A i \in 0..n : met[i].acc \in Int
  BY <1>7 DEF Founds
<1>9. \A i \in 1..n : entry[i] \in TreeOuts(blocks) /\ entry[i].value \in Nat
  <2>1. \A out \in TreeOuts(blocks) : out.value \in Nat
    BY NoDebts DEF IndexInv, UtxoInv
  <2>. QED
    BY <1>6, <2>1
<1>. DEFINE from == cmd.order.from
            amount == cmd.order.amount
            ks == {k \in DOMAIN entry : entry[k].owner = from}
<1>10. PICK list : Choice(list, entry, ks, TreeOuts(blocks))
  BY ChosenLoop
<1>11. /\ list \in [0..n -> Seq(TreeOuts(blocks))] /\ list[0] = <<>>
       /\ \A i \in 1..n : list[i] = IF entry[i].owner = from THEN Append(list[i - 1], entry[i])
                                   ELSE list[i - 1]
       /\ Owned(tx, from) = Values(list[n])
  BY <1>5, <1>6, <1>10 DEF Choice, Owned
<1>12. PICK v : v = [i \in 0..n |-> Values(list[i])]
  OBVIOUS
<1>13. v[0] = 0 /\ Owned(tx, from) = v[n]
  BY <1>6, <1>11, <1>12, ValuesEmpty
<1>14. ASSUME NEW i \in 1..n, v[i - 1] \in Int
       PROVE  /\ v[i] \in Int
              /\ v[i] = IF entry[i].owner = from THEN v[i - 1] + entry[i].value ELSE v[i - 1]
  <2>1. i \in 0..n /\ i - 1 \in 0..n
    BY <1>6
  <2>2. v[i] = Values(list[i]) /\ v[i - 1] = Values(list[i - 1])
    BY <1>12, <2>1
  <2>3. CASE entry[i].owner = from
    <3>1. PICK l \in Seq(TreeOuts(blocks)), o \in TreeOuts(blocks) : l = list[i - 1] /\ o = entry[i]
      BY <1>9, <1>11, <2>1
    <3>2. Values(Append(l, o)) = Values(l) + o.value
      BY IndexTypes, ValuesAppend
    <3>3. v[i] = v[i - 1] + entry[i].value
      BY <1>11, <2>2, <2>3, <3>1, <3>2
    <3>. QED
      BY <1>9, <1>14, <2>3, <3>3
  <2>4. CASE entry[i].owner # from
    BY <1>11, <1>14, <2>2, <2>4
  <2>. QED
    BY <2>3, <2>4
<1>. DEFINE T == {i \in 0..n : /\ v[i] \in Int
                               /\ cmd.acc <= met[i].acc /\ met[i].acc <= cmd.acc + v[i]
                               /\ met[i].acc < amount => met[i].acc = cmd.acc + v[i]}
<1>15. 0 \in T
  <2>1. met[0].acc = cmd.acc
    BY <1>7
  <2>. QED
    BY <1>4, <1>6, <1>13, <2>1
<1>16. ASSUME NEW i \in 0..(n - 1), i \in T PROVE i + 1 \in T
  <2>1. i \in Nat /\ i \in 0..n /\ i + 1 \in 0..n /\ i + 1 \in 1..n /\ (i + 1) - 1 = i
    BY <1>6
  <2>2. v[i] \in Int /\ v[i + 1] \in Int
        /\ v[i + 1] = IF entry[i + 1].owner = from THEN v[i] + entry[i + 1].value ELSE v[i]
    BY <1>14, <1>16, <2>1
  <2>3. PICK acc \in Int : acc = met[i].acc
    BY <1>8, <2>1
  <2>4. PICK was \in Int : was = v[i]
    BY <2>2
  <2>5. PICK value \in Nat : value = entry[i + 1].value
    BY <1>9, <2>1
  <2>6. /\ cmd.acc <= acc /\ acc <= cmd.acc + was
        /\ acc < amount => acc = cmd.acc + was
    BY <1>16, <2>3, <2>4
  <2>7. CASE entry[i + 1].owner = from /\ acc < amount
    <3>1. v[i + 1] = was + value
      BY <2>2, <2>4, <2>5, <2>7
    <3>2. met[i + 1] = Take(met[i], entry[i + 1], tx, i + 1)
      BY <1>7, <2>1
    <3>3. met[i + 1].acc = acc + value
      BY <2>3, <2>5, <2>7, <3>2 DEF Take
    <3>4. PICK base \in Int : base = cmd.acc
      BY <1>4
    <3>5. /\ base <= acc + value /\ acc + value <= base + (was + value)
          /\ acc + value = base + (was + value)
      BY <2>6, <2>7, <3>4
    <3>. QED
      BY <2>1, <2>2, <3>1, <3>3, <3>4, <3>5
  <2>8. CASE ~(entry[i + 1].owner = from /\ acc < amount)
    <3>1. met[i + 1] = Take(met[i], entry[i + 1], tx, i + 1)
      BY <1>7, <2>1
    <3>2. met[i + 1].acc = acc
      BY <2>3, <2>8, <3>1 DEF Take
    <3>3. v[i + 1] = was \/ (v[i + 1] = was + value /\ ~(acc < amount))
      BY <2>2, <2>4, <2>5, <2>8
    <3>4. PICK is \in Int, base \in Int : is = v[i + 1] /\ base = cmd.acc
      BY <1>4, <2>2
    <3>5. /\ base <= acc /\ acc <= base + is
          /\ acc < amount => acc = base + is
      <4>1. CASE is = was
        BY <2>6, <3>4, <4>1
      <4>2. CASE is = was + value /\ ~(acc < amount)
        BY <2>6, <3>4, <4>2
      <4>. QED
        BY <3>3, <3>4, <4>1, <4>2
    <3>. QED
      BY <2>1, <2>2, <3>2, <3>4, <3>5
  <2>. QED
    BY <2>7, <2>8
<1>17. n \in T
  <2>. HIDE DEF T
  <2>1. 0..n \subseteq T
    BY <1>6, <1>15, <1>16, InductionUpTo
  <2>. QED
    BY <1>6, <2>1
<1>18. cmd'.acc = met[n].acc
  BY <1>7 DEF PayInv, Shape
<1>. QED
  BY <1>4, <1>6, <1>8, <1>13, <1>17, <1>18

LEMMA CountedSend ==
    ASSUME NEW order \in Orders, Send(order)
    PROVE  Counted'
<1>1. /\ cmd'.pc = "find" /\ cmd'.left = DOMAIN index /\ cmd'.acc = 0 /\ cmd'.order = order
      /\ index' = index
  BY DEF Send, NoCmd
<1>2. OwnedBy(cmd.order.from)' = OwnedBy(order.from)
  BY <1>1 DEF OwnedBy, Owned
<1>. SUFFICES ASSUME NEW F, Additive(F, OwnedBy(order.from), DOMAIN index)
              PROVE  0 <= F[{}] /\ 0 = F[{}]
  <2>1. DOMAIN index' \ cmd'.left = {}
    BY <1>1
  <2>. QED
    BY <1>1, <1>2, <2>1 DEF Counted
<1>. QED
  BY DEF Additive

LEMMA CountedFindEntry ==
    ASSUME IndexInv, PayInv, TakenInv, Counted, NEW tx \in cmd.left, FindEntry(tx)
    PROVE  Counted'
<1>1. cmd.pc = "find" /\ UNCHANGED vars
  BY DEF FindEntry
<1>2. PICK left, from : left = cmd.left /\ from = cmd.order.from
  OBVIOUS
<1>3. PICK amount \in Int : amount = cmd.order.amount
  BY <1>1, OrderTypes
<1>4. PICK acc \in Int, next \in Int : acc = cmd.acc /\ next = cmd'.acc
  BY EntryCounts
<1>5. cmd'.left = left \ {tx} /\ cmd'.order = cmd.order /\ index' = index
  <2>1. PICK found :
          cmd' = [cmd EXCEPT !.left = @ \ {tx}, !.acc = found.acc, !.taken = found.taken]
    BY DEF FindEntry
  <2>. QED
    BY <1>1, <1>2, <2>1 DEF PayInv, Shape, vars
<1>6. OwnedBy(cmd.order.from)' = OwnedBy(from)
  BY <1>2, <1>5 DEF OwnedBy, Owned
<1>. SUFFICES ASSUME NEW F, Additive(F, OwnedBy(from), DOMAIN index)
              PROVE  LET met == DOMAIN index \ (left \ {tx})
                     IN  next <= F[met] /\ (next < amount => next = F[met])
  BY <1>2, <1>5, <1>6, <1>3, <1>4 DEF Counted
<1>7. PICK met : met = DOMAIN index \ left
  OBVIOUS
<1>8. tx \in DOMAIN index /\ tx \in left /\ left \subseteq DOMAIN index
  BY <1>1, <1>2 DEF TakenInv, Taking
<1>9. DOMAIN index \ (left \ {tx}) = met \cup {tx} /\ tx \in DOMAIN index \ met
      /\ met \in SUBSET DOMAIN index
  BY <1>7, <1>8
<1>10. PICK own \in Int : own = Owned(tx, from) /\ OwnedBy(from)[tx] = own
  BY <1>8, OwnedType DEF OwnedBy
<1>11. F[met \cup {tx}] = F[met] + own /\ F[met] \in Int
  BY <1>9, <1>10 DEF Additive
<1>12. acc <= F[met] /\ (acc < amount => acc = F[met])
  BY <1>1, <1>2, <1>7, <1>3, <1>4 DEF Counted
<1>13. /\ acc <= next /\ next <= acc + own
       /\ next < amount => next = acc + own
  BY <1>2, <1>10, <1>3, <1>4, EntryCounts
<1>14. PICK sum \in Int : sum = F[met]
  BY <1>11
<1>15. next <= sum + own /\ (next < amount => next = sum + own)
  BY <1>12, <1>13, <1>14
<1>. QED
  BY <1>9, <1>11, <1>14, <1>15

\* As long as the search goes on, what is counted is all that the sender has in the
\* entries met so far, or already enough.
LEMMA CountedInvariance == PaySpec => []Counted
<1>1. PayInit => Counted
  <2>. SUFFICES ASSUME cmd = NoCmd PROVE Counted
    BY DEF PayInit
  <2>1. cmd.pc = "off"
    BY DEF NoCmd
  <2>. QED
    BY <2>1 DEF Counted
<1>2. IndexInv /\ PayInv /\ TakenInv /\ Counted /\ [PayNext]_payVars => Counted'
  <2>. SUFFICES ASSUME IndexInv, PayInv, TakenInv, Counted, [PayNext]_payVars
                PROVE  Counted'
    OBVIOUS
  <2>1. ASSUME cmd' = NoCmd PROVE Counted'
    <3>1. cmd'.pc = "off"
      BY <2>1 DEF NoCmd
    <3>. QED
      BY <3>1 DEF Counted
  <2>2. CASE \E order \in Orders : Send(order)
    BY <2>2, CountedSend
  <2>3. CASE \E tx \in cmd.left : FindEntry(tx)
    BY <2>3, CountedFindEntry
  <2>4. CASE Build \/ Sign
    <3>1. ASSUME cmd'.pc = "sign" PROVE Counted'
      BY <3>1 DEF Counted
    <3>2. cmd'.pc = "sign"
      BY <2>4 DEF Build, Sign, PayInv, Shape
    <3>. QED
      BY <3>1, <3>2
  <2>5. CASE NotEnoughFunds \/ SignPanics \/ Submit \/ PayKill
    BY <2>1, <2>5 DEF NotEnoughFunds, SignPanics, Submit, PayKill, Exit
  <2>6. ASSUME UNCHANGED cmd, cmd.pc = "off" \/ index' = index PROVE Counted'
    <3>1. CASE cmd.pc = "off"
      BY <2>6, <3>1 DEF Counted
    <3>2. CASE index' = index
      <4>1. OwnedBy(cmd.order.from)' = OwnedBy(cmd.order.from)
        BY <2>6, <3>2 DEF OwnedBy, Owned
      <4>. QED
        BY <2>6, <3>2, <4>1 DEF Counted
    <3>. QED
      BY <2>6, <3>1, <3>2
  <2>7. CASE NodeStep /\ UNCHANGED cmd
    BY <2>6, <2>7, NodeIsDown
  <2>8. CASE UNCHANGED payVars
    BY <2>6, <2>8 DEF payVars, vars
  <2>. QED
    BY <2>2, <2>3, <2>4, <2>5, <2>7, <2>8 DEF PayNext, SendStep
<1>. QED
  BY <1>1, <1>2, IndexInvariance, PayInvariance, TakenInvariance, PTL DEF PaySpec

\* send refuses a payment exactly if getbalance shows less than the amount, whatever
\* index the two find and in whatever order its keys come.
THEOREM BalanceIsAlwaysSpendable == PaySpec => []BalanceIsSpendable
<1>1. IndexInv /\ PayInv /\ TakenInv /\ Counted => BalanceIsSpendable
  <2>. SUFFICES ASSUME IndexInv, PayInv, TakenInv, Counted, cmd.pc = "find", cmd.left = {}
                PROVE  cmd.acc >= cmd.order.amount
                         <=> Balance(cmd.order.from) >= cmd.order.amount
    BY DEF BalanceIsSpendable
  <2>1. PICK from : from = cmd.order.from
    OBVIOUS
  <2>2. PICK amount \in Int : amount = cmd.order.amount
    BY OrderTypes
  <2>3. PICK acc \in Int : acc = cmd.acc
    <3>1. cmd.taken \in Seq(Listed) /\ cmd.acc = Worth(held, cmd.taken)
      BY DEF TakenInv, Taking
    <3>. QED
      BY <3>1, IndexTypes, WorthInt
  <2>4. PICK F : /\ Additive(F, OwnedBy(from), DOMAIN index)
                 /\ Balance(from) = F[DOMAIN index]
    BY BalanceAdds
  <2>5. PICK sum \in Int : sum = F[DOMAIN index]
    <3>1. DOMAIN index \in SUBSET DOMAIN index
      OBVIOUS
    <3>. QED
      BY <2>4, <3>1 DEF Additive
  <2>6. DOMAIN index \ cmd.left = DOMAIN index
    OBVIOUS
  <2>7. acc <= sum /\ (acc < amount => acc = sum)
    BY <2>1, <2>4, <2>5, <2>6, <2>2, <2>3 DEF Counted
  <2>8. acc >= amount <=> sum >= amount
    BY <2>7
  <2>. QED
    BY <2>1, <2>4, <2>5, <2>8, <2>2, <2>3
<1>. QED
  BY <1>1, IndexInvariance, PayInvariance, TakenInvariance, CountedInvariance, PTL
==========================================================================
