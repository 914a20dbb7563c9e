------------------------ MODULE WalletFile_proofs ------------------------
(***************************************************************************)
(* No wallet is lost that was made without a rival, for any number of      *)
(* commands and wallets.                                                   *)
(***************************************************************************)
EXTENDS WalletFile, TLAPS

(***************************************************************************)
(* The inductive invariant.  SavedIsKept needs to know that two commands   *)
(* under way know of each other (Rivals): a command without a rival was    *)
(* the only one that held a copy of the file when it wrote.                *)
(***************************************************************************)
Rivals ==
    \A p, q \in Process : p # q /\ Creating(p) /\ Creating(q) => cmd[p].rival

NothingBeforeTheFile == file.is = "absent" => saved = {}

NewIsHeld == \A p \in Process : cmd[p].new \subseteq cmd[p].has

WInv == TypeOK /\ SavedIsKept /\ Rivals /\ NothingBeforeTheFile /\ NewIsHeld

LEMMA WInit == Init => WInv
BY DEF Init, WInv, TypeOK, SavedIsKept, Kept, Rivals, NothingBeforeTheFile, NewIsHeld,
       Creating, NoCmd

LEMMA WLoad ==
    ASSUME WInv, NEW p \in Process, Load(p)
    PROVE  WInv'
<1>. USE DEF WInv, Creating
<1>. DEFINE rivals == {q \in Process \ {p} : Creating(q)}
<1>1. /\ cmd[p].pc = "off" /\ file.is # "empty"
      /\ file' = file /\ saved' = saved /\ exposed' = exposed
      /\ cmd'[p] = [pc |-> "loaded", has |-> file.has, new |-> {}, rival |-> rivals # {}]
      /\ \A q \in Process \ {p} :
            cmd'[q] = IF q \in rivals THEN [cmd[q] EXCEPT !.rival = TRUE] ELSE cmd[q]
  BY DEF Load, Loadable, Loaded
<1>2. \A q \in Process \ {p} :
          /\ cmd'[q].pc = cmd[q].pc /\ cmd'[q].has = cmd[q].has /\ cmd'[q].new = cmd[q].new
          /\ Creating(q) => cmd'[q].rival
  <2>. SUFFICES ASSUME NEW q \in Process \ {p}
                PROVE  /\ cmd'[q].pc = cmd[q].pc /\ cmd'[q].has = cmd[q].has
                       /\ cmd'[q].new = cmd[q].new
                       /\ Creating(q) => cmd'[q].rival
    OBVIOUS
  <2>1. CASE q \in rivals
    BY <1>1, <2>1 DEF TypeOK
  <2>2. CASE q \notin rivals
    BY <1>1, <2>2
  <2>. QED
    BY <2>1, <2>2
<1>3. TypeOK'
  <2>1. (rivals # {}) \in BOOLEAN
    OBVIOUS
  <2>2. cmd' \in [Process -> [pc : {"off", "loaded", "added", "truncated"},
                              has : SUBSET Wallet, new : SUBSET Wallet, rival : BOOLEAN]]
    BY <2>1 DEF Load, Loaded, TypeOK
  <2>. QED
    BY <1>1, <2>2 DEF TypeOK
<1>4. Kept' = Kept /\ Kept \subseteq file.has
  BY <1>1 DEF TypeOK, SavedIsKept, NothingBeforeTheFile, Kept
<1>5. SavedIsKept'
  BY <1>1, <1>2, <1>4 DEF SavedIsKept
<1>6. Rivals'
  <2>. SUFFICES ASSUME NEW q \in Process, NEW r \in Process, q # r,
                       Creating(q)', Creating(r)'
                PROVE  cmd'[q].rival
    BY DEF Rivals
  <2>1. CASE q = p
    <3>1. r \in rivals
      BY <1>2, <2>1
    <3>2. cmd'[p].rival = (rivals # {})
      BY <1>1
    <3>. QED
      BY <2>1, <3>1, <3>2, Zenon
  <2>2. CASE q # p
    BY <1>2, <2>2
  <2>. QED
    BY <2>1, <2>2
<1>7. NothingBeforeTheFile'
  BY <1>1 DEF NothingBeforeTheFile
<1>8. NewIsHeld'
  BY <1>1, <1>2 DEF NewIsHeld
<1>. QED
  BY <1>3, <1>5, <1>6, <1>7, <1>8

LEMMA WAddWallet ==
    ASSUME WInv, NEW p \in Process, NEW w \in Wallet, AddWallet(p, w)
    PROVE  WInv'
<1>. USE DEF WInv, Creating
<1>1. /\ cmd[p].pc = "loaded"
      /\ file' = file /\ saved' = saved /\ exposed' = exposed
      /\ cmd'[p] = [cmd[p] EXCEPT !.pc = "added", !.has = @ \cup {w}, !.new = {w}]
      /\ \A q \in Process \ {p} : cmd'[q] = cmd[q]
  BY DEF AddWallet, TypeOK
<1>2. cmd'[p].pc = "added" /\ cmd'[p].has = cmd[p].has \cup {w} /\ cmd'[p].new = {w}
      /\ cmd'[p].rival = cmd[p].rival
  BY <1>1 DEF TypeOK
<1>3. TypeOK'
  BY <1>1 DEF AddWallet, TypeOK
<1>4. SavedIsKept'
  BY <1>1, <1>2 DEF SavedIsKept, Kept
<1>5. Rivals'
  <2>1. \A q \in Process : (Creating(q)' => Creating(q)) /\ cmd'[q].rival = cmd[q].rival
    BY <1>1, <1>2
  <2>. QED
    BY <2>1, Zenon DEF Rivals
<1>6. NothingBeforeTheFile' /\ NewIsHeld'
  BY <1>1, <1>2 DEF NothingBeforeTheFile, NewIsHeld
<1>. QED
  BY <1>3, <1>4, <1>5, <1>6

LEMMA WTruncate ==
    ASSUME WInv, NEW p \in Process, Truncate(p)
    PROVE  WInv'
<1>. USE DEF WInv, Creating
<1>1. /\ cmd[p].pc = "added" /\ saved' = saved /\ exposed' = exposed
      /\ file' = [is |-> "empty", has |-> {}]
      /\ cmd'[p] = [cmd[p] EXCEPT !.pc = "truncated"]
      /\ \A q \in Process \ {p} : cmd'[q] = cmd[q]
  BY DEF Truncate, TypeOK
<1>2. /\ cmd'[p].pc = "truncated" /\ cmd'[p].has = cmd[p].has /\ cmd'[p].new = cmd[p].new
      /\ cmd'[p].rival = cmd[p].rival
  BY <1>1 DEF TypeOK
<1>3. TypeOK'
  BY <1>1 DEF Truncate, TypeOK
<1>4. SavedIsKept'
  BY <1>1, <1>2 DEF SavedIsKept, Kept
<1>5. Rivals'
  <2>1. \A q \in Process : (Creating(q)' => Creating(q)) /\ cmd'[q].rival = cmd[q].rival
    BY <1>1, <1>2
  <2>. QED
    BY <2>1, Zenon DEF Rivals
<1>6. NothingBeforeTheFile' /\ NewIsHeld'
  BY <1>1, <1>2 DEF NothingBeforeTheFile, NewIsHeld
<1>. QED
  BY <1>3, <1>4, <1>5, <1>6

\* Either the wallet is exposed, or nobody else holds a copy of the file.
LEMMA WWrite ==
    ASSUME WInv, NEW p \in Process, Write(p)
    PROVE  WInv'
<1>. USE DEF WInv, Creating
<1>1. /\ cmd[p].pc = "truncated"
      /\ file' = [is |-> "whole", has |-> cmd[p].has]
      /\ saved' = saved \cup cmd[p].new
      /\ exposed' = IF cmd[p].rival THEN exposed \cup cmd[p].new ELSE exposed
      /\ cmd'[p] = NoCmd
      /\ \A q \in Process \ {p} : cmd'[q] = cmd[q]
  BY DEF Write, TypeOK
<1>2. file'.is = "whole" /\ file'.has = cmd[p].has /\ cmd'[p].pc = "off"
      /\ cmd'[p].new = {} /\ cmd'[p].has = {}
  BY <1>1 DEF NoCmd
<1>3. TypeOK'
  BY <1>1 DEF Write, TypeOK, NoCmd
<1>4. Kept \subseteq cmd[p].has /\ cmd[p].new \subseteq cmd[p].has
  BY <1>1 DEF SavedIsKept, NewIsHeld
<1>5. SavedIsKept'
  <2>1. CASE cmd[p].rival
    <3>1. Kept' \subseteq Kept
      BY <1>1, <2>1 DEF Kept
    <3>. QED
      BY <1>1, <1>2, <1>4, <3>1 DEF SavedIsKept
  <2>2. CASE ~cmd[p].rival
    <3>1. Kept' \subseteq Kept \cup cmd[p].new
      BY <1>1, <2>2 DEF Kept
    <3>2. \A q \in Process : ~Creating(q)'
      BY <1>1, <1>2, <2>2 DEF Rivals
    <3>. QED
      BY <1>2, <1>4, <3>1, <3>2 DEF SavedIsKept
  <2>. QED
    BY <2>1, <2>2
<1>6. Rivals'
  BY <1>1, <1>2 DEF Rivals
<1>7. NothingBeforeTheFile' /\ NewIsHeld'
  BY <1>1, <1>2 DEF NothingBeforeTheFile, NewIsHeld
<1>. QED
  BY <1>3, <1>5, <1>6, <1>7

LEMMA WKill ==
    ASSUME WInv, NEW p \in Process, Kill(p)
    PROVE  WInv'
<1>. USE DEF WInv, Creating
<1>1. /\ file' = file /\ saved' = saved /\ exposed' = exposed
      /\ cmd'[p] = NoCmd
      /\ \A q \in Process \ {p} : cmd'[q] = cmd[q]
  BY DEF Kill, TypeOK
<1>2. cmd'[p].pc = "off" /\ cmd'[p].new = {} /\ cmd'[p].has = {}
  BY <1>1 DEF NoCmd
<1>3. TypeOK'
  BY <1>1 DEF Kill, TypeOK, NoCmd
<1>4. SavedIsKept'
  BY <1>1, <1>2 DEF SavedIsKept, Kept
<1>5. Rivals'
  BY <1>1, <1>2 DEF Rivals
<1>6. NothingBeforeTheFile' /\ NewIsHeld'
  BY <1>1, <1>2 DEF NothingBeforeTheFile, NewIsHeld
<1>. QED
  BY <1>3, <1>4, <1>5, <1>6

LEMMA WStep == WInv /\ [Next]_vars => WInv'
<1>. SUFFICES ASSUME WInv, [Next]_vars PROVE WInv'
  OBVIOUS
<1>1. ASSUME NEW p \in Process, Step(p) PROVE WInv'
  BY <1>1, WLoad, WAddWallet, WTruncate, WWrite, WKill DEF Step
<1>2. CASE UNCHANGED vars
  BY <1>2 DEF vars, WInv, TypeOK, SavedIsKept, Kept, Rivals, NothingBeforeTheFile,
              NewIsHeld, Creating
<1>. QED
  BY <1>1, <1>2 DEF Next

\* The inductive invariant holds of every state a number of commands reach.
THEOREM WalletInvariance == Spec => []WInv
BY WInit, WStep, PTL DEF Spec

\* The variables keep their types: of the wallet file, only a whole one has
\* wallets.
THEOREM WalletTypes == Spec => []TypeOK
BY WalletInvariance, PTL DEF WInv

\* A wallet that createwallet made without a rival stays in the file, whatever
\* later commands do and wherever they are killed.
THEOREM SavedAlwaysKept == Spec => []SavedIsKept
BY WalletInvariance, PTL DEF WInv
==========================================================================
