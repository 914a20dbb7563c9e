---------------------------- MODULE WalletFile ----------------------------
(***************************************************************************)
(* The wallet file (wallets.go) under createwallet commands that run at    *)
(* the same time: each loads it, adds a wallet and writes it back.         *)
(* Nothing locks the file, and WriteFile empties it before it writes.      *)
(*                                                                         *)
(* A file that has been emptied cannot be decoded: whoever loads it        *)
(* panics, which changes nothing and is no step here.  listaddresses and   *)
(* send load the file as createwallet does and change nothing either.      *)
(* Two processes that write the file one over the other leave what the     *)
(* second writes: the decoder does not look at what follows.               *)
(***************************************************************************)
EXTENDS Naturals

CONSTANTS
    Process,  \* the commands that can run at the same time
    Wallet    \* the wallets that AddWallet can make

VARIABLES
    file,    \* is: "absent", "empty" or "whole"; has: the wallets in it
    cmd,     \* the commands.  pc: how far; has: their Wallets; new: the one they
             \* add; rival: history, another one ran at the same time
    saved,   \* history: the wallets whose SaveFile has returned
    exposed  \* history: those among them that were made with a rival

vars == <<file, cmd, saved, exposed>>

NoCmd == [pc |-> "off", has |-> {}, new |-> {}, rival |-> FALSE]

\* createwallet is between loading the file and the end of SaveFile.
Creating(p) == cmd[p].pc # "off"

Init ==
    /\ file = [is |-> "absent", has |-> {}]
    /\ cmd = [p \in Process |-> NoCmd]
    /\ saved = {}
    /\ exposed = {}

--------------------------------------------------------------------------
\* LoadFile decodes what it finds, unless there is no file.
Loadable == file.is # "empty"

\* With a bug: Loaded that starts from no wallets.
LoadedNothing == {}

\* The wallets after LoadFile: none if there is no file, which is an error that
\* createwallet ignores.
Loaded == file.has

\* CreateWallets.
Load(p) ==
    LET rivals == {q \in Process \ {p} : Creating(q)}
    IN  /\ cmd[p].pc = "off"
        /\ Loadable
        /\ cmd' = [q \in Process |->
                     IF q = p THEN [pc |-> "loaded", has |-> Loaded, new |-> {},
                                    rival |-> rivals # {}]
                     ELSE IF q \in rivals THEN [cmd[q] EXCEPT !.rival = TRUE]
                     ELSE cmd[q]]
        /\ UNCHANGED <<file, saved, exposed>>

\* AddWallet: a key pair that nobody has drawn before.
AddWallet(p, w) ==
    /\ cmd[p].pc = "loaded"
    /\ \A q \in Process : w \notin cmd[q].has
    /\ w \notin saved
    /\ cmd' = [cmd EXCEPT ![p].pc = "added", ![p].has = @ \cup {w}, ![p].new = {w}]
    /\ UNCHANGED <<file, saved, exposed>>

\* With a bug: Truncate that leaves the wallets.
TruncateNothing(p) ==
    /\ cmd[p].pc = "added"
    /\ file' = [file EXCEPT !.is = "empty"]
    /\ cmd' = [cmd EXCEPT ![p].pc = "truncated"]
    /\ UNCHANGED <<saved, exposed>>

\* SaveFile: WriteFile opens the file, which creates or empties it ...
Truncate(p) ==
    /\ cmd[p].pc = "added"
    /\ file' = [is |-> "empty", has |-> {}]
    /\ cmd' = [cmd EXCEPT ![p].pc = "truncated"]
    /\ UNCHANGED <<saved, exposed>>

\* ... and writes it.  createwallet prints the address and is over.
Write(p) ==
    /\ cmd[p].pc = "truncated"
    /\ file' = [is |-> "whole", has |-> cmd[p].has]
    /\ saved' = saved \cup cmd[p].new
    /\ exposed' = IF cmd[p].rival THEN exposed \cup cmd[p].new ELSE exposed
    /\ cmd' = [cmd EXCEPT ![p] = NoCmd]

\* A signal or a crash.
Kill(p) ==
    /\ Creating(p)
    /\ cmd' = [cmd EXCEPT ![p] = NoCmd]
    /\ UNCHANGED <<file, saved, exposed>>

Step(p) ==
    \/ Load(p)
    \/ \E w \in Wallet : AddWallet(p, w)
    \/ Truncate(p)
    \/ Write(p)
    \/ Kill(p)

Next == \E p \in Process : Step(p)

Spec == Init /\ [][Next]_vars

--------------------------------------------------------------------------
(* Properties. *)

\* The variables keep their types; only a whole file has wallets.
TypeOK ==
    /\ file \in [is : {"absent", "empty", "whole"}, has : SUBSET Wallet]
    /\ file.is # "whole" => file.has = {}
    /\ cmd \in [Process -> [pc : {"off", "loaded", "added", "truncated"},
                            has : SUBSET Wallet, new : SUBSET Wallet, rival : BOOLEAN]]
    /\ saved \in SUBSET Wallet
    /\ exposed \in SUBSET Wallet

\* A wallet whose createwallet ran without a rival is never lost to any later
\* command, overlapping or killed: it is in the file whenever that can be read,
\* and in what every command that is under way will write.
Kept == saved \ exposed
SavedIsKept ==
    /\ file.is = "whole" => Kept \subseteq file.has
    /\ \A p \in Process : Creating(p) => Kept \subseteq cmd[p].has
==========================================================================
