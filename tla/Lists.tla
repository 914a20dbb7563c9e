------------------------------- MODULE Lists -------------------------------
(***************************************************************************)
(* The loops that make a new list of some of the elements of another: for  *)
(* the lists that network.go keeps in slices, KnownNodes and               *)
(* blocksInTransit, and for the outputs of a transaction that are unspent. *)
(***************************************************************************)
EXTENDS Naturals, Sequences, SequencesExt

\* The elements at the positions in ks, each appended to a new list in its turn.
Chosen(list, ks) ==
    LET chosen[i \in 0..Len(list)] ==
            IF i = 0 THEN <<>>
            ELSE IF i \in ks THEN Append(chosen[i - 1], list[i]) ELSE chosen[i - 1]
    IN  chosen[Len(list)]

\* With a bug: Without that takes everybody off the list.
WithoutAny(list, x) == <<>>

\* The loop of SendData over KnownNodes and of HandleInv over blocksInTransit:
\* every element but x is appended to a new list.
Without(list, x) == Chosen(list, {i \in DOMAIN list : list[i] # x})
============================================================================
