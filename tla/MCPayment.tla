---------------------------- MODULE MCPayment ----------------------------
(***************************************************************************)
(* Payment on the blocks of MCUtxoSet.  The numbers of keys and signatures *)
(* have one or two bytes instead of 30 to 32.                              *)
(***************************************************************************)
EXTENDS Payment, MCUtxoSet

\* Less than an output, exactly one or two of them, change, and too much.
MCOrders ==
    {[from |-> a, to |-> b, amount |-> n] : n \in {50, 70, 170}}
      \cup {[from |-> b, to |-> a, amount |-> n] : n \in {130, 180}}

\* The key of a can be told apart again, that of b cannot.
MCKey == [o \in Owner |-> IF o = b THEN << <<7, 0>>, <<9>> >> ELSE << <<7>>, <<8, 9>> >>]
MCScalar == {<<1>>, <<2, 0>>}
==========================================================================
