----------------------------- MODULE KeyBytes -----------------------------
(***************************************************************************)
(* How public keys and signatures become byte strings and pairs of numbers *)
(* again.  NewKeyPair and Sign write the two numbers of a pair one after   *)
(* the other, each without leading zeros; Verify cuts the string in half.  *)
(*                                                                         *)
(* A number is its big-endian bytes without a leading zero.                *)
(***************************************************************************)
EXTENDS Integers, Sequences

Byte == 0..255

\* What big.Int.Bytes can return.
Number == {s \in Seq(Byte) : s # <<>> => s[1] # 0}

\* big.Int.SetBytes: leading zeros do not count.
LeadingZeros(b, k) ==
    /\ \A i \in 1..k : b[i] = 0
    /\ k < Len(b) => b[k + 1] # 0
SetBytes(b) == SubSeq(b, (CHOOSE k \in 0..Len(b) : LeadingZeros(b, k)) + 1, Len(b))

\* r.Bytes() and s.Bytes(), one appended to the other.
Join(r, s) == r \o s

\* With a bug: Halves that gives the byte in the middle to the first number.
HalvesUp(b) ==
    LET half == (Len(b) + 1) \div 2
    IN  <<SetBytes(SubSeq(b, 1, half)), SetBytes(SubSeq(b, half + 1, Len(b)))>>

\* The two numbers that Verify reads out of a signature or a public key.
Halves(b) ==
    LET half == Len(b) \div 2
    IN  <<SetBytes(SubSeq(b, 1, half)), SetBytes(SubSeq(b, half + 1, Len(b)))>>

\* Two numbers that survive: they are equally long, or the second is one byte
\* longer.
Fits(r, s) == Len(s) - Len(r) \in {0, 1}
==========================================================================
