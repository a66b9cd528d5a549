------------------------------- MODULE Lists -------------------------------
(***************************************************************************)
(* Lists from which elements are taken, as the components use them.        *)
(***************************************************************************)
EXTENDS Integers, Sequences

\* s without the elements of K, the others in their order
SeqMinus(s, K) ==
    LET left[n \in 0 .. Len(s)] ==
          IF n = 0 THEN <<>>
          ELSE IF s[n] \in K THEN left[n - 1] ELSE Append(left[n - 1], s[n])
    IN  left[Len(s)]
=============================================================================
