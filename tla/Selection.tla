------------------------------ MODULE Selection ------------------------------
(***************************************************************************)
(* What a sequence has of a set.  The reader and the writer speak of the   *)
(* bytes of their histories by it.                                         *)
(***************************************************************************)
EXTENDS Naturals, Sequences

\* The elements of s that are in S, in their order: SelectSeq for a set, written as a
\* function of the index so that proofs can expand it.
Selected(s, S) ==
  LET f[i \in 0..Len(s)] ==
        IF i = 0 THEN <<>>
        ELSE IF s[i] \in S THEN Append(f[i - 1], s[i]) ELSE f[i - 1]
  IN  f[Len(s)]
==============================================================================
