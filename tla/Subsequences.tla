---- MODULE Subsequences ----
(***************************************************************************)
(* What is left of a sequence when some of its elements are picked.  The   *)
(* elements are named by their positions, so that this is first-order:     *)
(* SelectSeq takes an operator, which no prover can expand.                *)
(***************************************************************************)
EXTENDS Naturals, Sequences

\* n |-> the elements of s at the positions in I up to n, in their order.
SelectUpTo(s, I) ==
  LET upTo[n \in 0 .. Len(s)] ==
        IF n = 0 THEN << >>
        ELSE IF n \in I THEN Append(upTo[n - 1], s[n]) ELSE upTo[n - 1]
  IN upTo

\* The elements of s at the positions in I, in their order.
Select(s, I) == SelectUpTo(s, I)[Len(s)]
====
