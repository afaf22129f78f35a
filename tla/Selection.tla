------------------------------- MODULE Selection -------------------------------
(***************************************************************************)
(* What is left of a sequence when only some of its elements count: the    *)
(* filter of the JavaScript arrays, by a set and as a recursive function,  *)
(* so that it can be reasoned about.                                       *)
(***************************************************************************)
EXTENDS Naturals, Sequences

\* The elements of s that are in S, in their order.
Only(s, S) ==
  LET f[n \in 0..Len(s)] == IF n = 0 THEN <<>>
                            ELSE IF s[n] \in S THEN Append(f[n - 1], s[n])
                            ELSE f[n - 1]
  IN  f[Len(s)]
================================================================================
