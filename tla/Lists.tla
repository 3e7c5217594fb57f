-------------------------------- MODULE Lists --------------------------------
(***************************************************************************)
(* Loops over slices that several components have in common, as recursive  *)
(* functions of how many elements the loop has seen.                       *)
(***************************************************************************)
EXTENDS Naturals, Sequences

\* The sequences of ss one after the other (append(out, s...) in a loop).
Flatten(ss) ==
    LET c[n \in 0..Len(ss)] == IF n = 0 THEN <<>> ELSE c[n - 1] \o ss[n]
    IN  c[Len(ss)]

\* Those of the elements of s that are in S (append(out, e) under a condition).
Among(s, S) ==
    LET c[n \in 0..Len(s)] ==
          IF n = 0 THEN <<>> ELSE IF s[n] \in S THEN Append(c[n - 1], s[n]) ELSE c[n - 1]
    IN  c[Len(s)]
=============================================================================
