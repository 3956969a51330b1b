------------------------------- MODULE SplitText -------------------------------
(***************************************************************************)
(* What split (simplefunc.cpp) is meant to return, for the threads that    *)
(* call it: the parts of a text between its separators.                    *)
(***************************************************************************)
EXTENDS Naturals, Sequences

\* The maximal parts of s without the separator d, in their order: parts[n] are
\* those of the first n symbols, the last of them still growing.
Parts(s, d) ==
  LET parts[n \in 0..Len(s)] ==
        IF n = 0 THEN <<>>
        ELSE LET before == parts[n - 1]
             IN  IF s[n] = d THEN before
                 ELSE IF n = 1 \/ s[n - 1] = d THEN Append(before, <<s[n]>>)
                 ELSE [before EXCEPT ![Len(before)] = Append(@, s[n])]
  IN  parts[Len(s)]
===============================================================================
