-------------------------------- MODULE Lists -------------------------------
(* What Vec::retain, VecDeque::retain and the filter of an iterator keep.  *)
EXTENDS Integers, Sequences

(* The elements of s that are in S, in their order.                        *)
Keep(s, S) ==
  LET kept[i \in 0..Len(s)] ==
        IF i = 0 THEN <<>>
        ELSE IF s[i] \in S THEN Append(kept[i - 1], s[i]) ELSE kept[i - 1]
  IN kept[Len(s)]
=============================================================================
