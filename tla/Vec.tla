-------------------------------- MODULE Vec --------------------------------
(***************************************************************************)
(* The operations of Rust's Vec<T> that gostui-core leans on and that the  *)
(* community modules do not offer in a form a proof can use.  A Vec is a   *)
(* sequence; the Vecs of this program hold handles, or things that have    *)
(* one, and never hold one twice.                                          *)
(***************************************************************************)
EXTENDS Integers, Sequences

Elements(s) == {s[i] : i \in 1..Len(s)}

NoDuplicates(s) == \A i, j \in 1..Len(s) : s[i] = s[j] => i = j

\* Vec::retain and Iterator::filter by membership: what is left of s when
\* only the elements of S stay, in the order they had.
Retain(s, S) ==
  LET kept[n \in 0..Len(s)] ==
        IF n = 0 THEN << >>
        ELSE IF s[n] \in S THEN Append(kept[n - 1], s[n])
        ELSE kept[n - 1]
  IN  kept[Len(s)]

\* Iterator::position, counted from 1, for an element that is there.
Position(s, x) == CHOOSE i \in 1..Len(s) : s[i] = x

\* Iterator::take and Vec::truncate.
Take(s, n) == SubSeq(s, 1, IF n < Len(s) THEN n ELSE Len(s))

\* s with one element replaced by another: slot.tiled[victim] = id.
Swap(s, old, new) == [s EXCEPT ![Position(s, old)] = new]
=============================================================================
