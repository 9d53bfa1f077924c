------------------------------- MODULE Selections -------------------------------
(***************************************************************************)
(* Some of the members of a sequence, in its order or in that of a key: what   *)
(* a list comprehension and sorted() return.                                   *)
(***************************************************************************)
EXTENDS Integers, FiniteSets

\* The places of I before i: sorted() leaves equal keys in the order they had.
Earlier(I, key, i) == {j \in I : key[j] < key[i] \/ (key[j] = key[i] /\ j < i)}
PlaceOf(I, key, n) == CHOOSE i \in I : Cardinality(Earlier(I, key, i)) = n - 1

\* The members of seq at the places I, by the keys of the places.
InOrder(seq, I, key) == [n \in 1..Cardinality(I) |-> seq[PlaceOf(I, key, n)]]
Selected(seq, I) == InOrder(seq, I, [i \in I |-> i])

=============================================================================
