-------------------------------- MODULE Lists --------------------------------
(***************************************************************************)
(* What Go does to a slice in several of natsie's components: append under *)
(* a condition, and sorting.                                               *)
(***************************************************************************)
EXTENDS Naturals, FiniteSets, SequencesExt

\* The elements of s at the positions of P, in their order.
Keep(s, P) ==
  LET kept[n \in 0 .. Len(s)] ==
        IF n = 0 THEN << >>
        ELSE IF n \in P THEN Append(kept[n - 1], s[n]) ELSE kept[n - 1]
  IN  kept[Len(s)]

\* sort.Slice, where of any two elements one is before the other: the element
\* that i - 1 others are before takes the place i.
SortBy(s, before(_, _)) ==
  LET Earlier(k) == {j \in DOMAIN s : before(s[j], s[k])}
  IN  [i \in DOMAIN s |-> s[CHOOSE k \in DOMAIN s : Cardinality(Earlier(k)) = i - 1]]

\* The same of the values of a map.
SortSet(S, before(_, _)) ==
  CHOOSE s \in [1 .. Cardinality(S) -> S] : \A i, j \in DOMAIN s : i < j => before(s[i], s[j])
=============================================================================
