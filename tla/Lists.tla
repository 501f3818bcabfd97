--------------------------------- MODULE Lists ---------------------------------
(***************************************************************************)
(* Filtering and sorting of lists.  A list is made of the places that its  *)
(* entries come from, arranged in some order.                              *)
(***************************************************************************)
EXTENDS Integers, Sequences, FiniteSets, Functions, FiniteSetsExt, SequencesExt

(* The elements of I one after the other, where R is a strict total order. *)
Arranged(I, R) ==
    [k \in 1..Cardinality(I) |->
        CHOOSE i \in I : Cardinality({j \in I : <<j, i>> \in R}) = k - 1]

Ascending(I) == Arranged(I, {p \in I \X I : p[1] < p[2]})

EntriesAt(s, places) == [k \in DOMAIN places |-> s[places[k]]]

(* The entries that are in S, in their order. *)
Among(s, S) == EntriesAt(s, Ascending({i \in DOMAIN s : s[i] \in S}))

Pairs(s) == Range(s) \X Range(s)

(* Which of two places comes first when an entry goes before another just  *)
(* when the pair is in R.                                                  *)
StableOrder(s, R) ==
    {p \in (DOMAIN s) \X (DOMAIN s) :
        \/ <<s[p[1]], s[p[2]]>> \in R
        \/ <<s[p[2]], s[p[1]]>> \notin R /\ p[1] < p[2]}

(* sort.SliceStable: entries that neither goes before keep their order. *)
StableSort(s, R) == EntriesAt(s, Arranged(DOMAIN s, StableOrder(s, R)))
==============================================================================
