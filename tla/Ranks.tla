------------------------------- MODULE Ranks -------------------------------
(***************************************************************************)
(* Parts of a list, in order, without recursion: which entries of a list   *)
(* are left is a set of places, and the k-th entry that is left stands at  *)
(* the k-th smallest of these places.                                      *)
(***************************************************************************)
EXTENDS Integers, FiniteSets, SequencesExt

(* How many elements of S are not above n, and the k-th smallest of S. *)
Rank(S, n) == Cardinality({m \in S : m <= n})
Nth(S, k)  == CHOOSE n \in S : Rank(S, n) = k

(* The entries of a list at the places S. *)
AtPlaces(list, S) == [k \in 1 .. Cardinality(S) |-> list[Nth(S, k)]]

(* The entries of a list that are in P. *)
Keep(list, P) == AtPlaces(list, {i \in DOMAIN list : list[i] \in P})

=============================================================================
