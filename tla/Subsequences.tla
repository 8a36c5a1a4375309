---------------------------- MODULE Subsequences ----------------------------
(***************************************************************************)
(* Parts of a sequence by the positions they come from.  Positions are a   *)
(* set, so that what a part holds and in which order can be reasoned about *)
(* without recursion.                                                      *)
(***************************************************************************)
EXTENDS Naturals, Sequences, FiniteSets

\* The members of a set of numbers that are less than n.
Below(S, n) == {t \in S : t < n}

\* The k-th member of a finite set of numbers in ascending order.
Nth(S, k) == CHOOSE s \in S : Cardinality(Below(S, s)) = k - 1

\* The elements of a sequence at the given positions, in order.
Picked(seq, positions) == [k \in 1 .. Cardinality(positions) |-> seq[Nth(positions, k)]]

\* The elements that satisfy the test, in order.
Filtered(seq, Test(_)) == Picked(seq, {i \in 1 .. Len(seq) : Test(seq[i])})
=============================================================================
