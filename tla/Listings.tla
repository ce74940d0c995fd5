------------------------------ MODULE Listings ------------------------------
(***************************************************************************)
(* The elements of a finite set one after the other, as a query returns    *)
(* rows with ORDER BY, and as a scan meets them.                           *)
(***************************************************************************)
EXTENDS Integers, FiniteSets

\* The place of an element in the order that f puts a set in.
Rank(S, f, x) == Cardinality({y \in S : f[y] <= f[x]})

Listing(S, f) == [n \in 1 .. Cardinality(S) |-> CHOOSE x \in S : Rank(S, f, x) = n]

\* Numbers in their own order.
Ascending(S) == Listing(S, [x \in S |-> x])

\* The elements of a sequence at some of its positions.
Select(s, positions) ==
    LET order == Ascending(positions) IN [k \in DOMAIN order |-> s[order[k]]]
=============================================================================
