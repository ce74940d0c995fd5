---------------------------- MODULE DumperCredits ----------------------------
(***************************************************************************)
(* What the credits of the dumpers promise.  A disc lists its dumpers in   *)
(* the order in which their dumps were approved, each once.  A list grows  *)
(* at its end with a user who has an account; when an account is deleted   *)
(* the account Deleted takes its place in every list, and keeps the        *)
(* earlier of two places.  No two accounts have one name.                  *)
(***************************************************************************)
EXTENDS Integers, Sequences, FiniteSets, SequencesExt

CONSTANTS Discs, Users, AccountNames, Nobody

VARIABLES
    dumpers,    \* the dumpers of each disc, first to last
    name        \* the name of each account, Nobody if there is none

Init ==
    /\ DOMAIN dumpers = Discs
    /\ \A d \in Discs : dumpers[d] \in Seq(Users) /\ IsInjective(dumpers[d])
    /\ name \in [Users -> AccountNames \cup {Nobody}]

Credit(d, u) ==
    /\ name[u] # Nobody
    /\ \A i \in DOMAIN dumpers[d] : dumpers[d][i] # u
    /\ dumpers' = [dumpers EXCEPT ![d] = Append(@, u)]
    /\ UNCHANGED name

\* An account is made or renamed.
GiveName(u, n) ==
    /\ \A v \in Users : name[v] # n
    /\ name' = [name EXCEPT ![u] = n]
    /\ UNCHANGED dumpers

\* s with v in the place of u.
Replaced(s, u, v) ==
    LET named == [i \in DOMAIN s |-> IF s[i] = u THEN v ELSE s[i]]
        kept == {i \in DOMAIN s : \A j \in 1 .. i - 1 : named[j] # named[i]}
    IN  [n \in 1 .. Cardinality(kept) |->
            named[CHOOSE i \in kept : Cardinality({j \in kept : j <= i}) = n]]

Forget(u, v) ==
    /\ u # v /\ name[u] # Nobody
    /\ \/ name[v] = "Deleted"
       \/ name[v] = Nobody /\ \A w \in Users : name[w] # "Deleted"
    /\ name' = [name EXCEPT ![u] = Nobody, ![v] = "Deleted"]
    /\ dumpers' = [d \in Discs |-> Replaced(dumpers[d], u, v)]

Next ==
    \/ name' = name /\ dumpers' # dumpers /\ \E d \in Discs, u \in Users : Credit(d, u)
    \/ name' # name /\ \E u \in Users, n \in AccountNames : GiveName(u, n)
    \/ name' # name /\ \E u, v \in Users : Forget(u, v)

Spec == Init /\ [][Next]_<<dumpers, name>>
=============================================================================
