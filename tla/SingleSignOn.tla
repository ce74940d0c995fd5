---------------------------- MODULE SingleSignOn ----------------------------
(***************************************************************************)
(* What the login of vgindex promises.  A login attempt is issued once and *)
(* redeemed at most once; a redeemed attempt buys at most one session; a   *)
(* session belongs to the attempt that bought it, and once it has ended it *)
(* never lives again.                                                      *)
(***************************************************************************)
CONSTANTS
    Attempts,    \* the states of the OIDC authorization requests
    Sessions,    \* sessions.id
    Nothing      \* no attempt

VARIABLES
    attempt,     \* what has become of each attempt
    session,     \* what has become of each session
    boughtBy     \* the attempt each session was bought with

vars == <<attempt, session, boughtBy>>

Init ==
    /\ attempt = [k \in Attempts |-> "unused"]
    /\ session = [s \in Sessions |-> "none"]
    /\ boughtBy = [s \in Sessions |-> Nothing]

Issue(k) ==
    /\ attempt[k] = "unused"
    /\ attempt' = [attempt EXCEPT ![k] = "issued"]
    /\ UNCHANGED <<session, boughtBy>>

\* An attempt that is not redeemed within its time is void.
Settle(k) ==
    /\ attempt[k] = "issued"
    /\ \E outcome \in {"redeemed", "void"} : attempt' = [attempt EXCEPT ![k] = outcome]
    /\ UNCHANGED <<session, boughtBy>>

Buy(k, s) ==
    /\ attempt[k] = "redeemed"
    /\ \A r \in Sessions : boughtBy[r] # k
    /\ session[s] = "none"
    /\ session' = [session EXCEPT ![s] = "live"]
    /\ boughtBy' = [boughtBy EXCEPT ![s] = k]
    /\ UNCHANGED attempt

End(s) ==
    /\ session[s] = "live"
    /\ session' = [session EXCEPT ![s] = "ended"]
    /\ UNCHANGED <<attempt, boughtBy>>

Next ==
    \/ \E k \in Attempts : Issue(k) \/ Settle(k) \/ \E s \in Sessions : Buy(k, s)
    \/ \E s \in Sessions : End(s)

Spec == Init /\ [][Next]_vars
=============================================================================
