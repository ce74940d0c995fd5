---------------------------- MODULE ReviewQueue ----------------------------
(***************************************************************************)
(* What the review queue promises, without processes, transactions or      *)
(* locks: every operation on disc_submissions happens at one instant, and  *)
(* an approval changes the submission, the disc, its dumpers and the dirty *)
(* marks of its archives together, having been checked against the         *)
(* catalogue of that same instant.                                         *)
(*                                                                         *)
(* The module SubmissionQueue, which models the handlers and transactions  *)
(* of the program one database access at a time, implements this one.      *)
(***************************************************************************)
EXTENDS QueueData

CONSTANTS
    InitDiscs,     \* the catalogue before the first request
    InitSubs       \* the rows of disc_submissions before the first request

VARIABLES
    discs,         \* the discs table
    subs,          \* the disc_submissions table
    dumpers,       \* the disc_dumpers table
    dirty          \* systems whose archives_dirty is set

vars == <<discs, subs, dumpers, dirty>>

Init ==
    /\ discs = InitDiscs
    /\ subs = InitSubs
    /\ dumpers = [d \in DiscIds |-> {}]
    /\ dirty = {}

OnlySubmission(s) ==
    /\ subs' = [subs EXCEPT ![s] = subs'[s]]
    /\ UNCHANGED <<discs, dumpers, dirty>>

Submit(s) ==
    /\ subs[s] = None
    /\ subs'[s] \in Rows
    /\ subs'[s].status = "Pending"
    /\ subs'[s].reviewer = None
    /\ OnlySubmission(s)

Resubmit(s) ==
    /\ subs[s] # None
    /\ subs[s].status = "Draft"
    /\ subs[s].type = "Disc"
    /\ subs'[s] \in Rows
    /\ subs'[s] = [subs[s] EXCEPT !.status = "Pending",
                                  !.target = subs'[s].target,
                                  !.changes = subs'[s].changes,
                                  !.token = subs'[s].token,
                                  !.fingerprint = subs'[s].fingerprint]
    /\ OnlySubmission(s)

\* A comment, a rejection or a return to Draft: only of a Pending row.
Review(s, status) ==
    /\ subs[s] # None
    /\ subs[s].status = "Pending"
    /\ status = "Draft" => subs[s].type = "Disc"
    /\ subs'[s] \in Rows
    /\ subs'[s] = [subs[s] EXCEPT !.status = status, !.reviewer = subs'[s].reviewer]
    /\ OnlySubmission(s)

\* Only to a disc that is there and not Disabled, or to none.
Retarget(s) ==
    /\ subs[s] # None
    /\ subs[s].status = "Pending"
    /\ subs[s].type = "Disc"
    /\ subs'[s] \in Rows
    /\ subs'[s] = [subs[s] EXCEPT !.target = subs'[s].target]
    /\ subs'[s].target \in ActiveDiscs(discs) \cup {None}
    /\ OnlySubmission(s)

\* old is the row that is approved, as it was when it was Pending.
ApproveRow(s, old) ==
    LET new == subs'[s]
        current == TargetContent(discs, old.target)
        eff == Apply(current, new.changes)
        d == new.target
    IN  /\ new \in Rows
        /\ new = [old EXCEPT !.status = "Approved", !.target = new.target,
                             !.changes = new.changes, !.reviewer = new.reviewer]
        /\ IF old.target = None THEN d \in NextDiscId(discs)
                                ELSE d = old.target /\ discs[d] # None
        /\ Conflicts(discs, old.type, old.target, current, new.changes, eff) = {}
        /\ discs' = [discs EXCEPT ![d] = eff]
        /\ dumpers' = [dumpers EXCEPT ![d] =
                           IF old.target = None \/ old.type = "Disc"
                           THEN @ \cup {old.submitter} ELSE @]
        /\ dirty' = dirty \cup ({current["system_code"], eff["system_code"]} \ {None})
        /\ subs' = [subs EXCEPT ![s] = new]

Approve(s) ==
    /\ subs[s] # None
    /\ subs[s].status = "Pending"
    /\ ApproveRow(s, subs[s])

\* A direct submission appears already approved: nobody sees it Pending.
SubmitApproved(s) ==
    /\ subs[s] = None
    /\ subs'[s] \in Rows
    /\ \E t \in {None, subs'[s].target} :
           ApproveRow(s, [subs'[s] EXCEPT !.status = "Pending", !.target = t,
                                          !.reviewer = None])

Next ==
    \E s \in SubIds :
        \/ Submit(s)
        \/ Resubmit(s)
        \/ \E status \in {"Pending", "Rejected", "Draft"} : Review(s, status)
        \/ Retarget(s)
        \/ Approve(s)
        \/ SubmitApproved(s)

Spec == Init /\ [][Next]_vars
=============================================================================
