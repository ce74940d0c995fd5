----------------------------- MODULE UserAccounts -----------------------------
(***************************************************************************)
(* The administrator's work on accounts and submissions                    *)
(* (src/src/routes/maintenance.rs) beside the approvals of the queue       *)
(* (src/src/services/queue_service.rs) and the logins: renaming and        *)
(* deleting a user, and repairing a submission.                            *)
(*                                                                         *)
(* Transactions run statement by statement.  A transaction's writes show   *)
(* when it commits; the rows it wrote, and the users its foreign keys name,*)
(* are locked until then.  Approvals have the approval lock and deletions  *)
(* the table of users, so there is one of each at a time.                  *)
(***************************************************************************)
EXTENDS Listings

CONSTANTS
    UserIds,       \* users.id, given in order
    Names,         \* usernames
    Folded,        \* a username without case
    DiscIds,       \* discs.id, given in order
    SubIds,        \* disc_submissions.id
    NoOne,          \* an absent value
    InitStates,    \* the rows at the start: [users, credits, subs]
    Reviewers,     \* the users who may review
    Posts,         \* how a repair may differ from what it was shown
    MaxDeletions,  \* bounds: deletions,
    MaxOthers      \* logins of new users, renames, repairs and failures

ASSUME AccountsAssumption ==
    /\ UserIds \subseteq Nat /\ IsFiniteSet(UserIds) /\ DiscIds \subseteq Nat
    /\ NoOne \notin Nat /\ NoOne \notin Names /\ NoOne \notin SubIds
    /\ "Deleted" \in Names /\ Folded \in [Names -> STRING]
    /\ Reviewers \subseteq UserIds
    /\ {MaxDeletions, MaxOthers} \subseteq Nat

Statuses == {"Pending", "Draft", "Approved", "Rejected", "Legacy"}

\* Rows of disc_submissions.
Submissions ==
    [type : {"Disc", "Edit"}, submitter : UserIds, target : DiscIds \cup {NoOne},
     status : Statuses, reviewer : UserIds \cup {NoOne}, version : Nat]

\* A repair is a change to such columns, of the right types.
ASSUME PostsAssumption ==
    \A post \in Posts :
        /\ DOMAIN post \subseteq {"type", "submitter", "target", "status", "reviewer"}
        /\ "type" \in DOMAIN post => post.type \in {"Disc", "Edit"}
        /\ "submitter" \in DOMAIN post => post.submitter \in UserIds
        /\ "target" \in DOMAIN post => post.target \in DiscIds \cup {NoOne}
        /\ "status" \in DOMAIN post => post.status \in Statuses
        /\ "reviewer" \in DOMAIN post => post.reviewer \in UserIds \cup {NoOne}

\* The first users have the first ids; the foreign keys hold; no two dumpers of
\* a disc have one position; an approved dump has been credited.
ASSUME StatesAssumption ==
    \A state \in InitStates :
        /\ state.users \in [UserIds -> Names \cup {NoOne}]
        /\ LET made == {u \in UserIds : state.users[u] # NoOne} IN made = 1 .. Cardinality(made)
        /\ state.credits \in [DiscIds -> [UserIds -> Nat \cup {NoOne}]]
        /\ \A d \in DiscIds, u \in UserIds : state.credits[d][u] # NoOne => state.users[u] # NoOne
        /\ \A d \in DiscIds, u, v \in UserIds :
              u # v /\ state.credits[d][u] # NoOne => state.credits[d][u] # state.credits[d][v]
        /\ state.subs \in [SubIds -> Submissions]
        /\ \A s \in SubIds :
              /\ state.users[state.subs[s].submitter] # NoOne
              /\ state.subs[s].reviewer # NoOne => state.users[state.subs[s].reviewer] # NoOne
              /\ state.subs[s].status = "Approved" /\ state.subs[s].type = "Disc" =>
                    /\ state.subs[s].target # NoOne
                    /\ state.credits[state.subs[s].target][state.subs[s].submitter] # NoOne

VARIABLES
    users,         \* the username of each user, NoOne if there is no such user
    nextUser,      \* users_id_seq: an id is not used twice
    credits,       \* disc_dumpers: the position of each dumper of each disc
    subs,          \* disc_submissions
    approval,      \* the approval that has the approval lock
    deletion,      \* the deletion that has the table of users
    repair,        \* the form of the administrator
    repaired,      \* ghost: the submissions an administrator has changed
    deletions, others

accountVars == <<users, nextUser, credits, subs, approval, deletion, repair, repaired,
                 deletions, others>>
counters == <<deletions, others>>

NoApproval == [at |-> "idle", sub |-> NoOne, submitter |-> NoOne, disc |-> NoOne, reviewer |-> NoOne, credit |-> NoOne]
NoDeletion == [at |-> "idle", user |-> NoOne, sink |-> NoOne]
NoRepair   == [at |-> "idle", sub |-> NoOne, shown |-> NoOne, post |-> NoOne]

AccountsInit ==
    /\ \E s \in InitStates : users = s.users /\ credits = s.credits /\ subs = s.subs
    /\ nextUser = Cardinality({u \in UserIds : users[u] # NoOne}) + 1
    /\ approval = NoApproval /\ deletion = NoDeletion /\ repair = NoRepair
    /\ repaired = {}
    /\ deletions = 0 /\ others = 0

Other == others < MaxOthers /\ others' = others + 1

-----------------------------------------------------------------------------
(* Rows and locks. *)

IsUser(u) == u # NoOne /\ users[u] # NoOne

\* Users that the approval's foreign keys keep from being deleted or renamed.
KeyShared == IF approval.at \in {"checked", "credited"}
             THEN {approval.reviewer} \cup (IF approval.credit = NoOne THEN {} ELSE {approval.submitter})
             ELSE {}

\* Users that the deletion has locked: nobody can refer to them meanwhile.
Locked == IF deletion.at = "idle" THEN {} ELSE {deletion.user, deletion.sink} \ {NoOne}

\* The submission the approval has claimed, and those the deletion has moved.
LockedByApproval == IF approval.at \in {"claimed", "checked", "credited"} THEN {approval.sub} ELSE {}
LockedByDeletion ==
    IF deletion.at = "moved" THEN {s \in SubIds : deletion.user \in {subs[s].submitter, subs[s].reviewer}} ELSE {}

DumpersShown(d) == {u \in UserIds : credits[d][u] # NoOne}
LastPosition(d) == IF DumpersShown(d) = {} THEN -1
                   ELSE CHOOSE p \in {credits[d][u] : u \in DumpersShown(d)} : \A u \in DumpersShown(d) : credits[d][u] <= p

First(ids) == CHOOSE i \in ids : \A j \in ids : i <= j

-----------------------------------------------------------------------------
(* Logins and renaming. *)

\* upsert_user: by the exact username; it waits for the table.
FirstLogin(name) ==
    /\ Other
    /\ deletion.at = "idle"
    /\ \A u \in UserIds : users[u] # name
    /\ nextUser \in UserIds
    /\ users' = [users EXCEPT ![nextUser] = name]
    /\ nextUser' = nextUser + 1
    /\ UNCHANGED <<credits, subs, approval, deletion, repair, repaired, deletions>>

\* rename_app_user: the table and the row are locked, the name must differ
\* from all others by more than case.
Rename(u, name) ==
    /\ Other
    /\ deletion.at = "idle"
    /\ IsUser(u) /\ u \notin KeyShared
    /\ users[u] # name
    /\ \A v \in UserIds \ {u} : users[v] # NoOne => Folded[users[v]] # Folded[name]
    /\ users' = [users EXCEPT ![u] = name]
    /\ UNCHANGED <<nextUser, credits, subs, approval, deletion, repair, repaired, deletions>>

-----------------------------------------------------------------------------
(* Deleting a user. *)

\* The table is locked, then the row; the username must be the one that the
\* administrator confirmed, and not that of the account that takes over.
BeginDeletion(u) ==
    /\ deletions < MaxDeletions /\ deletions' = deletions + 1
    /\ deletion.at = "idle"
    /\ IsUser(u) /\ users[u] # "Deleted" /\ u \notin KeyShared
    /\ deletion' = [at |-> "begun", user |-> u, sink |-> NoOne]
    /\ UNCHANGED <<nextUser, users, credits, subs, approval, repair, repaired, others>>

\* The account Deleted is found, and locked, or made.
FindSink ==
    LET named == {v \in UserIds : users[v] = "Deleted"} IN
    /\ deletion.at = "begun"
    /\ named \cap KeyShared = {}
    /\ IF named # {}
       THEN deletion' = [deletion EXCEPT !.at = "sink", !.sink = First(named)] /\ UNCHANGED nextUser
       ELSE /\ nextUser \in UserIds
            /\ deletion' = [deletion EXCEPT !.at = "sink", !.sink = nextUser]
            /\ nextUser' = nextUser + 1
    /\ UNCHANGED <<users, credits, subs, approval, repair, repaired, counters>>

\* The credits are merged and moved: their rows are locked.
LockCredits ==
    /\ deletion.at = "sink"
    /\ deletion' = [deletion EXCEPT !.at = "credits"]
    /\ UNCHANGED <<nextUser, users, credits, subs, approval, repair, repaired, counters>>

\* The submissions are moved: a claimed one is waited for.
LockSubmissions ==
    /\ deletion.at = "credits"
    /\ \A s \in LockedByApproval : deletion.user \notin {subs[s].submitter, subs[s].reviewer}
    /\ deletion' = [deletion EXCEPT !.at = "moved"]
    /\ UNCHANGED <<nextUser, users, credits, subs, approval, repair, repaired, counters>>

LowerPosition(p, q) == IF p < q THEN p ELSE q

\* Mutant: of two credits, that of the deleted user is dropped.
MergedKeepingLater(row, u, v) == IF row[v] = NoOne THEN row[u] ELSE row[v]

\* Of two credits of one disc the lower position stays.
Merged(row, u, v) ==
    CASE row[u] = NoOne -> row[v]
      [] row[v] = NoOne -> row[u]
      [] OTHER -> LowerPosition(row[u], row[v])

\* Mutant: the credits of the user are deleted once the double ones are merged.
DropCredits(u, v) ==
    [d \in DiscIds |-> [credits[d] EXCEPT ![v] = IF @ = NoOne THEN NoOne ELSE Merged(credits[d], u, v), ![u] = NoOne]]

MoveCredits(u, v) == [d \in DiscIds |-> [credits[d] EXCEPT ![v] = Merged(credits[d], u, v), ![u] = NoOne]]

Move(id, u, v) == IF id = u THEN v ELSE id

MoveSubmissions(u, v) ==
    [s \in SubIds |-> [subs[s] EXCEPT !.submitter = Move(@, u, v), !.reviewer = Move(@, u, v),
        !.version = IF u \in {subs[s].submitter, subs[s].reviewer} THEN @ + 1 ELSE @]]

CommitDeletion ==
    LET u == deletion.user
        v == deletion.sink
    IN  /\ deletion.at = "moved"
        /\ credits' = MoveCredits(u, v)
        /\ subs' = MoveSubmissions(u, v)
        /\ users' = [users EXCEPT ![u] = NoOne, ![v] = "Deleted"]
        /\ deletion' = NoDeletion
        /\ UNCHANGED <<nextUser, approval, repair, repaired, counters>>

\* A failure, or Postgres ends a deadlock: a claimed submission of a user who
\* is being deleted can make each transaction wait for the other.
AbortDeletion ==
    /\ Other
    /\ deletion.at # "idle"
    /\ deletion' = NoDeletion
    /\ UNCHANGED <<nextUser, users, credits, subs, approval, repair, repaired, deletions>>

-----------------------------------------------------------------------------
(* Approving a submission. *)

\* The row is read, not locked.
LoadSubmission(s, reviewer) ==
    /\ approval.at = "idle"
    /\ IsUser(reviewer)
    /\ subs[s].status = "Pending"
    /\ approval' = [NoApproval EXCEPT !.at = "loaded", !.sub = s, !.submitter = subs[s].submitter,
                                      !.disc = subs[s].target, !.reviewer = reviewer]
    /\ UNCHANGED <<nextUser, users, credits, subs, deletion, repair, repaired, counters>>

\* The claim, if it is still pending for that disc.
Claim ==
    LET s == approval.sub IN
    /\ approval.at = "loaded"
    /\ s \notin LockedByDeletion
    /\ approval' = IF subs[s].status = "Pending" /\ subs[s].target = approval.disc
                   THEN [approval EXCEPT !.at = "claimed"] ELSE NoApproval
    /\ UNCHANGED <<nextUser, users, credits, subs, deletion, repair, repaired, counters>>

\* The reviewer must exist.
CheckReviewer ==
    /\ approval.at = "claimed"
    /\ approval.reviewer \notin Locked
    /\ approval' = IF IsUser(approval.reviewer) THEN [approval EXCEPT !.at = "checked"] ELSE NoApproval
    /\ UNCHANGED <<nextUser, users, credits, subs, deletion, repair, repaired, counters>>

\* The dumper's credit: of a new disc, or after the others of the disc; none
\* if the user has one, or if the submission is an edit.  The user must exist.
CreditDumper ==
    LET u == approval.submitter
        d == approval.disc
        has == d # NoOne /\ credits[d][u] # NoOne
    IN  /\ approval.at = "checked"
        /\ CASE subs[approval.sub].type = "Edit" -> approval' = [approval EXCEPT !.at = "credited"]
             [] has /\ deletion.at \notin {"credits", "moved"} -> approval' = [approval EXCEPT !.at = "credited"]
             [] has /\ u \notin Locked -> approval' = [approval EXCEPT !.at = "credited"]
             [] ~has /\ u \notin Locked ->
                   approval' = IF IsUser(u)
                               THEN [approval EXCEPT !.at = "credited", !.credit = IF d = NoOne THEN 0 ELSE LastPosition(d) + 1]
                               ELSE NoApproval
             [] OTHER -> FALSE
        /\ UNCHANGED <<nextUser, users, credits, subs, deletion, repair, repaired, counters>>

CommitApproval ==
    LET s == approval.sub
        fresh == {e \in DiscIds : \A f \in DiscIds : f >= e => DumpersShown(f) = {}}
    IN  /\ approval.at = "credited"
        /\ approval.disc = NoOne => fresh # {}
        /\ LET d == IF approval.disc = NoOne THEN First(fresh) ELSE approval.disc IN
           /\ credits' = IF approval.credit = NoOne THEN credits
                         ELSE [credits EXCEPT ![d][approval.submitter] = approval.credit]
           /\ subs' = [subs EXCEPT ![s] = [@ EXCEPT !.status = "Approved", !.reviewer = approval.reviewer,
                                                    !.target = d, !.version = subs[s].version + 1]]
        /\ approval' = NoApproval
        /\ UNCHANGED <<nextUser, users, deletion, repair, repaired, counters>>

AbortApproval ==
    /\ Other
    /\ approval.at # "idle"
    /\ approval' = NoApproval
    /\ UNCHANGED <<nextUser, users, credits, subs, deletion, repair, repaired, deletions>>

-----------------------------------------------------------------------------
(* Repairing a submission. *)

\* The page shows the row with its version; the form is posted later.
ShowSubmission(s) ==
    /\ Other
    /\ repair.at = "idle"
    /\ repair' = [NoRepair EXCEPT !.at = "shown", !.sub = s, !.shown = subs[s]]
    /\ UNCHANGED <<nextUser, users, credits, subs, approval, deletion, repaired, deletions>>

\* validate_submission_update: users and the disc that are named must exist.
PostRepair(post) ==
    LET row == [field \in DOMAIN repair.shown |-> IF field \in DOMAIN post THEN post[field] ELSE repair.shown[field]]
        valid == /\ IsUser(row.submitter)
                 /\ row.reviewer = NoOne \/ IsUser(row.reviewer)
                 /\ row.target = NoOne \/ DumpersShown(row.target) # {}
    IN  /\ repair.at = "shown"
        /\ repair' = IF valid THEN [repair EXCEPT !.at = "validated", !.post = row] ELSE NoRepair
        /\ UNCHANGED <<nextUser, users, credits, subs, approval, deletion, repaired, counters>>

\* Mutant: the row is written whatever its version.
SaveRepairBlindly ==
    LET s == repair.sub IN
    /\ repair.at = "validated"
    /\ s \notin LockedByApproval \cup LockedByDeletion
    /\ subs' = [subs EXCEPT ![s] = [repair.post EXCEPT !.version = subs[s].version + 1]]
    /\ repaired' = repaired \cup {s}
    /\ repair' = NoRepair
    /\ UNCHANGED <<nextUser, users, credits, approval, deletion, counters>>

\* update_maintenance_submission_on: the row, locked, must have the version
\* that was shown; a user who is new to it must exist when it is written.
SaveRepair ==
    LET s == repair.sub
        row == repair.post
        new == {row.submitter, row.reviewer} \ {subs[s].submitter, subs[s].reviewer, NoOne}
    IN  /\ repair.at = "validated"
        /\ s \notin LockedByApproval \cup LockedByDeletion
        /\ new \cap Locked = {}
        /\ IF /\ subs[s].version = repair.shown.version
              /\ row # subs[s]
              /\ \A u \in new : IsUser(u)
           THEN subs' = [subs EXCEPT ![s] = [row EXCEPT !.version = row.version + 1]] /\ repaired' = repaired \cup {s}
           ELSE UNCHANGED <<subs, repaired>>
        /\ repair' = NoRepair
        /\ UNCHANGED <<nextUser, users, credits, approval, deletion, counters>>

AccountsNext ==
    \/ \E name \in Names \ {"Deleted"} : FirstLogin(name)
    \/ \E u \in UserIds : \/ \E name \in Names : Rename(u, name)
                          \/ BeginDeletion(u)
    \/ FindSink \/ LockCredits \/ LockSubmissions \/ CommitDeletion \/ AbortDeletion
    \/ \E s \in SubIds : \/ \E u \in Reviewers : LoadSubmission(s, u)
                         \/ ShowSubmission(s)
    \/ Claim \/ CheckReviewer \/ CreditDumper \/ CommitApproval \/ AbortApproval
    \/ \E post \in Posts : PostRepair(post)
    \/ SaveRepair

AccountsSpec == AccountsInit /\ [][AccountsNext]_accountVars

-----------------------------------------------------------------------------
(* Properties. *)

\* ORDER BY dd.position
InOrder(d) == Listing(DumpersShown(d), credits[d])

\* The credits, whoever is deleted while approvals run, are lists of dumpers
\* as DumperCredits has them.
Credited == INSTANCE DumperCredits WITH
    Discs <- DiscIds,
    Users <- UserIds,
    AccountNames <- Names,
    Nobody <- NoOne,
    dumpers <- [d \in DiscIds |-> InOrder(d)],
    name <- users
CreditListsAreKept == Credited!Spec

\* An approved dump is credited to whoever the submission says dumped it, also
\* when an account is deleted in the middle of the approval.  (A repair may
\* say anything.)
ApprovedIsCredited ==
    \A s \in SubIds \ repaired :
        subs[s].status = "Approved" /\ subs[s].type = "Disc" => subs[s].submitter \in DumpersShown(subs[s].target)

\* A repair puts back nothing that another request has changed since the
\* administrator was shown the submission.
RepairLosesNothing ==
    [][\A s \in SubIds : repair.at = "validated" /\ repair.sub = s /\ subs'[s] # subs[s] /\ repair'.at = "idle" =>
          \A field \in DOMAIN subs[s] \ {"version"} :
              subs'[s][field] # subs[s][field] => repair.post[field] # repair.shown[field]]_accountVars
=============================================================================
