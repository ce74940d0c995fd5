-------------------------- MODULE SubmissionQueue --------------------------
(***************************************************************************)
(* The review queue as the program runs it: request handlers of            *)
(* routes/queue.rs and routes/disc_edit.rs that interleave at every        *)
(* database access, and the transactions of services/queue_service.rs.     *)
(*                                                                         *)
(* discs, subs, dumpers and dirty hold what is COMMITTED.  What a          *)
(* transaction has written but not committed is in its handler's request   *)
(* record; the row lock of a claimed submission, the token of an           *)
(* uncommitted insert and the advisory lock are derived from where the     *)
(* handler is.  A handler reads through the pool, so it sees committed     *)
(* state only, even inside its own transaction.                            *)
(***************************************************************************)
EXTENDS QueueData

CONSTANTS
    Clients,       \* the requests the server works on at one time
    UserOf,        \* the user who is logged in at each client
    PageOf,        \* the page, and its user, a form's token was generated for
    Forms,         \* the valid forms a user may post
    InitDiscs,
    InitSubs

Pages == [user : Users, kind : {"Add", "Draft", "Edit"}]

ASSUME ClientAssumption ==
    /\ UserOf \in [Clients -> Users]
    /\ PageOf \in [Tokens -> Pages]
    /\ Forms \subseteq Contents
    /\ None \notin Clients

ASSUME InitAssumption ==
    /\ InitDiscs \in [DiscIds -> Contents \cup {None}]
    /\ InitSubs \in [SubIds -> Rows \cup {None}]
    /\ ArchiveNamesUniqueIn(InitDiscs)
    /\ \A s \in SubIds : InitSubs[s] # None =>
          /\ InitSubs[s].target # None => InitDiscs[InitSubs[s].target] # None
          /\ InitSubs[s].status = "Pending" /\ InitSubs[s].type = "Edit"
                => InitSubs[s].target # None
          /\ InitSubs[s].token # None => \A t \in SubIds :
                InitSubs[t] # None /\ InitSubs[t].token = InitSubs[s].token => t = s

VARIABLES
    discs,         \* the discs table
    subs,          \* the disc_submissions table
    dumpers,       \* the disc_dumpers table
    dirty,         \* systems whose archives_dirty is set
    lock,          \* holder of the advisory lock on APPROVAL_CONFLICT_LOCK_KEY
    pc,            \* where each client's request is
    req            \* what its handler holds

tables == <<discs, subs, dumpers, dirty>>
vars == <<discs, subs, dumpers, dirty, lock, pc, req>>

Locations == {"idle", "page", "loaded", "rematch", "diff", "precheck", "store",
              "redraft", "wait", "insert", "recheck", "resolve", "conflicts",
              "claim", "commit"}
InTransaction == {"insert", "recheck", "resolve", "conflicts", "claim", "commit"}

Requests ==
    [sub : SubIds \cup {None},       \* the submission, None until it is inserted
     row : Rows \cup {None},         \* the DiscSubmission the handler holds
     base : Contents \cup {None},    \* what review_base_hash was computed from
     form : Contents \cup {None},    \* the form that was posted
     match : DiscIds \cup {None},    \* the disc an exact match found
     changes : Changes,              \* the change set to approve, then to store
     current : Contents \cup {None}, \* the target as the resolution read it
     created : BOOLEAN]              \* the row is an insert of this transaction

NoRequest == [sub |-> None, row |-> None, base |-> None, form |-> None,
              match |-> None, changes |-> NoChanges, current |-> None,
              created |-> FALSE]

Effective(r) == Apply(r.current, r.changes)

Init ==
    /\ discs = InitDiscs
    /\ subs = InitSubs
    /\ dumpers = [d \in DiscIds |-> {}]
    /\ dirty = {}
    /\ lock = None
    /\ pc = [c \in Clients |-> "idle"]
    /\ req = [c \in Clients |-> NoRequest]

-----------------------------------------------------------------------------
(* Moving a handler, and the locks PostgreSQL holds for a transaction. *)

Goto(c, from, to, r) ==
    /\ pc[c] = from
    /\ pc' = [pc EXCEPT ![c] = to]
    /\ req' = [req EXCEPT ![c] = r]

\* Mutant: a transaction that ends and keeps the advisory lock.
FinishHoldingLock(c, from) == Goto(c, from, "idle", NoRequest) /\ UNCHANGED lock

\* The handler answers; a transaction it was in ends, and its locks with it.
Finish(c, from) ==
    /\ Goto(c, from, "idle", NoRequest)
    /\ lock' = IF lock = c THEN None ELSE lock

\* The handler goes on and changes no table.
Continue(c, from, to, r) ==
    /\ Goto(c, from, to, r)
    /\ UNCHANGED <<tables, lock>>

\* It answers and changes no table: a redirect, an error page, a rollback.
Respond(c, from) == Finish(c, from) /\ UNCHANGED tables

Inserting(c) == pc[c] \in InTransaction \ {"insert"} /\ req[c].created
RowLocked(s) == \E c \in Clients : pc[c] = "commit" /\ req[c].sub = s
TokenHeld(t) == \E c \in Clients : Inserting(c) /\ req[c].row.token = t
FreshIds == {s \in SubIds : subs[s] = None
                            /\ \A c \in Clients : ~(Inserting(c) /\ req[c].sub = s)}

\* Mutant: an insert that does not look for its token.
WithNoToken(t) == {s \in SubIds : FALSE}

\* The row a form was already stored as: the partial unique index on tokens.
WithToken(t) == {s \in SubIds : subs[s] # None /\ t # None /\ subs[s].token = t}

NewRow(type, who, target, ch, t, form) ==
    [type |-> type, submitter |-> who, target |-> target, changes |-> ch,
     status |-> "Pending", token |-> t, fingerprint |-> form, reviewer |-> None]

SameRequest(old, new) ==
    /\ old.type = new.type
    /\ old.submitter = new.submitter
    /\ old.fingerprint = new.fingerprint

-----------------------------------------------------------------------------
(* Reviewing: the page of a Pending submission, then a POST that loads the *)
(* submission afresh.                                                      *)

OpenReview(c, s) ==
    /\ subs[s] # None
    /\ subs[s].status = "Pending"
    /\ CanReview(UserOf[c], subs[s])
    /\ subs[s].target # None =>
          \/ CanViewDisabledDiscs(UserOf[c])
          \/ IsActive(discs[subs[s].target])
    /\ LET base == TargetContent(discs, subs[s].target)
       IN  Continue(c, "idle", "page",
              [NoRequest EXCEPT !.sub = s, !.base = base,
                                !.form = Apply(base, subs[s].changes)])

LoadSubmission(c) ==
    LET row == subs[req[c].sub]
    IN  /\ pc[c] = "page"
        /\ IF CanReview(UserOf[c], row) /\ row.status = "Pending"
           THEN Continue(c, "page", "loaded", [req[c] EXCEPT !.row = row])
           ELSE Respond(c, "page")

\* The three updates that take no advisory lock: WHERE status = 'Pending'.
UpdatePending(c, row) ==
    LET s == req[c].sub
    IN  /\ ~RowLocked(s)
        /\ subs' = IF subs[s].status = "Pending"
                   THEN [subs EXCEPT ![s] = row] ELSE subs
        /\ Finish(c, "loaded")
        /\ UNCHANGED <<discs, dumpers, dirty>>

CommentSubmission(c) ==
    UpdatePending(c, [subs[req[c].sub] EXCEPT !.reviewer = UserOf[c]])

RejectSubmission(c) ==
    UpdatePending(c, [subs[req[c].sub] EXCEPT !.status = "Rejected",
                                              !.reviewer = UserOf[c]])

DraftSubmission(c) ==
    /\ req[c].row.type = "Disc"
    /\ UpdatePending(c, [subs[req[c].sub] EXCEPT !.status = "Draft",
                                                 !.reviewer = UserOf[c]])

\* update_pending_submission_target, with the target the handler expects.
SetTarget(s, expected, target) ==
    subs' = IF /\ subs[s].type = "Disc"
               /\ subs[s].status = "Pending"
               /\ subs[s].target = expected
            THEN [subs EXCEPT ![s].target = target] ELSE subs

\* Its transaction waits for the advisory lock and is one step once it has it.
ManualRetarget(c, d) ==
    /\ lock = None
    /\ pc[c] = "loaded"
    /\ CanModerate(UserOf[c])
    /\ req[c].row.type = "Disc"
    /\ IF d \in ActiveDiscs(discs) \cup {None}
       THEN SetTarget(req[c].sub, req[c].row.target, d) ELSE UNCHANGED subs
    /\ Finish(c, "loaded")
    /\ UNCHANGED <<discs, dumpers, dirty>>

\* The approve action: is the page stale, does the form name another disc?
CheckReview(c, form) ==
    LET r == req[c]
        posted == [r EXCEPT !.form = form]
    IN  IF r.row.target # None
        THEN IF discs[r.row.target] # r.base
             THEN Respond(c, "loaded")
             ELSE Continue(c, "loaded", "diff", posted)
        ELSE IF r.row.type # "Disc"
        THEN Respond(c, "loaded")
        ELSE \E d \in ExactMatches(discs, form) :
                IF d = None THEN Continue(c, "loaded", "diff", posted)
                ELSE Continue(c, "loaded", "rematch", [posted EXCEPT !.match = d])

\* retarget_pending_submission: under the lock, only if the match still stands.
RetargetToMatch(c) ==
    /\ lock = None
    /\ \E d \in ExactMatches(discs, req[c].form) :
          IF d = req[c].match
          THEN SetTarget(req[c].sub, None, d) ELSE UNCHANGED subs
    /\ Finish(c, "rematch")
    /\ UNCHANGED <<discs, dumpers, dirty>>

\* The reviewed form becomes a change set against the disc as it now is.
BuildReviewChanges(c) ==
    LET r == req[c]
        old == TargetContent(discs, r.row.target)
        ch == IF r.row.type = "Disc" THEN DiscChanges(old, r.form)
                                     ELSE EditChanges(old, r.form)
        base == IF r.row.target = None THEN None ELSE r.base
    IN  Continue(c, "diff", "wait",
                 [r EXCEPT !.changes = ch, !.form = None, !.base = base])

-----------------------------------------------------------------------------
(* Submitting: Add Disc, Add Disc from a returned draft, Edit Disc. *)

AddSubmit(c, t, form, who) ==
    LET u == UserOf[c]
    IN  /\ PageOf[t] = [user |-> u, kind |-> "Add"]
        /\ who = u \/ CanModerate(u)
        /\ \E d \in AddMatches(discs, form) :
              Continue(c, "idle",
                  IF CanEditDirectly(u) /\ d = None THEN "precheck" ELSE "store",
                  [NoRequest EXCEPT
                      !.row = NewRow("Disc", who, d, DiscChanges(Blank, form), t, form)])

AddSubmitDraft(c, s, t, form) ==
    LET u == UserOf[c]
    IN  /\ PageOf[t] = [user |-> u, kind |-> "Draft"]
        /\ subs[s] # None
        /\ subs[s].submitter = u
        /\ subs[s].type = "Disc"
        /\ subs[s].status = "Draft"
        /\ \E d \in AddMatches(discs, form) :
              Continue(c, "idle", "redraft",
                  [NoRequest EXCEPT
                      !.sub = s,
                      !.row = NewRow("Disc", u, d, DiscChanges(Blank, form), t, form)])

EditSubmit(c, t, form, d) ==
    LET u == UserOf[c]
        kept == IF CanEditDirectly(u) THEN form
                ELSE [form EXCEPT !["status"] = discs[d]["status"]]
    IN  /\ PageOf[t] = [user |-> u, kind |-> "Edit"]
        /\ discs[d] # None
        /\ IsActive(discs[d]) \/ CanViewDisabledDiscs(u)
        /\ Continue(c, "idle", IF CanEditDirectly(u) THEN "precheck" ELSE "store",
               [NoRequest EXCEPT
                   !.row = NewRow("Edit", u, d, EditChanges(discs[d], kept), t, kept)])

\* find_approval_conflicts before the transaction: a page without side effects.
Precheck(c) ==
    LET row == req[c].row
        current == TargetContent(discs, row.target)
        ch == Resolve(row.type, current, row.changes)
    IN  IF Conflicts(discs, row.type, row.target, current, ch, Apply(current, ch)) = {}
        THEN Continue(c, "precheck", "wait", req[c])
        ELSE Respond(c, "precheck")

\* create_submission: INSERT ... ON CONFLICT (submission_token) DO NOTHING.
\* A request that finds no id left in SubIds (the bound) is dropped.
StoreSubmission(c) ==
    LET row == req[c].row
    IN  /\ ~TokenHeld(row.token)
        /\ IF WithToken(row.token) = {} /\ FreshIds # {}
           THEN \E s \in FreshIds : subs' = [subs EXCEPT ![s] = row]
           ELSE UNCHANGED subs
        /\ Finish(c, "store")
        /\ UNCHANGED <<discs, dumpers, dirty>>

\* Mutant: a resubmission without WHERE status = 'Draft'.
ResubmitWhateverStatus(c) ==
    LET s == req[c].sub
        row == req[c].row
    IN  /\ ~TokenHeld(row.token)
        /\ subs' = IF WithToken(row.token) \subseteq {s}
                   THEN [subs EXCEPT ![s] = [row EXCEPT !.reviewer = subs[s].reviewer]]
                   ELSE subs
        /\ Finish(c, "redraft")
        /\ UNCHANGED <<discs, dumpers, dirty>>

\* submit_draft_submission; the unique index refuses another row's token.
SubmitDraft(c) ==
    LET s == req[c].sub
        row == req[c].row
    IN  /\ ~TokenHeld(row.token)
        /\ subs' = IF /\ subs[s].status = "Draft"
                      /\ WithToken(row.token) \subseteq {s}
                   THEN [subs EXCEPT ![s] = [row EXCEPT !.reviewer = subs[s].reviewer]]
                   ELSE subs
        /\ Finish(c, "redraft")
        /\ UNCHANGED <<discs, dumpers, dirty>>

-----------------------------------------------------------------------------
(* The approval transaction, of a review or of a direct submission. *)

\* Mutant: an approval that does not wait for the one under way.
ApproveWithoutLock(c) ==
    /\ lock' = c
    /\ Goto(c, "wait", IF req[c].sub = None THEN "insert" ELSE "recheck", req[c])
    /\ UNCHANGED tables

AcquireApprovalLock(c) ==
    /\ lock = None
    /\ lock' = c
    /\ Goto(c, "wait", IF req[c].sub = None THEN "insert" ELSE "recheck", req[c])
    /\ UNCHANGED tables

\* create_submission_on, then the test of create_and_approve_submission.
InsertDirect(c) ==
    LET row == req[c].row
        found == WithToken(row.token)
    IN  /\ pc[c] = "insert"
        /\ IF found # {}
           THEN \E s \in found :
                   IF SameRequest(subs[s], row) /\ subs[s].status = "Pending"
                   THEN Continue(c, "insert", "recheck",
                            [req[c] EXCEPT !.sub = s, !.row = subs[s],
                                           !.changes = subs[s].changes])
                   ELSE Respond(c, "insert")
           ELSE IF FreshIds # {}
           THEN \E s \in FreshIds :
                   Continue(c, "insert", "recheck",
                       [req[c] EXCEPT !.sub = s, !.changes = row.changes,
                                      !.created = TRUE])
           ELSE Respond(c, "insert")      \* the bound

\* approve_submission_on reads status and target once more.
Recheck(c) ==
    LET r == req[c]
        seen == IF r.created THEN r.row ELSE subs[r.sub]
    IN  IF seen.status = "Pending" /\ seen.target = r.row.target
        THEN Continue(c, "recheck", "resolve", r)
        ELSE Respond(c, "recheck")

\* Mutant: the reviewed base is not compared again inside the transaction.
ResolveUnchecked(c) ==
    LET r == req[c]
        current == TargetContent(discs, r.row.target)
        kept == PreserveSubmittedStatus(r.row.type, r.row.changes, r.changes)
    IN  Continue(c, "resolve", "conflicts",
            [r EXCEPT !.current = current,
                      !.changes = Resolve(r.row.type, current, kept)])

\* The hash a review expects, then the change set and the data to store.
ResolveApproval(c) ==
    LET r == req[c]
        current == TargetContent(discs, r.row.target)
        kept == PreserveSubmittedStatus(r.row.type, r.row.changes, r.changes)
    IN  IF r.base # None /\ current # r.base
        THEN Respond(c, "resolve")
        ELSE Continue(c, "resolve", "conflicts",
                 [r EXCEPT !.current = current,
                           !.changes = Resolve(r.row.type, current, kept)])

FindConflicts(c) ==
    LET r == req[c]
    IN  IF Conflicts(discs, r.row.type, r.row.target, r.current, r.changes,
                     Effective(r)) = {}
        THEN Continue(c, "conflicts", "claim", r)
        ELSE Respond(c, "conflicts")

\* Mutant: a claim that trusts what Recheck saw.
ClaimUnconditionally(c) ==
    ~RowLocked(req[c].sub) /\ Continue(c, "claim", "commit", req[c])

\* UPDATE ... WHERE status = 'Pending' AND target is the expected one.
ClaimSubmission(c) ==
    LET r == req[c]
        seen == IF r.created THEN r.row ELSE subs[r.sub]
    IN  /\ ~RowLocked(r.sub)
        /\ IF seen.status = "Pending" /\ seen.target = r.row.target
           THEN Continue(c, "claim", "commit", r)
           ELSE Respond(c, "claim")

\* update_disc or create_disc_from_submission, the dumper, the dirty marks.
Commit(c) ==
    LET r == req[c]
        old == IF r.created THEN r.row ELSE subs[r.sub]
        eff == Effective(r)
        target == r.row.target
    IN  /\ \E d \in IF target = None THEN NextDiscId(discs) ELSE {target} :
              /\ discs' = [discs EXCEPT ![d] = eff]
              /\ dumpers' = [dumpers EXCEPT ![d] =
                                 IF target = None \/ r.row.type = "Disc"
                                 THEN @ \cup {r.row.submitter} ELSE @]
              /\ subs' = [subs EXCEPT ![r.sub] =
                              [old EXCEPT !.status = "Approved", !.target = d,
                                          !.changes = r.changes,
                                          !.reviewer = UserOf[c]]]
        /\ dirty' = dirty \cup ({r.current["system_code"], eff["system_code"]} \ {None})
        /\ Finish(c, "commit")

\* A closed tab, a database error, or the server going down: no trace is left.
Abandon(c) ==
    /\ pc[c] # "idle"
    /\ Respond(c, pc[c])

-----------------------------------------------------------------------------

StartReview(c) == \E s \in SubIds : OpenReview(c, s)

StartSubmission(c) ==
    \E t \in Tokens, form \in Forms :
        \/ \E who \in Users : AddSubmit(c, t, form, who)
        \/ \E s \in SubIds : AddSubmitDraft(c, s, t, form)
        \/ \E d \in DiscIds : EditSubmit(c, t, form, d)

\* The action the POST names; its form is the page's, or what the reviewer
\* made of it.
Decide(c) ==
    /\ pc[c] = "loaded"
    /\ \/ CommentSubmission(c)
       \/ RejectSubmission(c)
       \/ DraftSubmission(c)
       \/ \E d \in DiscIds \cup {None} : ManualRetarget(c, d)
       \/ \E form \in Forms \cup {req[c].form} :
              CheckReview(c, form)

\* The rest of a handler, which runs without waiting for its user.
Handle(c) ==
    \/ Decide(c)
    \/ (pc[c] = "rematch" /\ RetargetToMatch(c))
    \/ (pc[c] = "diff" /\ BuildReviewChanges(c))
    \/ (pc[c] = "precheck" /\ Precheck(c))
    \/ (pc[c] = "store" /\ StoreSubmission(c))
    \/ (pc[c] = "redraft" /\ SubmitDraft(c))
    \/ InsertDirect(c)
    \/ (pc[c] = "recheck" /\ Recheck(c))
    \/ (pc[c] = "resolve" /\ ResolveApproval(c))
    \/ (pc[c] = "conflicts" /\ FindConflicts(c))
    \/ (pc[c] = "claim" /\ ClaimSubmission(c))
    \/ (pc[c] = "commit" /\ Commit(c))

Next ==
    \E c \in Clients :
        \/ StartReview(c)
        \/ LoadSubmission(c)
        \/ StartSubmission(c)
        \/ Handle(c)
        \/ AcquireApprovalLock(c)
        \/ Abandon(c)

Spec == Init /\ [][Next]_vars

\* A handler that can go on does; PostgreSQL queues those who wait for a lock.
Fairness ==
    \A c \in Clients :
        /\ SF_vars(Handle(c))
        /\ SF_vars(AcquireApprovalLock(c))

FairSpec == Spec /\ Fairness

-----------------------------------------------------------------------------
(* Properties. *)

\* The types of the tables and of what the handlers hold.
TypeOK ==
    /\ discs \in [DiscIds -> Contents \cup {None}]
    /\ subs \in [SubIds -> Rows \cup {None}]
    /\ dumpers \in [DiscIds -> SUBSET Users]
    /\ dirty \subseteq Values
    /\ lock \in Clients \cup {None}
    /\ pc \in [Clients -> Locations]
    /\ req \in [Clients -> Requests]

\* Whatever approvals, retries and retargets interleave, two discs that go
\* into the archives of a system never share a generated name.  The check of
\* find_generated_name_conflict is only as good as the advisory lock under
\* which approve_submission_on reads, claims and writes.
ArchiveNamesUnique == ArchiveNamesUniqueIn(discs)

\* A disc that enters the catalogue, or whose DAT or universal hash changes,
\* shares it with no other active disc.  (Reactivating a Disabled disc checks
\* neither: dat_conflict_check_runs_only_when_dat_is_in_changes.)
IntroducedHashIsUnique ==
    [][\A d \in ActiveDiscs(discs') :
          LET new(f) == discs[d] = None \/ discs[d][f] # discs'[d][f]
          IN  /\ new("dat") => DatMatches(discs', discs'[d]["dat"]) \subseteq {d}
              /\ new("universal_hash") =>
                    HashMatches(discs', discs'[d]["universal_hash"]) \subseteq {d}]_vars

\* Once a reviewer has approved or rejected a submission its row never changes
\* again: late comments, drafts, retargets, retries and approvals that were
\* under way all find that they have lost.
FinalIsFrozen ==
    [][\A s \in SubIds :
          subs[s] # None /\ subs[s].status \in {"Approved", "Rejected"}
              => subs'[s] = subs[s]]_vars

\* Client c's approval takes effect in this step.
Approves(c) ==
    /\ pc[c] = "commit"
    /\ pc'[c] = "idle"
    /\ subs'[req[c].sub] # None
    /\ subs'[req[c].sub].status = "Approved"

\* A review replaces the content its page was made from and no other: however
\* long it waited for the lock, nothing approved in between is overwritten.
StaleReviewNeverOverwrites ==
    [][\A c \in Clients :
          Approves(c) /\ req[c].base # None
              => discs[req[c].row.target] = req[c].base]_vars

\* The submission is approved onto the disc the reviewer saw it target, even if
\* a moderator or an exact match retargets it while the approval is waiting.
ApprovedOntoReviewedTarget ==
    [][\A c \in Clients :
          Approves(c) /\ subs[req[c].sub] # None
              => /\ subs[req[c].sub].status = "Pending"
                 /\ subs[req[c].sub].target = req[c].row.target]_vars

\* No verification is approved onto a disc that was disabled after it was
\* submitted, matched or retargeted.
DisabledIsNeverVerified ==
    [][\A d \in Existing(discs) :
          ~IsActive(discs[d]) => dumpers'[d] = dumpers[d]]_vars

\* The dumpers of a disc are exactly the submitters of the Add Disc and
\* verification submissions approved onto it: none lost, none credited twice
\* through a retry, none from a submission that was rejected meanwhile.
CreditMatchesApprovals ==
    \A d \in DiscIds :
        dumpers[d] = {subs[s].submitter : s \in
            {t \in SubIds : /\ subs[t] # None /\ subs[t] # InitSubs[t]
                            /\ subs[t].status = "Approved"
                            /\ subs[t].type = "Disc"
                            /\ subs[t].target = d}}

\* The token is of an Add Disc or Edit Disc page that was made for the user.
OwnForm(u, t) == t # None /\ PageOf[t].user = u /\ PageOf[t].kind # "Draft"

\* Whoever approves a submission may, at that instant, approve that row: a
\* moderator any row, a User+ a row of their own that is a verification or was
\* found by a form of theirs.  The handler decided it from a row it loaded, or
\* built from a form, much earlier; moderators retarget and return rows to
\* their submitters meanwhile.
ApprovedByEntitled ==
    [][\A c \in Clients :
          Approves(c) =>
              LET row == IF req[c].created THEN req[c].row ELSE subs[req[c].sub]
              IN  \/ CanModerate(UserOf[c])
                  \/ /\ CanEditDirectly(UserOf[c])
                     /\ row.submitter = UserOf[c]
                     /\ \/ row.type = "Disc" /\ row.target # None
                        \/ OwnForm(UserOf[c], req[c].row.token)]_vars

\* A form that is posted twice, double-clicked or retried while the first POST
\* is still in its transaction is one submission.
OneSubmissionPerToken ==
    \A s, t \in SubIds :
        /\ subs[s] # None /\ subs[s].token # None
        /\ subs[t] # None /\ subs[t].token = subs[s].token
        => s = t

\* Every operation takes effect at one instant, and an approval was checked
\* against the catalogue of that instant.
RQ == INSTANCE ReviewQueue
AtomicOperations == RQ!Spec

\* An approval that waits for the advisory lock gets it and ends.
WaitingApprovalEnds ==
    \A c \in Clients : pc[c] = "wait" ~> pc[c] = "idle"

\* The comment at the claim says that if another moderator already processed
\* the submission no row is updated; then an approval could only take effect on
\* the revision its reviewer loaded.
ApprovesTheRevisionLoaded ==
    [][\A c \in Clients :
          Approves(c) /\ subs[req[c].sub] # None
              => subs[req[c].sub].changes = req[c].row.changes]_vars
=============================================================================
