------------------------------ MODULE QueueList ------------------------------
(***************************************************************************)
(* The lists of submissions: the queue and the history of a disc           *)
(* (src/src/routes/queue.rs), their two queries, one for the rows of a     *)
(* page and one for their number, the kind that each row is shown as       *)
(* (src/src/services/queue_service.rs), and the page of a submission.      *)
(*                                                                         *)
(* A submission is the number it got when it was created.  What a review   *)
(* does to it is an instant here: ReviewQueue says what an approval        *)
(* checks and stores, SubmissionQueue how its handlers interleave.         *)
(***************************************************************************)
EXTENDS Integers, Sequences, FiniteSets, SequencesExt

CONSTANTS
    NoTarget,      \* no disc
    Dumpers,       \* users who submit
    Viewers,       \* users who read lists
    RoleOf,        \* the role of each
    InitEntries,   \* submissions from before the site: Legacy rows
    InitCatalog,   \* their discs: [number -> "Active" | "Disabled"]
    Lists,         \* what readers ask for: [disc, status, kind, sort]
    PageLength,    \* rows of a page: 50 in the code
    MaxEntries     \* bound: submissions

Roles == {"User", "User+", "Moderator"}

LegacyEntries ==
    [type : {"Disc", "Edit"}, status : {"Legacy"}, target : DOMAIN InitCatalog,
     submitter : Dumpers \cup Viewers, decided : {0}]

ASSUME QueueListAssumption ==
    /\ \A u \in Dumpers \cup Viewers : RoleOf[u] \in Roles
    /\ NoTarget \notin Nat
    /\ InitCatalog \in Seq({"Active", "Disabled"})
    /\ InitEntries \in Seq(LegacyEntries)
    /\ PageLength \in Nat \ {0} /\ MaxEntries \in Nat

VARIABLES
    entries,       \* disc_submissions: [type, status, target, submitter, decided]
    catalog,       \* discs: [number -> "Active" | "Disabled"]
    queueReader,   \* the reader's request, the rows and the number it has read
    creator,       \* ghost: of each disc made here, the submission it was made from
    moved          \* ghost: submissions that got another target than they came with

queueListVars == <<entries, catalog, queueReader, creator, moved>>

-----------------------------------------------------------------------------
(* Who may see what. *)

SeesAllDrafts(v) == RoleOf[v] = "Moderator"
SeesDisabled(v) == RoleOf[v] \in {"User+", "Moderator"}
IsPublic(e) == e.status \in {"Approved", "Legacy"}
SeesDisc(v, d) == d = NoTarget \/ catalog[d] # "Disabled" \/ SeesDisabled(v)

\* submission_detail: the owner of a Draft gets the form, whatever became of its disc.
Opens(v, s) ==
    LET e == entries[s] IN
    /\ e.status \in {"Draft", "Rejected"} => e.submitter = v \/ SeesAllDrafts(v)
    /\ IF e.status = "Draft" /\ e.submitter = v THEN e.type = "Disc" ELSE SeesDisc(v, e.target)

-----------------------------------------------------------------------------
(* The kind of a submission. *)

History(d) == {s \in DOMAIN entries : entries[s].target = d /\ IsPublic(entries[s])}

\* Mutant: a submission that waits is taken for the oldest.
IsOldestOfAll(s) == \A r \in DOMAIN entries : entries[r].target = entries[s].target => s <= r

\* oldest_public_submission_predicate
IsOldest(s) == s \in History(entries[s].target) /\ \A r \in History(entries[s].target) : s <= r

\* The first of a disc's history is its New Disc; before that, what has no target.
KindOf(s) ==
    LET e == entries[s] IN
    CASE e.type = "Edit" -> "Edit"
      [] e.type = "Disc" /\ (e.target = NoTarget \/ (IsPublic(e) /\ IsOldest(s))) -> "New Disc"
      [] OTHER -> "Verification"

-----------------------------------------------------------------------------
(* The two queries. *)

\* Mutant: the list has no exception for the submitter of a Draft.
MayBeListedIfSeen(v, s) ==
    LET e == entries[s] IN
    /\ e.status \notin {"Draft", "Rejected"} \/ e.submitter = v \/ SeesAllDrafts(v)
    /\ SeesDisc(v, e.target)

\* Drafts and rejections are their submitter's and the moderators'; what is
\* about a Disabled disc is for those who see it, and for the submitter of a
\* Draft or of a rejection.
MayBeListed(v, s) ==
    LET e == entries[s]
        own == e.status \in {"Draft", "Rejected"} /\ e.submitter = v
    IN  /\ e.status \notin {"Draft", "Rejected"} \/ own \/ SeesAllDrafts(v)
        /\ SeesDisc(v, e.target) \/ (own /\ ~SeesAllDrafts(v))

\* normalize_queue_*_filter: a history is of its disc, public, and has no other filter.
Wanted(list, s) ==
    LET e == entries[s] IN
    IF list.disc # NoTarget THEN e.target = list.disc /\ IsPublic(e)
    ELSE /\ CASE list.status = "All Statuses" -> TRUE
              [] list.status = "Pending and Draft" -> e.status \in {"Pending", "Draft"}
              [] OTHER -> e.status = list.status
         /\ list.kind \in {"", KindOf(s)}

\* list_submissions, before ORDER BY and LIMIT
Listed(v, list) == {s \in DOMAIN entries : MayBeListed(v, s) /\ Wanted(list, s)}

\* Mutant: what the reader may not see is counted.
CountedForAll(v, list) == {s \in DOMAIN entries : Wanted(list, s)}

\* count_submissions
Counted(v, list) == {s \in DOMAIN entries : MayBeListed(v, s) /\ Wanted(list, s)}

\* submission_list_date_sql and the columns of a list; the newest come first.
SortKey(list, s) ==
    CASE list.sort = "date" /\ list.disc = NoTarget -> s
      [] list.sort = "date" /\ list.disc # NoTarget -> entries[s].decided
      [] list.sort = "disc_id" -> IF entries[s].target = NoTarget THEN -1 ELSE entries[s].target

\* The orders in which the database may give rows: those with the same key in any.
Orders(list, rows) ==
    {o \in SetToSeqs(rows) : \A i, j \in DOMAIN o : i < j => SortKey(list, o[i]) >= SortKey(list, o[j])}

\* LIMIT and OFFSET
PageOf(order, page) ==
    LET first == (page - 1) * PageLength
        rest == IF Len(order) - first < PageLength THEN Len(order) - first ELSE PageLength
    IN  [i \in 1 .. rest |-> order[first + i]]

Pages(n) == (n + PageLength - 1) \div PageLength

-----------------------------------------------------------------------------
(* What happens to submissions. *)

NoReader ==
    [step |-> "away", viewer |-> NoTarget, list |-> NoTarget, page |-> 1, turns |-> 0, still |-> TRUE,
     rows |-> <<>>, count |-> 0]

QueueListInit ==
    /\ entries = InitEntries /\ catalog = InitCatalog
    /\ creator = [d \in {} |-> NoTarget] /\ moved = {}
    /\ queueReader = NoReader

\* The reader has not seen this change.
Changed == queueReader' = IF queueReader.step = "away" THEN queueReader ELSE [queueReader EXCEPT !.still = FALSE]

Decided == Cardinality({s \in DOMAIN entries : entries[s].decided > 0})

SubmitEntry(u, type, target) ==
    /\ Len(entries) < MaxEntries
    /\ target \in {NoTarget} \cup DOMAIN catalog
    /\ IF type = "Disc" THEN target # NoTarget => catalog[target] = "Active"
                        ELSE target # NoTarget /\ SeesDisc(u, target)
    /\ entries' = Append(entries, [type |-> type, status |-> "Pending", target |-> target,
                                   submitter |-> u, decided |-> 0])
    /\ Changed /\ UNCHANGED <<catalog, creator, moved>>

ReturnEntry(s) ==
    /\ entries[s].status = "Pending" /\ entries[s].type = "Disc"
    /\ entries' = [entries EXCEPT ![s].status = "Draft"]
    /\ Changed /\ UNCHANGED <<catalog, creator, moved>>

\* The disc is looked up again.
ResubmitEntry(s, target) ==
    /\ entries[s].status = "Draft"
    /\ target = NoTarget \/ (target \in DOMAIN catalog /\ catalog[target] = "Active")
    /\ entries' = [entries EXCEPT ![s].status = "Pending", ![s].target = target]
    /\ moved' = IF target = entries[s].target THEN moved ELSE moved \cup {s}
    /\ Changed /\ UNCHANGED <<catalog, creator>>

RejectEntry(s) ==
    /\ entries[s].status = "Pending"
    /\ entries' = [entries EXCEPT ![s].status = "Rejected"]
    /\ Changed /\ UNCHANGED <<catalog, creator, moved>>

RetargetEntry(s, target) ==
    /\ entries[s].status = "Pending" /\ entries[s].type = "Disc" /\ entries[s].target # target
    /\ target = NoTarget \/ (target \in DOMAIN catalog /\ catalog[target] = "Active")
    /\ entries' = [entries EXCEPT ![s].target = target]
    /\ moved' = moved \cup {s}
    /\ Changed /\ UNCHANGED <<catalog, creator>>

\* Without a target a disc is made; a verification is not of a Disabled disc.
ApproveEntry(s, status) ==
    LET new == Cardinality(DOMAIN catalog) + 1
        target == IF entries[s].target = NoTarget THEN new ELSE entries[s].target
    IN  /\ entries[s].status = "Pending"
        /\ entries[s].type = "Disc" =>
               status = "Active" /\ (target # new => catalog[target] = "Active")
        /\ catalog' = [d \in DOMAIN catalog \cup {target} |-> IF d = target THEN status ELSE catalog[d]]
        /\ entries' = [entries EXCEPT ![s].status = "Approved", ![s].target = target,
                                      ![s].decided = Decided + 1]
        /\ creator' = IF target = new THEN [d \in DOMAIN creator \cup {new} |-> IF d = new THEN s ELSE creator[d]]
                      ELSE creator
        /\ Changed /\ UNCHANGED moved

-----------------------------------------------------------------------------
(* A reader: queue_list reads the rows of the page, then their number. *)

Asks(v, list, page) ==
    /\ queueReader.step \in {"away", "shown"}
    /\ list.disc # NoTarget => list.disc \in DOMAIN catalog /\ SeesDisc(v, list.disc)
    /\ queueReader' = [NoReader EXCEPT !.step = "asked", !.viewer = v, !.list = list, !.page = page]
    /\ UNCHANGED <<entries, catalog, creator, moved>>

ReadsRows ==
    /\ queueReader.step \in {"asked", "redirected"}
    /\ \E order \in Orders(queueReader.list, Listed(queueReader.viewer, queueReader.list)) :
           queueReader' = [queueReader EXCEPT !.step = "read", !.rows = PageOf(order, queueReader.page)]
    /\ UNCHANGED <<entries, catalog, creator, moved>>

\* A page after the last is a redirect to the last.
ReadsCount ==
    LET count == Cardinality(Counted(queueReader.viewer, queueReader.list))
        last == IF Pages(count) = 0 THEN 1 ELSE Pages(count)
    IN  /\ queueReader.step = "read"
        /\ queueReader' = IF queueReader.page > last
                     THEN [queueReader EXCEPT !.step = "redirected", !.page = last, !.rows = <<>>,
                                              !.turns = IF queueReader.still THEN @ + 1 ELSE 0, !.still = TRUE]
                     ELSE [queueReader EXCEPT !.step = "shown", !.count = count]
        /\ UNCHANGED <<entries, catalog, creator, moved>>

QueueListNext ==
    \/ \E u \in Dumpers, type \in {"Disc", "Edit"}, target \in {NoTarget} \cup DOMAIN catalog :
           SubmitEntry(u, type, target)
    \/ \E s \in DOMAIN entries :
           \/ ReturnEntry(s)
           \/ RejectEntry(s)
           \/ \E target \in {NoTarget} \cup DOMAIN catalog : ResubmitEntry(s, target) \/ RetargetEntry(s, target)
           \/ \E status \in {"Active", "Disabled"} : ApproveEntry(s, status)
    \/ \E v \in Viewers, list \in Lists, page \in 1 .. Pages(MaxEntries) : Asks(v, list, page)
    \/ ReadsRows
    \/ ReadsCount

QueueListSpec == QueueListInit /\ [][QueueListNext]_queueListVars

-----------------------------------------------------------------------------
(* Properties. *)

\* A reader finds in the queue, among all statuses, exactly what they may
\* open, and in the history of a disc they see nothing else.  There is one
\* exception, which the code has: the submitter of a rejected submission about
\* a disc that has been Disabled since finds it in the queue and cannot open
\* it.
ListsShowWhatOpens ==
    \A v \in Viewers, s \in DOMAIN entries :
        LET everything == [disc |-> NoTarget, status |-> "All Statuses", kind |-> "", sort |-> "date"]
            history(d) == [everything EXCEPT !.disc = d]
            stranded == /\ entries[s].status = "Rejected" /\ entries[s].submitter = v
                        /\ ~SeesDisc(v, entries[s].target)
        IN  /\ s \in Listed(v, everything) <=> Opens(v, s) \/ stranded
            /\ \A d \in DOMAIN catalog : SeesDisc(v, d) /\ s \in Listed(v, history(d)) => Opens(v, s)

\* A disc has at most one New Disc in its history; of a disc that was made
\* here it is the submission that the disc was made from, unless an older
\* submission has been moved to the disc.
NewDiscMadeTheDisc ==
    /\ \A d \in DOMAIN catalog :
           Cardinality({s \in History(d) : entries[s].type = "Disc" /\ KindOf(s) = "New Disc"}) <= 1
    /\ \A d \in DOMAIN creator :
           (\A s \in moved \cap History(d) : s > creator[d]) /\ creator[d] \in History(d)
               => \A s \in History(d) : KindOf(s) = "New Disc" <=> s = creator[d]

\* Rows and number are read one after the other.  Of a queue that did not
\* change meanwhile the page that is shown is full, unless it is the last, and
\* empty only if the list is; and one redirect is enough.
PageIsOfTheQueue ==
    /\ queueReader.step = "shown" /\ queueReader.still =>
           LET left == queueReader.count - (queueReader.page - 1) * PageLength IN
           /\ Len(queueReader.rows) = IF left > PageLength THEN PageLength ELSE IF left < 0 THEN 0 ELSE left
           /\ queueReader.rows = <<>> => queueReader.count = 0
    /\ queueReader.step \in {"redirected", "read"} => queueReader.turns <= 1
=============================================================================
