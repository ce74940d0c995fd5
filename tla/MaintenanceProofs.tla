-------------------------- MODULE MaintenanceProofs --------------------------
(***************************************************************************)
(* What administrators and moderators may rely on while others work: the   *)
(* credits of approved dumps, repairs of submissions, and the codes of the *)
(* discs, for any number of users, discs, submissions and codes.           *)
(*                                                                         *)
(* UserAccounts: AccountsInv is inductive, and the credits implement the   *)
(* lists of DumperCredits.  LookupTables: TablesInv is inductive.          *)
(* ArchiveWorker, which keeps the archives up with all that changes:       *)
(* WorkerInv is inductive, for any number of systems, changes, errors,     *)
(* triggers and crashes; what archives and the export show follows.        *)
(***************************************************************************)
EXTENDS UserAccounts, LookupTables, ArchiveWorkerInvariant, ListingProofs

-----------------------------------------------------------------------------
(* Ids.                                                                    *)

LEMMA FirstId ==
    ASSUME NEW S \in SUBSET Nat, S # {}
    PROVE  First(S) \in S
    BY LeastNumber DEF First

-----------------------------------------------------------------------------
(* Accounts: the invariant.                                                *)

Approvals ==
    [at : {"idle", "loaded", "claimed", "checked", "credited"}, sub : SubIds \cup {NoOne},
     submitter : UserIds \cup {NoOne}, disc : DiscIds \cup {NoOne},
     reviewer : UserIds \cup {NoOne}, credit : Nat \cup {NoOne}]

Deletions ==
    [at : {"idle", "begun", "sink", "credits", "moved"}, user : UserIds \cup {NoOne}, sink : UserIds \cup {NoOne}]

Repairs ==
    [at : {"idle", "shown", "validated"}, sub : SubIds \cup {NoOne},
     shown : Submissions \cup {NoOne}, post : Submissions \cup {NoOne}]

RowTypes ==
    /\ users \in [UserIds -> Names \cup {NoOne}] /\ nextUser \in Nat
    /\ credits \in [DiscIds -> [UserIds -> Nat \cup {NoOne}]]
    /\ subs \in [SubIds -> Submissions]
    /\ repaired \subseteq SubIds

RequestTypes ==
    /\ approval \in Approvals /\ deletion \in Deletions /\ repair \in Repairs
    /\ approval.at # "idle" =>
          approval.sub \in SubIds /\ approval.submitter \in UserIds /\ approval.reviewer \in UserIds
    /\ repair.at # "idle" => repair.sub \in SubIds /\ repair.shown \in Submissions
    /\ repair.at = "validated" => repair.post \in Submissions

\* Ids are not used twice, and the foreign keys hold.
ForeignKeys ==
    /\ \A u \in UserIds : users[u] # NoOne => u < nextUser
    /\ \A s \in SubIds : /\ users[subs[s].submitter] # NoOne
                         /\ subs[s].reviewer # NoOne => users[subs[s].reviewer] # NoOne
    /\ \A d \in DiscIds, u \in UserIds : credits[d][u] # NoOne => users[u] # NoOne

\* The account that takes over is another one, or is made by the deletion.
DeletionStands ==
    /\ deletion.at \in {"idle", "begun"} => deletion.sink = NoOne
    /\ deletion.at = "idle" => deletion.user = NoOne
    /\ deletion.at # "idle" => deletion.user \in UserIds /\ users[deletion.user] \notin {NoOne, "Deleted"}
    /\ deletion.at \in {"sink", "credits", "moved"} =>
          deletion.sink \in UserIds /\ deletion.sink < nextUser /\ users[deletion.sink] \in {NoOne, "Deleted"}

\* A user who was deleted, and whose id nobody gets.
Gone(u) == users[u] = NoOne /\ u < nextUser /\ u # deletion.sink

\* What an approval read before it had locks: the submitter is still the one,
\* or gone.
SubmitterStands ==
    approval.at # "idle" /\ approval.sub \notin repaired =>
        approval.submitter = subs[approval.sub].submitter \/ Gone(approval.submitter)

\* A deletion moves no submission that an approval has claimed.
ClaimStands ==
    approval.at \in {"claimed", "checked", "credited"} /\ deletion.at = "moved" =>
        deletion.user \notin {subs[approval.sub].submitter, subs[approval.sub].reviewer}

\* The reviewer, and the user that is given a credit, are kept by the approval.
KeysStand == \A u \in KeyShared : users[u] # NoOne /\ u \notin Locked

\* A submitter who is given no credit has one.
CreditStands ==
    /\ approval.at # "credited" => approval.credit = NoOne
    /\ approval.at = "credited" /\ approval.credit = NoOne /\ approval.sub \notin repaired
       /\ subs[approval.sub].type = "Disc" =>
          approval.disc # NoOne /\ credits[approval.disc][approval.submitter] # NoOne

\* The disc is there, and lists the submitter.
CreditsStand ==
    \A s \in SubIds \ repaired :
        subs[s].status = "Approved" /\ subs[s].type = "Disc" =>
            subs[s].target # NoOne /\ credits[subs[s].target][subs[s].submitter] # NoOne

\* A row is as it was shown while it has the version that was shown.
RepairStands ==
    repair.at # "idle" =>
        /\ repair.shown.version <= subs[repair.sub].version
        /\ repair.shown.version = subs[repair.sub].version => repair.shown = subs[repair.sub]

ReviewStands == SubmitterStands /\ ClaimStands /\ KeysStand /\ CreditStands /\ CreditsStand

AccountsInv == RowTypes /\ RequestTypes /\ ForeignKeys /\ DeletionStands /\ ReviewStands /\ RepairStands

\* What the assumptions say of ids and names.
LEMMA Ids ==
    /\ UserIds \subseteq Nat /\ DiscIds \subseteq Nat /\ Reviewers \subseteq UserIds
    /\ NoOne \notin Nat /\ NoOne \notin Names /\ NoOne \notin UserIds /\ NoOne \notin DiscIds
    /\ "Deleted" \in Names
    BY AccountsAssumption

LEMMA AccountsStart == AccountsInit => AccountsInv
<1> SUFFICES ASSUME AccountsInit PROVE AccountsInv
    OBVIOUS
<1> USE DEF AccountsInit, NoApproval, NoDeletion, NoRepair
<1>1. PICK s \in InitStates : users = s.users /\ credits = s.credits /\ subs = s.subs
    OBVIOUS
<1> DEFINE made == {u \in UserIds : users[u] # NoOne}
<1>2. made = 1 .. Cardinality(made) /\ IsFiniteSet(made)
    BY <1>1, StatesAssumption, AccountsAssumption, FS_Subset
<1>3. Cardinality(made) \in Nat
    BY <1>2, FS_CardinalityType
<1>4. nextUser = Cardinality(made) + 1
    OBVIOUS
<1>5. RowTypes
    BY <1>1, <1>3, <1>4, StatesAssumption DEF RowTypes
<1>6. RequestTypes
    BY DEF RequestTypes, Approvals, Deletions, Repairs
<1>7. ForeignKeys
  <2>1. \A u \in UserIds : users[u] # NoOne => u < nextUser
    <3> SUFFICES ASSUME NEW u \in UserIds, u \in made PROVE u < nextUser
        OBVIOUS
    <3> HIDE DEF made
    <3>1. u \in 1 .. Cardinality(made)
        BY <1>2
    <3> QED BY <1>3, <1>4, <3>1
  <2> QED BY <1>1, <2>1, StatesAssumption DEF ForeignKeys
<1>8. DeletionStands
    BY DEF DeletionStands
<1>9. ReviewStands /\ RepairStands
    BY <1>1, StatesAssumption
    DEF ReviewStands, SubmitterStands, ClaimStands, KeysStand, KeyShared, CreditStands, CreditsStand, RepairStands
<1> QED BY <1>5, <1>6, <1>7, <1>8, <1>9 DEF AccountsInv

-----------------------------------------------------------------------------
(* Accounts: logins and renaming.                                          *)

\* Only the names of users change, and nobody who is there goes.
LEMMA NamesStep ==
    ASSUME AccountsInv, deletion.at = "idle",
           UNCHANGED <<credits, subs, approval, deletion, repair, repaired>>,
           nextUser' \in Nat, users' \in [UserIds -> Names \cup {NoOne}],
           \A u \in UserIds : /\ users[u] # NoOne => users'[u] # NoOne
                              /\ users'[u] # NoOne => u < nextUser'
                              /\ Gone(u) => u < nextUser' /\ users'[u] = NoOne
    PROVE  AccountsInv'
<1> USE DEF AccountsInv
<1>1. RowTypes' /\ RequestTypes'
    BY DEF RowTypes, RequestTypes
<1>2. ForeignKeys'
    BY DEF ForeignKeys, RowTypes, Submissions
<1>3. DeletionStands'
    BY DEF DeletionStands
<1>4. SubmitterStands'
    BY DEF ReviewStands, SubmitterStands, RequestTypes, Gone
<1>5. (ClaimStands /\ KeysStand /\ CreditStands /\ CreditsStand)'
    BY DEF ReviewStands, ClaimStands, KeysStand, KeyShared, CreditStands, CreditsStand, RequestTypes, Locked
<1>6. RepairStands'
    BY DEF RepairStands
<1> QED BY <1>1, <1>2, <1>3, <1>4, <1>5, <1>6 DEF ReviewStands

LEMMA NamesKeepAccounts ==
    ASSUME AccountsInv, NEW u \in UserIds, NEW name \in Names, FirstLogin(name) \/ Rename(u, name)
    PROVE  AccountsInv'
<1>1. CASE FirstLogin(name)
  <2> USE <1>1 DEF FirstLogin, AccountsInv
  <2>1. nextUser \in UserIds /\ users' = [users EXCEPT ![nextUser] = name] /\ nextUser' = nextUser + 1
      OBVIOUS
  <2>2. nextUser' \in Nat /\ users' \in [UserIds -> Names \cup {NoOne}]
      BY <2>1 DEF RowTypes
  <2>3. ASSUME NEW v \in UserIds
        PROVE  /\ users[v] # NoOne => users'[v] # NoOne
               /\ users'[v] # NoOne => v < nextUser'
               /\ Gone(v) => v < nextUser' /\ users'[v] = NoOne
    <3>1. v \in Nat /\ nextUser \in Nat /\ users'[v] = IF v = nextUser THEN name ELSE users[v]
        BY <2>1, Ids DEF RowTypes
    <3>2. users[v] # NoOne => v < nextUser
        BY DEF ForeignKeys
    <3> QED BY <2>1, <3>1, <3>2, Ids DEF Gone
  <2> QED BY <2>2, <2>3, NamesStep
<1>2. CASE Rename(u, name)
  <2> USE <1>2 DEF Rename, AccountsInv, IsUser
  <2>1. nextUser' \in Nat /\ users' \in [UserIds -> Names \cup {NoOne}]
      BY DEF RowTypes
  <2>2. \A v \in UserIds : /\ users[v] # NoOne => users'[v] # NoOne
                           /\ users'[v] # NoOne => v < nextUser'
                           /\ Gone(v) => v < nextUser' /\ users'[v] = NoOne
      BY Ids DEF RowTypes, ForeignKeys, Gone
  <2> QED BY <2>1, <2>2, NamesStep
<1> QED BY <1>1, <1>2

-----------------------------------------------------------------------------
(* Accounts: deleting a user.                                              *)

\* The steps of a deletion before it writes: one conjunct that only speaks of
\* the rows and of repairs is as it was.
LEMMA DeletionStep ==
    ASSUME AccountsInv, UNCHANGED <<users, credits, subs, approval, repair, repaired>>,
           nextUser' \in Nat, nextUser' >= nextUser, deletion' \in Deletions,
           DeletionStands', ClaimStands',
           approval.at # "idle" /\ Gone(approval.submitter) => approval.submitter # deletion'.sink,
           KeyShared \cap Locked' = {}
    PROVE  AccountsInv'
<1> USE DEF AccountsInv
<1>1. RowTypes' /\ RequestTypes'
    BY DEF RowTypes, RequestTypes
<1>2. ForeignKeys'
  <2>1. \A u \in UserIds : u < nextUser => u < nextUser'
      BY Ids DEF RowTypes
  <2> QED BY <2>1 DEF ForeignKeys
<1>3. SubmitterStands'
  <2>1. ASSUME approval.at # "idle", Gone(approval.submitter) PROVE Gone(approval.submitter)'
    <3>1. approval.submitter \in Nat /\ nextUser \in Nat
        BY <2>1, Ids DEF RowTypes, RequestTypes
    <3>2. approval.submitter < nextUser /\ approval.submitter # deletion'.sink
        BY <2>1 DEF Gone
    <3>3. approval.submitter < nextUser'
        BY <3>1, <3>2
    <3> QED BY <2>1, <3>2, <3>3 DEF Gone
  <2> QED BY <2>1 DEF ReviewStands, SubmitterStands, RequestTypes
<1>4. (KeysStand /\ CreditStands /\ CreditsStand)'
    BY DEF ReviewStands, KeysStand, KeyShared, CreditStands, CreditsStand
<1>5. RepairStands'
    BY DEF RepairStands
<1> QED BY <1>1, <1>2, <1>3, <1>4, <1>5 DEF ReviewStands

LEMMA BeginDeletionKeepsAccounts ==
    ASSUME AccountsInv, NEW u \in UserIds, BeginDeletion(u) PROVE AccountsInv'
<1> USE DEF BeginDeletion, AccountsInv, IsUser
<1>1. deletion' \in Deletions /\ DeletionStands' /\ ClaimStands' /\ nextUser' \in Nat /\ nextUser' >= nextUser
    BY DEF Deletions, DeletionStands, ClaimStands, RowTypes
<1>2. KeyShared \cap Locked' = {}
    BY DEF Locked
<1>3. approval.at # "idle" => approval.submitter # deletion'.sink
    BY Ids DEF RequestTypes
<1> QED BY <1>1, <1>2, <1>3, DeletionStep

LEMMA FindSinkKeepsAccounts ==
    ASSUME AccountsInv, FindSink PROVE AccountsInv'
<1> DEFINE named == {v \in UserIds : users[v] = "Deleted"}
<1> USE DEF AccountsInv
<1>1. CASE named # {}
  <2>1. First(named) \in named
    <3>1. named \in SUBSET Nat
        BY Ids
    <3> QED BY <1>1, <3>1, FirstId
  <2> DEFINE v == First(named)
  <2>2. v \in UserIds /\ users[v] = "Deleted" /\ v < nextUser /\ ~Gone(v)
      BY <2>1, Ids DEF ForeignKeys, Gone
  <2>3. deletion' = [deletion EXCEPT !.at = "sink", !.sink = v] /\ UNCHANGED nextUser
      BY <1>1 DEF FindSink
  <2>4. v \notin KeyShared
      BY <2>1 DEF FindSink
  <2> HIDE DEF v
  <2>5. deletion' \in Deletions /\ deletion'.at = "sink" /\ deletion'.user = deletion.user /\ deletion'.sink = v
      BY <2>2, <2>3 DEF RequestTypes, Deletions
  <2>7. DeletionStands' /\ ClaimStands'
      BY <2>2, <2>3, <2>5 DEF FindSink, DeletionStands, ClaimStands
  <2>8. nextUser' \in Nat /\ nextUser' >= nextUser
      BY <2>3 DEF RowTypes
  <2>6. KeyShared \cap Locked' = {}
      BY <2>4, <2>5 DEF FindSink, Locked, ReviewStands, KeysStand
  <2> QED BY <2>2, <2>5, <2>6, <2>7, <2>8, DeletionStep DEF FindSink
<1>2. CASE named = {}
  <2>1. nextUser \in UserIds /\ deletion' = [deletion EXCEPT !.at = "sink", !.sink = nextUser] /\ nextUser' = nextUser + 1
      BY <1>2 DEF FindSink
  <2>2. users[nextUser] = NoOne
      BY <2>1, Ids DEF ForeignKeys, RowTypes
  <2>3. deletion' \in Deletions /\ deletion'.at = "sink" /\ deletion'.user = deletion.user /\ deletion'.sink = nextUser
      BY <2>1 DEF RequestTypes, Deletions
  <2>6. nextUser' \in Nat /\ nextUser' >= nextUser /\ nextUser < nextUser'
      BY <2>1 DEF RowTypes
  <2>7. DeletionStands' /\ ClaimStands'
      BY <2>1, <2>2, <2>3, <2>6 DEF FindSink, DeletionStands, ClaimStands
  <2>4. KeyShared \cap Locked' = {}
      BY <2>2, <2>3 DEF FindSink, Locked, ReviewStands, KeysStand
  <2>5. approval.at # "idle" /\ Gone(approval.submitter) => approval.submitter # deletion'.sink
      BY <2>1, Ids DEF Gone, RequestTypes, Deletions, RowTypes
  <2> QED BY <2>3, <2>4, <2>5, <2>6, <2>7, DeletionStep DEF FindSink
<1> QED BY <1>1, <1>2

LEMMA LocksKeepAccounts ==
    ASSUME AccountsInv, LockCredits \/ LockSubmissions PROVE AccountsInv'
<1> USE DEF AccountsInv
<1>1. /\ deletion.at \in {"sink", "credits"} /\ deletion'.at \in {"credits", "moved"}
      /\ deletion' = [deletion EXCEPT !.at = deletion'.at]
      /\ UNCHANGED <<nextUser, users, credits, subs, approval, repair, repaired>>
      /\ deletion'.at = "moved" =>
            \A s \in LockedByApproval : deletion.user \notin {subs[s].submitter, subs[s].reviewer}
    BY DEF LockCredits, LockSubmissions, RequestTypes, Deletions
<1>2. deletion' \in Deletions /\ deletion'.user = deletion.user /\ deletion'.sink = deletion.sink
    BY <1>1 DEF RequestTypes, Deletions
<1>3. DeletionStands'
    BY <1>1, <1>2 DEF DeletionStands
<1>4. ClaimStands'
    BY <1>1, <1>2 DEF ClaimStands, LockedByApproval
<1>5. KeyShared \cap Locked' = {}
    BY <1>1, <1>2 DEF Locked, ReviewStands, KeysStand
<1>6. nextUser' \in Nat /\ nextUser' >= nextUser
    BY <1>1 DEF RowTypes
<1>7. approval.at # "idle" /\ Gone(approval.submitter) => approval.submitter # deletion'.sink
    BY <1>2 DEF Gone
<1> QED BY <1>1, <1>2, <1>3, <1>4, <1>5, <1>6, <1>7, DeletionStep

LEMMA AbortDeletionKeepsAccounts ==
    ASSUME AccountsInv, AbortDeletion PROVE AccountsInv'
<1> USE DEF AbortDeletion, AccountsInv, NoDeletion
<1>1. deletion' \in Deletions /\ DeletionStands' /\ ClaimStands' /\ nextUser' \in Nat /\ nextUser' >= nextUser
    BY DEF Deletions, DeletionStands, ClaimStands, RowTypes
<1>2. (approval.at # "idle" => approval.submitter # deletion'.sink) /\ KeyShared \cap Locked' = {}
    BY Ids DEF RequestTypes, Locked
<1> QED BY <1>1, <1>2, DeletionStep

\* A disc lists the account that takes over if it listed one of the two.
LEMMA MergedPosition ==
    ASSUME NEW u \in UserIds, NEW v \in UserIds, NEW row \in [UserIds -> Nat \cup {NoOne}]
    PROVE  /\ Merged(row, u, v) \in Nat \cup {NoOne}
           /\ Merged(row, u, v) # NoOne <=> row[u] # NoOne \/ row[v] # NoOne
<1>1. CASE row[u] = NoOne \/ row[v] = NoOne
    BY <1>1 DEF Merged
<1>2. CASE row[u] # NoOne /\ row[v] # NoOne
    BY <1>2, Ids DEF Merged, LowerPosition
<1> QED BY <1>1, <1>2

LEMMA PutPosition ==
    ASSUME NEW row \in [UserIds -> Nat \cup {NoOne}], NEW p \in Nat \cup {NoOne},
           NEW u \in UserIds, NEW v \in UserIds, u # v,
           NEW put, put = [row EXCEPT ![v] = p, ![u] = NoOne]
    PROVE  /\ put \in [UserIds -> Nat \cup {NoOne}]
           /\ \A w \in UserIds : put[w] = IF w = u THEN NoOne ELSE IF w = v THEN p ELSE row[w]
    OBVIOUS

LEMMA MovedCredits ==
    ASSUME credits \in [DiscIds -> [UserIds -> Nat \cup {NoOne}]],
           NEW u \in UserIds, NEW v \in UserIds, u # v
    PROVE  /\ MoveCredits(u, v) \in [DiscIds -> [UserIds -> Nat \cup {NoOne}]]
           /\ \A d \in DiscIds, w \in UserIds :
                w # u /\ credits[d][w] # NoOne => MoveCredits(u, v)[d][w] # NoOne
           /\ \A d \in DiscIds : credits[d][u] # NoOne => MoveCredits(u, v)[d][v] # NoOne
           /\ \A d \in DiscIds, w \in UserIds :
                MoveCredits(u, v)[d][w] # NoOne => w # u /\ (credits[d][w] # NoOne \/ w = v)
<1>1. ASSUME NEW d \in DiscIds
      PROVE  /\ MoveCredits(u, v)[d] = [credits[d] EXCEPT ![v] = Merged(credits[d], u, v), ![u] = NoOne]
             /\ Merged(credits[d], u, v) \in Nat \cup {NoOne}
             /\ Merged(credits[d], u, v) # NoOne <=> credits[d][u] # NoOne \/ credits[d][v] # NoOne
    BY MergedPosition DEF MoveCredits
<1>2. ASSUME NEW d \in DiscIds
      PROVE  /\ MoveCredits(u, v)[d] \in [UserIds -> Nat \cup {NoOne}]
             /\ \A w \in UserIds : w # u /\ credits[d][w] # NoOne => MoveCredits(u, v)[d][w] # NoOne
             /\ credits[d][u] # NoOne => MoveCredits(u, v)[d][v] # NoOne
             /\ \A w \in UserIds :
                    MoveCredits(u, v)[d][w] # NoOne => w # u /\ (credits[d][w] # NoOne \/ w = v)
  <2> DEFINE p == Merged(credits[d], u, v)
  <2>1. p \in Nat \cup {NoOne} /\ (p # NoOne <=> credits[d][u] # NoOne \/ credits[d][v] # NoOne)
      BY <1>1
  <2>2. MoveCredits(u, v)[d] = [credits[d] EXCEPT ![v] = p, ![u] = NoOne]
      BY <1>1
  <2> HIDE DEF p
  <2>3. /\ MoveCredits(u, v)[d] \in [UserIds -> Nat \cup {NoOne}]
        /\ \A w \in UserIds : MoveCredits(u, v)[d][w] = IF w = u THEN NoOne ELSE IF w = v THEN p ELSE credits[d][w]
      BY <2>1, <2>2, PutPosition
  <2> QED BY <2>1, <2>3
<1>3. MoveCredits(u, v) = [d \in DiscIds |-> MoveCredits(u, v)[d]]
    BY DEF MoveCredits
<1>4. MoveCredits(u, v) \in [DiscIds -> [UserIds -> Nat \cup {NoOne}]]
    BY <1>2, <1>3
<1> QED BY <1>2, <1>4

\* A row that is given what it has is what it was.
LEMMA SameSubmission ==
    ASSUME NEW row \in Submissions
    PROVE  [row EXCEPT !.submitter = row.submitter, !.reviewer = row.reviewer, !.version = row.version] = row
    BY DEF Submissions

LEMMA MovedSubmissions ==
    ASSUME subs \in [SubIds -> Submissions], NEW u \in UserIds, NEW v \in UserIds
    PROVE  /\ MoveSubmissions(u, v) \in [SubIds -> Submissions]
           /\ \A s \in SubIds :
                /\ MoveSubmissions(u, v)[s].submitter = Move(subs[s].submitter, u, v)
                /\ MoveSubmissions(u, v)[s].reviewer = Move(subs[s].reviewer, u, v)
                /\ MoveSubmissions(u, v)[s].type = subs[s].type
                /\ MoveSubmissions(u, v)[s].status = subs[s].status
                /\ MoveSubmissions(u, v)[s].target = subs[s].target
                /\ IF u \in {subs[s].submitter, subs[s].reviewer}
                   THEN MoveSubmissions(u, v)[s].version = subs[s].version + 1
                   ELSE MoveSubmissions(u, v)[s] = subs[s]
<1> DEFINE who(s) == Move(subs[s].submitter, u, v)
           by(s) == Move(subs[s].reviewer, u, v)
           version(s) == IF u \in {subs[s].submitter, subs[s].reviewer} THEN subs[s].version + 1 ELSE subs[s].version
<1>1. ASSUME NEW s \in SubIds
      PROVE  /\ subs[s] \in Submissions
             /\ MoveSubmissions(u, v)[s] = [subs[s] EXCEPT !.submitter = who(s), !.reviewer = by(s), !.version = version(s)]
             /\ who(s) \in UserIds /\ by(s) \in UserIds \cup {NoOne} /\ version(s) \in Nat
    BY DEF MoveSubmissions, Submissions, Move
<1>2. ASSUME NEW s \in SubIds, u \notin {subs[s].submitter, subs[s].reviewer}
      PROVE  who(s) = subs[s].submitter /\ by(s) = subs[s].reviewer /\ version(s) = subs[s].version
    BY <1>2 DEF Move
<1>3. \A s \in SubIds : u \in {subs[s].submitter, subs[s].reviewer} => version(s) = subs[s].version + 1
    OBVIOUS
<1>4. \A s \in SubIds : who(s) = Move(subs[s].submitter, u, v) /\ by(s) = Move(subs[s].reviewer, u, v)
    OBVIOUS
<1> HIDE DEF who, by, version
<1>5. \A s \in SubIds : MoveSubmissions(u, v)[s] \in Submissions
    BY <1>1, Zenon DEF Submissions
<1>6. MoveSubmissions(u, v) = [s \in SubIds |-> MoveSubmissions(u, v)[s]]
    BY DEF MoveSubmissions
<1>7. MoveSubmissions(u, v) \in [SubIds -> Submissions]
    BY <1>5, <1>6
<1>8. ASSUME NEW s \in SubIds
      PROVE  /\ MoveSubmissions(u, v)[s].submitter = who(s) /\ MoveSubmissions(u, v)[s].reviewer = by(s)
             /\ MoveSubmissions(u, v)[s].type = subs[s].type
             /\ MoveSubmissions(u, v)[s].status = subs[s].status
             /\ MoveSubmissions(u, v)[s].target = subs[s].target
             /\ MoveSubmissions(u, v)[s].version = version(s)
    BY <1>1, Zenon DEF Submissions
<1>9. ASSUME NEW s \in SubIds, u \notin {subs[s].submitter, subs[s].reviewer}
      PROVE  MoveSubmissions(u, v)[s] = subs[s]
  <2>1. /\ subs[s] \in Submissions
        /\ MoveSubmissions(u, v)[s] = [subs[s] EXCEPT !.submitter = who(s), !.reviewer = by(s), !.version = version(s)]
      BY <1>1
  <2>2. who(s) = subs[s].submitter /\ by(s) = subs[s].reviewer /\ version(s) = subs[s].version
      BY <1>2, <1>9
  <2> QED BY <2>1, <2>2, SameSubmission
<1> QED BY <1>3, <1>4, <1>7, <1>8, <1>9

LEMMA CommitDeletionKeepsAccounts ==
    ASSUME AccountsInv, CommitDeletion PROVE AccountsInv'
<1> DEFINE u == deletion.user
           v == deletion.sink
<1> USE DEF AccountsInv
<1>1. /\ u \in UserIds /\ v \in UserIds /\ u # v /\ v < nextUser /\ u < nextUser
      /\ users[u] # NoOne /\ users[v] \in {NoOne, "Deleted"}
    BY Ids DEF CommitDeletion, DeletionStands, ForeignKeys
<1>2. /\ deletion.at = "moved" /\ deletion' = NoDeletion
      /\ credits' = MoveCredits(u, v) /\ subs' = MoveSubmissions(u, v)
      /\ users' = [users EXCEPT ![u] = NoOne, ![v] = "Deleted"]
      /\ UNCHANGED <<nextUser, approval, repair, repaired>>
    BY DEF CommitDeletion
<1>3. approval.at # "idle" /\ Gone(approval.submitter) => approval.submitter # v
    BY DEF Gone
<1>4. \A w \in KeyShared : w \in UserIds /\ w # u /\ users[w] # NoOne
    BY <1>1, <1>2, Ids DEF ReviewStands, KeysStand, KeyShared, Locked, RequestTypes
<1>5. approval.at \in {"claimed", "checked", "credited"} =>
          u \notin {subs[approval.sub].submitter, subs[approval.sub].reviewer}
    BY <1>2 DEF ReviewStands, ClaimStands
<1> HIDE DEF u, v
<1>6. /\ credits' \in [DiscIds -> [UserIds -> Nat \cup {NoOne}]]
      /\ \A d \in DiscIds, w \in UserIds : w # u /\ credits[d][w] # NoOne => credits'[d][w] # NoOne
      /\ \A d \in DiscIds : credits[d][u] # NoOne => credits'[d][v] # NoOne
      /\ \A d \in DiscIds, w \in UserIds : credits'[d][w] # NoOne => w # u /\ (credits[d][w] # NoOne \/ w = v)
    BY <1>1, <1>2, MovedCredits DEF RowTypes
<1>7. /\ subs' \in [SubIds -> Submissions]
      /\ \A s \in SubIds :
            /\ subs'[s].submitter = Move(subs[s].submitter, u, v) /\ subs'[s].reviewer = Move(subs[s].reviewer, u, v)
            /\ subs'[s].type = subs[s].type /\ subs'[s].status = subs[s].status /\ subs'[s].target = subs[s].target
            /\ IF u \in {subs[s].submitter, subs[s].reviewer}
               THEN subs'[s].version = subs[s].version + 1 ELSE subs'[s] = subs[s]
    BY <1>1, <1>2, MovedSubmissions DEF RowTypes
<1>8. /\ users' \in [UserIds -> Names \cup {NoOne}]
      /\ \A w \in UserIds : users'[w] = IF w = v THEN "Deleted" ELSE IF w = u THEN NoOne ELSE users[w]
    BY <1>1, <1>2, Ids DEF RowTypes
<1>9. RowTypes' /\ RequestTypes'
    BY <1>2, <1>6, <1>7, <1>8 DEF RowTypes, RequestTypes, NoDeletion, Deletions
<1>10. ForeignKeys'
  <2>1. \A w \in UserIds : users'[w] # NoOne => w < nextUser'
      BY <1>1, <1>2, <1>8 DEF ForeignKeys
  <2>2. ASSUME NEW w \in UserIds, users[w] # NoOne PROVE users'[Move(w, u, v)] # NoOne
    <3>1. CASE w = u
      <4>1. Move(w, u, v) = v
          BY <3>1 DEF Move
      <4> QED BY <1>1, <1>8, <4>1, Ids
    <3>2. CASE w # u
      <4>1. Move(w, u, v) = w
          BY <3>2 DEF Move
      <4> QED BY <1>8, <2>2, <3>2, <4>1, Ids
    <3> QED BY <3>1, <3>2
  <2>4. ASSUME NEW s \in SubIds
        PROVE  /\ users'[subs'[s].submitter] # NoOne
               /\ subs'[s].reviewer # NoOne => users'[subs'[s].reviewer] # NoOne
    <3>1. /\ subs[s].submitter \in UserIds /\ users[subs[s].submitter] # NoOne
          /\ subs[s].reviewer # NoOne => subs[s].reviewer \in UserIds /\ users[subs[s].reviewer] # NoOne
        BY DEF ForeignKeys, RowTypes, Submissions
    <3>2. Move(NoOne, u, v) = NoOne
        BY <1>1, Ids DEF Move
    <3> QED BY <1>7, <2>2, <3>1, <3>2
  <2>3. \A d \in DiscIds, w \in UserIds : credits'[d][w] # NoOne => users'[w] # NoOne
      BY <1>6, <1>8, Ids DEF ForeignKeys
  <2> QED BY <2>1, <2>3, <2>4 DEF ForeignKeys
<1>11. DeletionStands'
    BY <1>2 DEF DeletionStands, NoDeletion
<1>12. SubmitterStands'
  <2> SUFFICES ASSUME approval.at # "idle", approval.sub \notin repaired,
                      approval.submitter # subs'[approval.sub].submitter
               PROVE  Gone(approval.submitter)'
      BY <1>2 DEF SubmitterStands
  <2>1. approval.sub \in SubIds /\ approval.submitter \in UserIds /\ deletion'.sink = NoOne
      BY <1>2 DEF RequestTypes, NoDeletion
  <2>2. CASE Gone(approval.submitter)
      BY <1>2, <1>3, <1>8, <2>1, <2>2, Ids DEF Gone
  <2>3. CASE approval.submitter = subs[approval.sub].submitter
    <3>1. approval.submitter = u
        BY <1>7, <2>1, <2>3 DEF Move
    <3> QED BY <1>1, <1>2, <1>8, <2>1, <3>1, Ids DEF Gone
  <2> QED BY <2>2, <2>3 DEF ReviewStands, SubmitterStands
<1>13. ClaimStands'
    BY <1>2 DEF ClaimStands, NoDeletion
<1>17. KeysStand'
  <2>1. KeyShared' = KeyShared /\ Locked' = {}
      BY <1>2 DEF KeyShared, Locked, NoDeletion
  <2> QED BY <1>4, <1>8, <2>1, Ids DEF KeysStand
<1>14. CreditStands'
  <2> SUFFICES ASSUME approval.at = "credited" PROVE CreditStands'
      BY <1>2 DEF ReviewStands, CreditStands
  <2>1. approval.sub \in SubIds /\ approval.submitter \in UserIds /\ approval.disc \in DiscIds \cup {NoOne}
      BY DEF RequestTypes, Approvals
  <2>2. subs'[approval.sub] = subs[approval.sub] /\ u # subs[approval.sub].submitter
      BY <1>5, <1>7, <2>1
  <2>4. ASSUME approval.credit = NoOne, approval.sub \notin repaired, subs[approval.sub].type = "Disc"
        PROVE  approval.disc # NoOne /\ credits'[approval.disc][approval.submitter] # NoOne
    <3>1. approval.disc \in DiscIds /\ approval.disc # NoOne /\ credits[approval.disc][approval.submitter] # NoOne
        BY <2>1, <2>4 DEF ReviewStands, CreditStands
    <3>2. users[approval.submitter] # NoOne
        BY <2>1, <3>1 DEF ForeignKeys
    <3>3. approval.submitter # u
        BY <2>2, <2>4, <3>2 DEF ReviewStands, SubmitterStands, Gone
    <3> QED BY <1>6, <2>1, <3>1, <3>3
  <2> QED BY <1>2, <2>2, <2>4 DEF CreditStands
<1>15. CreditsStand'
  <2> SUFFICES ASSUME NEW s \in SubIds \ repaired, subs[s].status = "Approved", subs[s].type = "Disc"
               PROVE  subs'[s].target # NoOne /\ credits'[subs'[s].target][subs'[s].submitter] # NoOne
      BY <1>2, <1>7 DEF CreditsStand
  <2>1. /\ subs[s].target \in DiscIds /\ subs[s].submitter \in UserIds
        /\ credits[subs[s].target][subs[s].submitter] # NoOne
      BY DEF ReviewStands, CreditsStand, RowTypes, Submissions
  <2> DEFINE d == subs[s].target
             w == subs[s].submitter
  <2>2. subs'[s].target = d /\ subs'[s].submitter = Move(w, u, v) /\ d # NoOne
      BY <1>7, <2>1, Ids
  <2>3. d \in DiscIds /\ w \in UserIds /\ credits[d][w] # NoOne
      BY <2>1
  <2> HIDE DEF d, w
  <2>4. CASE w = u
    <3>1. Move(w, u, v) = v
        BY <2>4 DEF Move
    <3> QED BY <1>1, <1>6, <2>2, <2>3, <2>4, <3>1
  <2>5. CASE w # u
    <3>1. Move(w, u, v) = w
        BY <2>5 DEF Move
    <3> QED BY <1>6, <2>2, <2>3, <2>5, <3>1
  <2> QED BY <2>4, <2>5
<1>16. RepairStands'
  <2> SUFFICES ASSUME repair.at # "idle" PROVE RepairStands'
      BY <1>2 DEF RepairStands
  <2>1. repair.sub \in SubIds /\ subs[repair.sub].version \in Nat /\ repair.shown.version \in Nat
      BY DEF RequestTypes, RowTypes, Submissions
  <2> QED BY <1>2, <1>7, <2>1 DEF RepairStands
<1> QED BY <1>9, <1>10, <1>11, <1>12, <1>13, <1>14, <1>15, <1>16, <1>17 DEF ReviewStands

-----------------------------------------------------------------------------
(* Accounts: approving a submission.                                       *)

\* The steps of an approval before it writes: one conjunct that only speaks of
\* the rows, of deletions and of repairs is as it was.
LEMMA ApprovalStep ==
    ASSUME AccountsInv, UNCHANGED <<users, nextUser, credits, subs, deletion, repair, repaired>>,
           approval' \in Approvals,
           approval'.at # "idle" =>
               approval'.sub \in SubIds /\ approval'.submitter \in UserIds /\ approval'.reviewer \in UserIds,
           SubmitterStands', ClaimStands', KeysStand', CreditStands'
    PROVE  AccountsInv'
<1> USE DEF AccountsInv
<1>1. RowTypes' /\ RequestTypes' /\ ForeignKeys' /\ DeletionStands'
    BY DEF RowTypes, RequestTypes, ForeignKeys, DeletionStands
<1>2. CreditsStand' /\ RepairStands'
    BY DEF ReviewStands, CreditsStand, RepairStands
<1> QED BY <1>1, <1>2 DEF ReviewStands

LEMMA NoApprovalKeepsAccounts ==
    ASSUME AccountsInv, approval' = NoApproval,
           UNCHANGED <<users, nextUser, credits, subs, deletion, repair, repaired>>
    PROVE  AccountsInv'
<1>1. approval' \in Approvals /\ approval'.at = "idle" /\ approval'.credit = NoOne
    BY DEF NoApproval, Approvals
<1>2. SubmitterStands' /\ ClaimStands' /\ KeysStand' /\ CreditStands'
    BY <1>1 DEF SubmitterStands, ClaimStands, KeysStand, KeyShared, CreditStands
<1> QED BY <1>1, <1>2, ApprovalStep

LEMMA LoadKeepsAccounts ==
    ASSUME AccountsInv, NEW s \in SubIds, NEW u \in Reviewers, LoadSubmission(s, u) PROVE AccountsInv'
<1> USE DEF AccountsInv
<1>1. subs[s] \in Submissions
    BY DEF RowTypes
<1>2. approval' = [at |-> "loaded", sub |-> s, submitter |-> subs[s].submitter, disc |-> subs[s].target,
                   reviewer |-> u, credit |-> NoOne]
    BY DEF LoadSubmission, NoApproval
<1>3. approval' \in Approvals /\ approval'.at = "loaded" /\ approval'.sub = s
      /\ approval'.submitter = subs[s].submitter /\ approval'.reviewer = u /\ approval'.credit = NoOne
    BY <1>1, <1>2, Ids DEF Approvals, Submissions
<1>4. SubmitterStands' /\ ClaimStands' /\ KeysStand' /\ CreditStands'
    BY <1>3 DEF LoadSubmission, SubmitterStands, ClaimStands, KeysStand, KeyShared, CreditStands
<1> QED BY <1>1, <1>3, <1>4, Ids, ApprovalStep DEF LoadSubmission, Submissions

LEMMA ClaimKeepsAccounts ==
    ASSUME AccountsInv, Claim PROVE AccountsInv'
<1> USE DEF AccountsInv
<1>1. CASE approval' = [approval EXCEPT !.at = "claimed"]
  <2>1. /\ approval' \in Approvals /\ approval'.at = "claimed" /\ approval'.sub = approval.sub
        /\ approval'.submitter = approval.submitter /\ approval'.reviewer = approval.reviewer
        /\ approval'.credit = approval.credit
      BY <1>1 DEF RequestTypes, Approvals
  <2>2. approval.at = "loaded" /\ approval.sub \in SubIds /\ approval.sub \notin LockedByDeletion
      BY DEF Claim, RequestTypes
  <2>3. SubmitterStands'
      BY <2>1, <2>2 DEF Claim, ReviewStands, SubmitterStands, Gone
  <2>4. ClaimStands' /\ KeysStand' /\ CreditStands'
      BY <2>1, <2>2 DEF Claim, ReviewStands, ClaimStands, KeysStand, KeyShared, CreditStands, LockedByDeletion
  <2> QED BY <2>1, <2>2, <2>3, <2>4, ApprovalStep DEF Claim, RequestTypes
<1> QED BY <1>1, NoApprovalKeepsAccounts DEF Claim

LEMMA CheckKeepsAccounts ==
    ASSUME AccountsInv, CheckReviewer PROVE AccountsInv'
<1> USE DEF AccountsInv
<1>1. CASE IsUser(approval.reviewer)
  <2>1. /\ approval' \in Approvals /\ approval'.at = "checked" /\ approval'.sub = approval.sub
        /\ approval'.submitter = approval.submitter /\ approval'.reviewer = approval.reviewer
        /\ approval'.credit = approval.credit
      BY <1>1 DEF CheckReviewer, RequestTypes, Approvals
  <2>2. approval.at = "claimed" /\ approval.credit = NoOne
      BY DEF CheckReviewer, ReviewStands, CreditStands
  <2>3. SubmitterStands'
      BY <2>1, <2>2 DEF CheckReviewer, ReviewStands, SubmitterStands, Gone
  <2>4. KeysStand'
    <3>1. KeyShared' = {approval.reviewer}
        BY <2>1, <2>2 DEF KeyShared
    <3> QED BY <1>1, <3>1 DEF CheckReviewer, KeysStand, IsUser, Locked
  <2>5. ClaimStands' /\ CreditStands'
      BY <2>1, <2>2 DEF CheckReviewer, ReviewStands, ClaimStands, CreditStands
  <2> QED BY <2>1, <2>2, <2>3, <2>4, <2>5, ApprovalStep DEF CheckReviewer, RequestTypes
<1> QED BY <1>1, NoApprovalKeepsAccounts DEF CheckReviewer

\* A credit that is given comes after the others of its disc.
LEMMA NextPosition ==
    ASSUME credits \in [DiscIds -> [UserIds -> Nat \cup {NoOne}]], NEW d \in DiscIds
    PROVE  /\ LastPosition(d) + 1 \in Nat
           /\ \A u \in DumpersShown(d) : credits[d][u] < LastPosition(d) + 1
<1> DEFINE S == {credits[d][u] : u \in DumpersShown(d)}
<1>1. CASE DumpersShown(d) = {}
    BY <1>1 DEF LastPosition
<1>2. CASE DumpersShown(d) # {}
  <2>1. S \in SUBSET Nat /\ S # {}
      BY <1>2 DEF DumpersShown
  <2>2. IsFiniteSet(S)
    <3>1. IsFiniteSet(DumpersShown(d))
        BY AccountsAssumption, FS_Subset DEF DumpersShown
    <3> DEFINE position == [u \in DumpersShown(d) |-> credits[d][u]]
    <3>2. position \in Surjection(DumpersShown(d), S)
        BY DEF Surjection
    <3> HIDE DEF position, S
    <3> QED BY <3>1, <3>2, FS_Surjection
  <2>3. \E p \in S : \A q \in S : q <= p
    <3> HIDE DEF S
    <3> QED BY <2>1, <2>2, GreatestNumber
  <2>4. LastPosition(d) = CHOOSE p \in S : \A u \in DumpersShown(d) : credits[d][u] <= p
      BY <1>2 DEF LastPosition
  <2>5. \E p \in S : \A u \in DumpersShown(d) : credits[d][u] <= p
      BY <2>3
  <2>6. LastPosition(d) \in S /\ \A u \in DumpersShown(d) : credits[d][u] <= LastPosition(d)
      BY <2>4, <2>5
  <2>7. LastPosition(d) \in Nat /\ \A u \in DumpersShown(d) : credits[d][u] \in Nat
      BY <2>1, <2>6
  <2> QED BY <2>6, <2>7
<1> QED BY <1>1, <1>2

\* The user has a credit of the disc already.
HasCredit == approval.disc # NoOne /\ credits[approval.disc][approval.submitter] # NoOne

\* The submitter is there, nobody is deleting that account, and the credit is
\* given.
GivesCredit ==
    /\ IsUser(approval.submitter) /\ approval.submitter \notin Locked /\ ~HasCredit
    /\ approval' = [approval EXCEPT !.at = "credited",
                                    !.credit = IF approval.disc = NoOne THEN 0 ELSE LastPosition(approval.disc) + 1]

GivesNone ==
    /\ subs[approval.sub].type = "Edit" \/ HasCredit
    /\ approval' = [approval EXCEPT !.at = "credited"]

LEMMA CreditCases ==
    ASSUME CreditDumper PROVE GivesNone \/ GivesCredit \/ approval' = NoApproval
    BY DEF CreditDumper, GivesNone, GivesCredit, HasCredit

LEMMA CreditKeepsAccounts ==
    ASSUME AccountsInv, CreditDumper PROVE AccountsInv'
<1> USE DEF AccountsInv
<1>1. approval.at = "checked" /\ approval.sub \in SubIds /\ approval.submitter \in UserIds
    BY DEF CreditDumper, RequestTypes
<1> DEFINE keeps == /\ approval'.at = "credited" /\ approval'.sub = approval.sub /\ approval'.disc = approval.disc
                    /\ approval'.submitter = approval.submitter /\ approval'.reviewer = approval.reviewer
<1>2. ASSUME approval' \in Approvals, keeps, KeysStand', CreditStands' PROVE AccountsInv'
  <2>1. SubmitterStands'
      BY <1>1, <1>2 DEF CreditDumper, ReviewStands, SubmitterStands, Gone
  <2>2. ClaimStands'
      BY <1>1, <1>2 DEF CreditDumper, ReviewStands, ClaimStands
  <2> QED BY <1>1, <1>2, <2>1, <2>2, ApprovalStep DEF CreditDumper, RequestTypes
<1>3. CASE GivesNone
  <2>1. approval' \in Approvals /\ keeps /\ approval'.credit = approval.credit
      BY <1>3 DEF GivesNone, RequestTypes, Approvals
  <2>2. approval.credit = NoOne
      BY <1>1 DEF ReviewStands, CreditStands
  <2>4. KeysStand'
      BY <1>1, <2>1, <2>2 DEF CreditDumper, ReviewStands, KeysStand, KeyShared, Locked
  <2>3. CreditStands'
      BY <1>3, <2>1, <2>2 DEF GivesNone, HasCredit, CreditDumper, CreditStands
  <2> QED BY <1>2, <2>1, <2>3, <2>4
<1>4. CASE GivesCredit
  <2> DEFINE p == IF approval.disc = NoOne THEN 0 ELSE LastPosition(approval.disc) + 1
  <2>1. p \in Nat
      BY NextPosition DEF RowTypes, RequestTypes, Approvals
  <2>2. approval' = [approval EXCEPT !.at = "credited", !.credit = p]
      BY <1>4 DEF GivesCredit
  <2> HIDE DEF p
  <2>3. approval' \in Approvals /\ keeps /\ approval'.credit = p /\ p # NoOne
      BY <2>1, <2>2, Ids DEF RequestTypes, Approvals
  <2>4. CreditStands'
      BY <2>3 DEF CreditStands
  <2>5. KeysStand'
    <3>1. KeyShared' = KeyShared \cup {approval.submitter}
        BY <1>1, <2>3 DEF KeyShared, ReviewStands, CreditStands
    <3> QED BY <1>4, <3>1 DEF GivesCredit, CreditDumper, ReviewStands, KeysStand, IsUser, Locked
  <2> QED BY <1>2, <2>3, <2>4, <2>5
<1>5. CASE approval' = NoApproval
    BY <1>5, NoApprovalKeepsAccounts DEF CreditDumper
<1> QED BY <1>3, <1>4, <1>5, CreditCases

LEMMA CommitApprovalKeepsAccounts ==
    ASSUME AccountsInv, CommitApproval PROVE AccountsInv'
<1> DEFINE s == approval.sub
           u == approval.submitter
           fresh == {e \in DiscIds : \A f \in DiscIds : f >= e => DumpersShown(f) = {}}
           d == IF approval.disc = NoOne THEN First(fresh) ELSE approval.disc
<1> USE DEF AccountsInv
<1>1. /\ approval.at = "credited" /\ approval' = NoApproval
      /\ UNCHANGED <<nextUser, users, deletion, repair, repaired>>
      /\ credits' = IF approval.credit = NoOne THEN credits ELSE [credits EXCEPT ![d][u] = approval.credit]
      /\ subs' = [subs EXCEPT ![s] = [@ EXCEPT !.status = "Approved", !.reviewer = approval.reviewer,
                                               !.target = d, !.version = subs[s].version + 1]]
    BY DEF CommitApproval
<1>2. s \in SubIds /\ u \in UserIds /\ approval.reviewer \in UserIds /\ approval.credit \in Nat \cup {NoOne}
    BY <1>1 DEF RequestTypes, Approvals
<1>3. d \in DiscIds
  <2>1. CASE approval.disc = NoOne
    <3>1. fresh # {}
        BY <2>1 DEF CommitApproval
    <3>2. fresh \in SUBSET Nat
        BY Ids
    <3> HIDE DEF fresh
    <3>3. First(fresh) \in fresh
        BY <3>1, <3>2, FirstId
    <3> QED BY <2>1, <3>3 DEF fresh
  <2>2. CASE approval.disc # NoOne
      BY <2>2 DEF RequestTypes, Approvals
  <2> QED BY <2>1, <2>2
<1>4. approval.disc # NoOne => d = approval.disc
    OBVIOUS
<1> HIDE DEF s, u, d
<1>5. /\ credits' \in [DiscIds -> [UserIds -> Nat \cup {NoOne}]]
      /\ \A e \in DiscIds, w \in UserIds :
            credits'[e][w] = IF approval.credit # NoOne /\ e = d /\ w = u THEN approval.credit ELSE credits[e][w]
  <2>1. CASE approval.credit = NoOne
      BY <1>1, <2>1 DEF RowTypes
  <2>2. CASE approval.credit # NoOne
      BY <1>1, <1>2, <1>3, <2>2 DEF RowTypes
  <2> QED BY <2>1, <2>2
<1>6. /\ subs' \in [SubIds -> Submissions]
      /\ \A r \in SubIds \ {s} : subs'[r] = subs[r]
      /\ subs'[s].submitter = subs[s].submitter /\ subs'[s].type = subs[s].type
      /\ subs'[s].target = d /\ subs'[s].version = subs[s].version + 1
      /\ subs'[s].reviewer = approval.reviewer
  <2>1. subs[s] \in Submissions /\ subs[s].version \in Nat
      BY <1>2 DEF RowTypes, Submissions
  <2>2. /\ subs'[s] = [subs[s] EXCEPT !.status = "Approved", !.reviewer = approval.reviewer,
                                      !.target = d, !.version = subs[s].version + 1]
        /\ \A r \in SubIds \ {s} : subs'[r] = subs[r]
      BY <1>1, <1>2 DEF RowTypes
  <2> DEFINE row == subs[s]
             new == subs'[s]
             version == subs[s].version + 1
  <2>6. /\ new = [row EXCEPT !.status = "Approved", !.reviewer = approval.reviewer, !.target = d, !.version = version]
        /\ row \in Submissions /\ version \in Nat
      BY <2>1, <2>2
  <2>3. new \in Submissions /\ new.submitter = row.submitter /\ new.type = row.type /\ new.target = d /\ new.version = version
        /\ new.reviewer = approval.reviewer
    <3> HIDE DEF row, new, version
    <3>1. DOMAIN row = {"type", "submitter", "target", "status", "reviewer", "version"}
        BY <2>6 DEF Submissions
    <3>2. /\ new.status = "Approved" /\ new.reviewer = approval.reviewer /\ new.target = d /\ new.version = version
          /\ new.submitter = row.submitter /\ new.type = row.type
        BY <2>6, <3>1
    <3>3. new = [type |-> new.type, submitter |-> new.submitter, target |-> new.target, status |-> new.status,
                 reviewer |-> new.reviewer, version |-> new.version]
        BY <2>6, <3>1
    <3>4. row.type \in {"Disc", "Edit"} /\ row.submitter \in UserIds
        BY <2>6 DEF Submissions
    <3> QED BY <1>2, <1>3, <2>6, <3>2, <3>3, <3>4 DEF Submissions, Statuses
  <2>4. subs' = [r \in SubIds |-> subs'[r]]
      BY <1>1 DEF RowTypes
  <2>5. \A r \in SubIds : subs'[r] \in Submissions
      BY <2>2, <2>3 DEF RowTypes
  <2> QED BY <2>2, <2>3, <2>4, <2>5
<1>14. /\ users[approval.reviewer] # NoOne /\ subs'[s].reviewer = approval.reviewer
       /\ approval.credit # NoOne => users[u] # NoOne
    BY <1>1, <1>6 DEF ReviewStands, KeysStand, KeyShared, u
<1>7. approval.credit # NoOne \/ (s \notin repaired /\ subs[s].type = "Disc") => users[u] # NoOne
    BY <1>1, <1>2, <1>14 DEF ReviewStands, CreditStands, ForeignKeys, RequestTypes, Approvals, s, u
<1>8. RowTypes' /\ RequestTypes'
    BY <1>1, <1>5, <1>6 DEF RowTypes, RequestTypes, NoApproval, Approvals
<1>9. ForeignKeys'
  <2>1. \A r \in SubIds : /\ users[subs'[r].submitter] # NoOne
                           /\ subs'[r].reviewer # NoOne => users[subs'[r].reviewer] # NoOne
      BY <1>6, <1>14 DEF ForeignKeys
  <2>2. \A e \in DiscIds, w \in UserIds : credits'[e][w] # NoOne => users[w] # NoOne
      BY <1>5, <1>7 DEF ForeignKeys
  <2> QED BY <1>1, <2>1, <2>2 DEF ForeignKeys
<1>10. DeletionStands'
    BY <1>1 DEF DeletionStands
<1>11. SubmitterStands' /\ ClaimStands' /\ KeysStand' /\ CreditStands'
    BY <1>1 DEF SubmitterStands, ClaimStands, KeysStand, KeyShared, CreditStands, NoApproval
<1>12. CreditsStand'
  <2>1. \A e \in DiscIds, w \in UserIds : credits[e][w] # NoOne => credits'[e][w] # NoOne
      BY <1>5
  <2>2. ASSUME NEW r \in SubIds \ repaired, r # s, subs'[r].status = "Approved", subs'[r].type = "Disc"
        PROVE  subs'[r].target # NoOne /\ credits'[subs'[r].target][subs'[r].submitter] # NoOne
    <3>1. subs'[r] = subs[r] /\ subs[r].submitter \in UserIds /\ subs[r].target \in DiscIds \cup {NoOne}
        BY <1>6, <2>2 DEF RowTypes, Submissions
    <3>2. subs[r].target # NoOne /\ credits[subs[r].target][subs[r].submitter] # NoOne
        BY <2>2, <3>1 DEF ReviewStands, CreditsStand
    <3> QED BY <2>1, <3>1, <3>2
  <2>3. ASSUME s \notin repaired, subs[s].type = "Disc"
        PROVE  d # NoOne /\ credits'[d][subs[s].submitter] # NoOne
    <3>1. u = subs[s].submitter
        BY <1>1, <1>7, <2>3 DEF ReviewStands, SubmitterStands, Gone, s, u
    <3>2. credits'[d][u] # NoOne
      <4>1. CASE approval.credit # NoOne
          BY <1>2, <1>3, <1>5, <4>1
      <4>2. CASE approval.credit = NoOne
        <5>1. approval.disc # NoOne /\ credits[approval.disc][u] # NoOne
            BY <1>1, <2>3, <4>2 DEF ReviewStands, CreditStands, s, u
        <5> QED BY <1>2, <1>3, <1>4, <2>1, <5>1
      <4> QED BY <4>1, <4>2
    <3> QED BY <1>3, <3>1, <3>2, Ids
  <2> QED BY <1>1, <1>6, <2>2, <2>3 DEF CreditsStand
<1>13. RepairStands'
  <2> SUFFICES ASSUME repair.at # "idle" PROVE RepairStands'
      BY <1>1 DEF RepairStands
  <2>1. repair.sub \in SubIds /\ subs[repair.sub].version \in Nat /\ repair.shown.version \in Nat
      BY DEF RequestTypes, RowTypes, Submissions
  <2>2. CASE repair.sub = s
      BY <1>1, <1>6, <2>1, <2>2 DEF RepairStands
  <2>3. CASE repair.sub # s
      BY <1>1, <1>6, <2>1, <2>3 DEF RepairStands
  <2> QED BY <2>2, <2>3
<1> QED BY <1>8, <1>9, <1>10, <1>11, <1>12, <1>13 DEF ReviewStands

LEMMA ApprovalKeepsAccounts ==
    ASSUME AccountsInv, Claim \/ CheckReviewer \/ CreditDumper \/ CommitApproval \/ AbortApproval
    PROVE  AccountsInv'
<1>1. CASE AbortApproval
    BY <1>1, NoApprovalKeepsAccounts DEF AbortApproval
<1> QED BY <1>1, ClaimKeepsAccounts, CheckKeepsAccounts, CreditKeepsAccounts, CommitApprovalKeepsAccounts

-----------------------------------------------------------------------------
(* Accounts: repairing a submission.                                       *)

LEMMA RepairStep ==
    ASSUME AccountsInv, UNCHANGED <<users, nextUser, credits, subs, approval, deletion, repaired>>,
           repair' \in Repairs, RepairStands',
           repair'.at # "idle" => repair'.sub \in SubIds /\ repair'.shown \in Submissions,
           repair'.at = "validated" => repair'.post \in Submissions
    PROVE  AccountsInv'
<1> USE DEF AccountsInv
<1>1. RowTypes' /\ RequestTypes' /\ ForeignKeys' /\ DeletionStands'
    BY DEF RowTypes, RequestTypes, ForeignKeys, DeletionStands
<1>2. ReviewStands'
    BY DEF ReviewStands, SubmitterStands, ClaimStands, KeysStand, KeyShared, CreditStands, CreditsStand, Gone, Locked
<1> QED BY <1>1, <1>2

LEMMA ShowKeepsAccounts ==
    ASSUME AccountsInv, NEW s \in SubIds, ShowSubmission(s) PROVE AccountsInv'
<1> USE DEF AccountsInv
<1>1. subs[s] \in Submissions /\ subs[s].version \in Nat
    BY DEF RowTypes, Submissions
<1>2. repair' = [at |-> "shown", sub |-> s, shown |-> subs[s], post |-> NoOne]
    BY DEF ShowSubmission, NoRepair
<1>3. repair' \in Repairs /\ repair'.at = "shown" /\ repair'.sub = s /\ repair'.shown = subs[s]
    BY <1>1, <1>2 DEF Repairs
<1>4. RepairStands'
    BY <1>1, <1>3 DEF ShowSubmission, RepairStands
<1> QED BY <1>1, <1>3, <1>4, RepairStep DEF ShowSubmission

\* What is posted is a submission.
LEMMA PostedRow ==
    ASSUME NEW seen \in Submissions, NEW post \in Posts
    PROVE  [field \in DOMAIN seen |-> IF field \in DOMAIN post THEN post[field] ELSE seen[field]] \in Submissions
<1> DEFINE row == [field \in DOMAIN seen |-> IF field \in DOMAIN post THEN post[field] ELSE seen[field]]
<1>1. DOMAIN seen = {"type", "submitter", "target", "status", "reviewer", "version"}
    BY DEF Submissions
<1>2. row = [type |-> row["type"], submitter |-> row["submitter"], target |-> row["target"],
             status |-> row["status"], reviewer |-> row["reviewer"], version |-> row["version"]]
    BY <1>1
<1>3. "version" \notin DOMAIN post
    BY PostsAssumption
<1>4. /\ row["type"] \in {"Disc", "Edit"} /\ row["submitter"] \in UserIds /\ row["target"] \in DiscIds \cup {NoOne}
      /\ row["status"] \in Statuses /\ row["reviewer"] \in UserIds \cup {NoOne} /\ row["version"] \in Nat
    BY <1>1, <1>3, PostsAssumption DEF Submissions
<1> HIDE DEF row
<1> QED BY <1>2, <1>4 DEF Submissions, row

LEMMA PostKeepsAccounts ==
    ASSUME AccountsInv, NEW post \in Posts, PostRepair(post) PROVE AccountsInv'
<1> USE DEF AccountsInv
<1> DEFINE row == [field \in DOMAIN repair.shown |-> IF field \in DOMAIN post THEN post[field] ELSE repair.shown[field]]
<1>1. repair.at = "shown" /\ repair.sub \in SubIds /\ repair.shown \in Submissions
    BY DEF PostRepair, RequestTypes
<1>2. row \in Submissions
    BY <1>1, PostedRow
<1>3. repair' = NoRepair \/ repair' = [repair EXCEPT !.at = "validated", !.post = row]
    BY DEF PostRepair
<1> HIDE DEF row
<1>4. CASE repair' = NoRepair
  <2>1. repair' \in Repairs /\ repair'.at = "idle"
      BY <1>4 DEF NoRepair, Repairs
  <2> QED BY <2>1, RepairStep, Zenon DEF PostRepair, RepairStands
<1>5. CASE repair' = [repair EXCEPT !.at = "validated", !.post = row]
  <2>1. repair' \in Repairs /\ repair'.sub = repair.sub /\ repair'.shown = repair.shown /\ repair'.post = row
      BY <1>2, <1>5 DEF RequestTypes, Repairs
  <2>2. RepairStands'
      BY <1>1, <2>1 DEF PostRepair, RepairStands
  <2> QED BY <1>1, <1>2, <2>1, <2>2, RepairStep DEF PostRepair
<1> QED BY <1>3, <1>4, <1>5

\* The row of a repair, as it is written.
LEMMA SavedRow ==
    ASSUME NEW row \in Submissions, NEW version \in Nat, NEW new, new = [row EXCEPT !.version = version]
    PROVE  new \in Submissions /\ \A field \in DOMAIN row \ {"version"} : new[field] = row[field]
    BY DEF Submissions

LEMMA SaveKeepsAccounts ==
    ASSUME AccountsInv, SaveRepair PROVE AccountsInv'
<1> DEFINE s == repair.sub
           row == repair.post
           new == {row.submitter, row.reviewer} \ {subs[s].submitter, subs[s].reviewer, NoOne}
           saved == subs' = [subs EXCEPT ![s] = [row EXCEPT !.version = row.version + 1]]
<1> USE DEF AccountsInv
<1>1. /\ repair.at = "validated" /\ s \in SubIds /\ row \in Submissions /\ repair' = NoRepair
      /\ UNCHANGED <<nextUser, users, credits, approval, deletion>>
      /\ s \notin LockedByApproval \cup LockedByDeletion
    BY DEF SaveRepair, RequestTypes
<1>2. repair' \in Repairs /\ repair'.at = "idle"
    BY <1>1 DEF NoRepair, Repairs
<1>3. RepairStands'
    BY <1>2 DEF RepairStands
<1>4. CASE UNCHANGED <<subs, repaired>>
    BY <1>1, <1>2, <1>3, <1>4, RepairStep
<1>5. CASE saved /\ repaired' = repaired \cup {s} /\ \A u \in new : IsUser(u)
  <2>1. row.version + 1 \in Nat
      BY <1>1 DEF Submissions
  <2>2. subs'[s] = [row EXCEPT !.version = row.version + 1] /\ \A r \in SubIds \ {s} : subs'[r] = subs[r]
      BY <1>1, <1>5 DEF RowTypes
  <2>3. subs'[s] \in Submissions /\ subs'[s].submitter = row.submitter /\ subs'[s].reviewer = row.reviewer
    <3>1. DOMAIN row = {"type", "submitter", "target", "status", "reviewer", "version"}
        BY <1>1 DEF Submissions
    <3> HIDE DEF s, row
    <3> QED BY <1>1, <2>1, <2>2, <3>1, SavedRow
  <2>4. subs' \in [SubIds -> Submissions]
    <3>1. subs' = [r \in SubIds |-> subs'[r]]
        BY <1>5 DEF RowTypes
    <3>2. \A r \in SubIds : subs'[r] \in Submissions
        BY <2>2, <2>3 DEF RowTypes
    <3> QED BY <3>1, <3>2
  <2>5. /\ users[row.submitter] # NoOne
        /\ row.reviewer # NoOne => users[row.reviewer] # NoOne
    <3>1. /\ users[subs[s].submitter] # NoOne
          /\ subs[s].reviewer # NoOne => users[subs[s].reviewer] # NoOne
        BY <1>1 DEF ForeignKeys
    <3>2. row.submitter # NoOne
        BY <1>1, Ids DEF Submissions
    <3> QED BY <1>5, <3>1, <3>2 DEF IsUser
  <2> HIDE DEF s, row, saved
  <2>6. RowTypes' /\ RequestTypes'
      BY <1>1, <1>2, <1>5, <2>4 DEF RowTypes, RequestTypes
  <2>7. ForeignKeys'
      BY <1>1, <2>2, <2>3, <2>5 DEF ForeignKeys
  <2>8. DeletionStands'
      BY <1>1 DEF DeletionStands
  <2>9. SubmitterStands'
      BY <1>1, <1>5, <2>2 DEF ReviewStands, SubmitterStands, Gone, RequestTypes
  <2>10. ClaimStands' /\ KeysStand' /\ CreditStands'
      BY <1>1, <1>5, <2>2
      DEF ReviewStands, ClaimStands, KeysStand, KeyShared, Locked, CreditStands, RequestTypes, LockedByApproval
  <2>11. CreditsStand'
      BY <1>1, <1>5, <2>2 DEF ReviewStands, CreditsStand
  <2> QED BY <1>3, <2>6, <2>7, <2>8, <2>9, <2>10, <2>11 DEF ReviewStands
<1> QED BY <1>4, <1>5 DEF SaveRepair

LEMMA AccountsStep == AccountsInv /\ [AccountsNext]_accountVars => AccountsInv'
<1> SUFFICES ASSUME AccountsInv, [AccountsNext]_accountVars PROVE AccountsInv'
    OBVIOUS
<1>1. CASE \E name \in Names \ {"Deleted"} : FirstLogin(name)
  <2>1. PICK name \in Names : FirstLogin(name)
      BY <1>1
  <2>2. nextUser \in UserIds
      BY <2>1 DEF FirstLogin
  <2> QED BY <2>1, <2>2, NamesKeepAccounts
<1>2. CASE \E u \in UserIds : (\E name \in Names : Rename(u, name)) \/ BeginDeletion(u)
    BY <1>2, NamesKeepAccounts, BeginDeletionKeepsAccounts
<1>3. CASE FindSink \/ LockCredits \/ LockSubmissions \/ CommitDeletion \/ AbortDeletion
    BY <1>3, FindSinkKeepsAccounts, LocksKeepAccounts, CommitDeletionKeepsAccounts, AbortDeletionKeepsAccounts
<1>4. CASE \E s \in SubIds : (\E u \in Reviewers : LoadSubmission(s, u)) \/ ShowSubmission(s)
    BY <1>4, LoadKeepsAccounts, ShowKeepsAccounts
<1>5. CASE Claim \/ CheckReviewer \/ CreditDumper \/ CommitApproval \/ AbortApproval
    BY <1>5, ApprovalKeepsAccounts
<1>6. CASE (\E post \in Posts : PostRepair(post)) \/ SaveRepair
    BY <1>6, PostKeepsAccounts, SaveKeepsAccounts
<1>7. CASE UNCHANGED accountVars
    BY <1>7 DEF accountVars, AccountsInv, RowTypes, RequestTypes, ForeignKeys, DeletionStands, ReviewStands,
        SubmitterStands, ClaimStands, KeysStand, KeyShared, CreditStands, CreditsStand, RepairStands, Gone, Locked
<1> QED BY <1>1, <1>2, <1>3, <1>4, <1>5, <1>6, <1>7 DEF AccountsNext

\* Whoever is deleted, renamed, approved or repaired meanwhile, ids are not used
\* twice, the foreign keys hold, a deletion and an approval keep out of each
\* other's rows, and a row that has the version it was shown with is as it was.
THEOREM AccountsInvariance == AccountsSpec => []AccountsInv
<1>1. AccountsInit => AccountsInv
    BY AccountsStart
<1>2. AccountsInv /\ [AccountsNext]_accountVars => AccountsInv'
    BY AccountsStep
<1> QED BY <1>1, <1>2, PTL DEF AccountsSpec

\* However a deletion and an approval interleave, an approved dump that nobody
\* has repaired is credited to the user whom the submission names
\* (approve_submission, delete_user).
THEOREM ApprovalsAreCredited == AccountsSpec => []ApprovedIsCredited
<1>1. AccountsInv => ApprovedIsCredited
    BY DEF AccountsInv, ReviewStands, CreditsStand, ApprovedIsCredited, DumpersShown, RowTypes, Submissions
<1> QED BY <1>1, AccountsInvariance, PTL

\* A repair that is saved changes what the administrator has changed in the
\* form and nothing else, whatever others have done to the submission since it
\* was shown (update_maintenance_submission_on).
THEOREM RepairsLoseNothing == AccountsSpec => RepairLosesNothing
<1> DEFINE kept == \A s \in SubIds : repair.at = "validated" /\ repair.sub = s /\ subs'[s] # subs[s] /\ repair'.at = "idle" =>
                     \A field \in DOMAIN subs[s] \ {"version"} :
                         subs'[s][field] # subs[s][field] => repair.post[field] # repair.shown[field]
<1>1. ASSUME AccountsInv, [AccountsNext]_accountVars PROVE kept
  <2> SUFFICES ASSUME NEW s \in SubIds, repair.at = "validated", repair.sub = s, subs'[s] # subs[s], repair'.at = "idle"
               PROVE  \A field \in DOMAIN subs[s] \ {"version"} :
                          subs'[s][field] # subs[s][field] => repair.post[field] # repair.shown[field]
      BY Zenon
  <2>1. SaveRepair
    <3>1. repair' # repair
        OBVIOUS
    <3>2. ~\E post \in Posts : PostRepair(post)
        BY DEF PostRepair
    <3>3. ~\E r \in SubIds : ShowSubmission(r)
        BY DEF ShowSubmission
    <3> QED BY <1>1, <3>1, <3>2, <3>3, Zenon
        DEF AccountsNext, accountVars, FirstLogin, Rename, BeginDeletion, FindSink, LockCredits, LockSubmissions,
            CommitDeletion, AbortDeletion, LoadSubmission, Claim, CheckReviewer, CreditDumper, CommitApproval, AbortApproval
  <2>2. /\ subs[s].version = repair.shown.version
        /\ subs' = [subs EXCEPT ![s] = [repair.post EXCEPT !.version = repair.post.version + 1]]
      BY <2>1 DEF SaveRepair
  <2>3. repair.shown = subs[s] /\ repair.post \in Submissions /\ subs[s] \in Submissions
      BY <1>1, <2>2 DEF AccountsInv, RepairStands, RequestTypes, RowTypes
  <2>4. subs'[s] = [repair.post EXCEPT !.version = repair.post.version + 1]
      BY <1>1, <2>2 DEF AccountsInv, RowTypes
  <2>5. DOMAIN repair.post = DOMAIN subs[s]
      BY <2>3 DEF Submissions
  <2>6. \A field \in DOMAIN subs[s] \ {"version"} : subs'[s][field] = repair.post[field]
      BY <2>4, <2>5
  <2> QED BY <2>3, <2>6
<1>2. AccountsInv /\ [AccountsNext]_accountVars => [kept]_accountVars
    BY <1>1
<1> QED BY <1>2, AccountsInvariance, PTL DEF AccountsSpec, RepairLosesNothing

-----------------------------------------------------------------------------
(* Credits: the lists of dumpers.                                          *)

\* An account takes the place of another: of two places the earlier one.
TakesPlace(S, f, u, v, T, g) ==
    /\ InLine(S, f) /\ u # v
    /\ T = {IF x = u THEN v ELSE x : x \in S}
    /\ \A x \in S \ {u, v} : g[x] = f[x]
    /\ u \in S /\ v \notin S => g[v] = f[u]
    /\ u \notin S /\ v \in S => g[v] = f[v]
    /\ u \in S /\ v \in S => g[v] = IF f[u] < f[v] THEN f[u] ELSE f[v]

LEMMA ListedInPlace ==
    ASSUME NEW S, NEW f, NEW u, NEW v, NEW T, NEW g, TakesPlace(S, f, u, v, T, g)
    PROVE  InLine(T, g) /\ Listing(T, g) = Credited!Replaced(Listing(S, f), u, v)
<1> DEFINE N == Cardinality(S)
           L == Listing(S, f)
           named == [i \in DOMAIN L |-> IF L[i] = u THEN v ELSE L[i]]
           kept == {i \in DOMAIN L : \A j \in 1 .. i - 1 : named[j] # named[i]}
           e == [i \in kept |-> i]
           t == Credited!Replaced(L, u, v)
<1>0. /\ InLine(S, f) /\ u # v
      /\ T = {IF x = u THEN v ELSE x : x \in S}
      /\ \A x \in S \ {u, v} : g[x] = f[x]
      /\ u \in S /\ v \notin S => g[v] = f[u]
      /\ u \notin S /\ v \in S => g[v] = f[v]
      /\ u \in S /\ v \in S => g[v] = IF f[u] < f[v] THEN f[u] ELSE f[v]
    BY DEF TakesPlace
<1>1. /\ N \in Nat /\ DOMAIN L = 1 .. N
      /\ \A n \in 1 .. N : L[n] \in S /\ f[L[n]] \in Nat
      /\ \A x \in S : \E n \in 1 .. N : L[n] = x
      /\ \A m, n \in 1 .. N : (L[m] = L[n] => m = n) /\ (m <= n <=> f[L[m]] <= f[L[n]])
  <2> HIDE DEF L
  <2>1. /\ N \in Nat /\ DOMAIN L = 1 .. N
        /\ \A n \in 1 .. N : L[n] \in S
        /\ \A x \in S : Rank(S, f, x) \in 1 .. N /\ L[Rank(S, f, x)] = x
        /\ \A m, n \in 1 .. N : (L[m] = L[n] => m = n) /\ (m <= n <=> f[L[m]] <= f[L[n]])
      BY <1>0, Listed DEF L
  <2> QED BY <1>0, <2>1 DEF InLine
<1>2. /\ t = [n \in 1 .. Cardinality(kept) |-> named[CHOOSE i \in kept : Cardinality({j \in kept : j <= i}) = n]]
    BY DEF Credited!Replaced, Credited!Cardinality, Cardinality
<1> HIDE DEF t, L, N
<1>3. \A i \in 1 .. N : named[i] = IF L[i] = u THEN v ELSE L[i]
    BY <1>1
<1>4. kept \subseteq 1 .. N /\ \A i \in 1 .. N : i \in kept <=> \A j \in 1 .. i - 1 : named[j] # named[i]
    BY <1>1
<1>5. ASSUME NEW i \in 1 .. N PROVE named[i] \in T
    BY <1>0, <1>1, <1>3
<1> HIDE DEF named, kept
\* What is not kept is named by what is.
<1>6. ASSUME NEW y \in T PROVE \E i \in kept : named[i] = y
  <2>1. PICK x \in S : y = IF x = u THEN v ELSE x
      BY <1>0
  <2>2. PICK n \in 1 .. N : L[n] = x
      BY <1>1
  <2> DEFINE at == {i \in 1 .. N : named[i] = y}
  <2>3. at \in SUBSET Nat /\ n \in at
      BY <1>3, <2>1, <2>2
  <2>4. PICK i \in at : \A j \in at : i <= j
    <3> HIDE DEF at
    <3> QED BY <2>3, LeastNumber
  <2>5. i \in kept
      BY <1>1, <1>4, <2>4
  <2> QED BY <2>4, <2>5
<1>7. ASSUME NEW i \in kept, NEW j \in kept, named[i] = named[j] PROVE i = j
  <2>1. i \in 1 .. N /\ j \in 1 .. N
      BY <1>4
  <2>2. ~(i < j) /\ ~(j < i)
      BY <1>1, <1>4, <1>7, <2>1
  <2> QED BY <1>1, <2>1, <2>2
\* Each keeps its position.
<1>8. ASSUME NEW i \in kept PROVE g[named[i]] = f[L[i]]
  <2>1. i \in 1 .. N /\ L[i] \in S /\ f[L[i]] \in Nat /\ named[i] = IF L[i] = u THEN v ELSE L[i]
      BY <1>1, <1>3, <1>4
  <2>2. CASE L[i] \notin {u, v}
      BY <1>0, <2>1, <2>2
  <2>3. ASSUME L[i] \in {u, v}, NEW w, w \in {u, v}, w # L[i], w \in S PROVE f[L[i]] < f[w]
    <3>1. PICK n \in 1 .. N : L[n] = w
        BY <1>1, <2>3
    <3>2. named[n] = named[i] /\ n # i
        BY <1>3, <2>1, <2>3, <3>1
    <3>3. ~(n < i)
        BY <1>1, <1>4, <2>1, <3>1, <3>2
    <3>4. ~(f[w] <= f[L[i]]) /\ f[w] \in Nat
        BY <1>1, <2>1, <3>1, <3>2, <3>3
    <3> QED BY <2>1, <3>4
  <2>4. CASE L[i] = u
    <3>1. named[i] = v
        BY <2>1, <2>4
    <3>2. v \in S => f[u] < f[v]
        BY <1>0, <2>3, <2>4
    <3> QED BY <1>0, <2>1, <2>4, <3>1, <3>2
  <2>5. CASE L[i] = v
    <3>1. named[i] = v
        BY <2>1, <2>5
    <3>2. u \in S => f[v] < f[u] /\ f[u] \in Nat
        BY <1>0, <2>3, <2>5 DEF InLine
    <3> QED BY <1>0, <2>1, <2>5, <3>1, <3>2
  <2> QED BY <2>2, <2>4, <2>5
<1>9. IsFiniteSet(kept) /\ IsFiniteSet(T) /\ Cardinality(T) = Cardinality(kept)
  <2>1. IsFiniteSet(kept)
    <3>1. IsFiniteSet(1 .. N)
        BY <1>1, FS_Interval
    <3> QED BY <1>4, <3>1, FS_Subset
  <2> DEFINE b == [i \in kept |-> named[i]]
  <2>2. b \in Bijection(kept, T)
    <3>1. b \in [kept -> T]
        BY <1>4, <1>5
    <3>2. \A i, j \in kept : b[i] = b[j] => i = j
        BY <1>7
    <3>3. \A y \in T : \E i \in kept : b[i] = y
        BY <1>6
    <3> HIDE DEF b
    <3> QED BY <3>1, <3>2, <3>3 DEF Bijection, Injection, Surjection, IsInjective
  <2> QED BY <2>1, <2>2, FS_Bijection DEF ExistsBijection
<1>10. InLine(T, g)
  <2>1. ASSUME NEW y \in T PROVE g[y] \in Nat
      BY <1>1, <1>4, <1>6, <1>8
  <2>2. ASSUME NEW x \in T, NEW y \in T, g[x] = g[y] PROVE x = y
    <3>1. PICK i \in kept, j \in kept : named[i] = x /\ named[j] = y
        BY <1>6
    <3>2. f[L[i]] = f[L[j]] /\ i \in 1 .. N /\ j \in 1 .. N
        BY <1>4, <1>8, <2>2, <3>1
    <3>3. i = j
        BY <1>1, <3>2
    <3> QED BY <3>1, <3>3
  <2> QED BY <1>9, <2>1, <2>2 DEF InLine
<1>11. ASSUME NEW i \in kept PROVE Rank(T, g, named[i]) = Cardinality({j \in kept : j <= i})
  <2> DEFINE upTo == {j \in kept : j <= i}
             U == {y \in T : g[y] <= g[named[i]]}
             b == [j \in upTo |-> named[j]]
  <2>1. IsFiniteSet(upTo)
      BY <1>9, FS_Subset
  <2>2. ASSUME NEW j \in kept PROVE named[j] \in U <=> j \in upTo
    <3>1. g[named[j]] = f[L[j]] /\ g[named[i]] = f[L[i]] /\ named[j] \in T /\ i \in 1 .. N /\ j \in 1 .. N
        BY <1>4, <1>5, <1>8
    <3> QED BY <1>1, <3>1
  <2>3. b \in Bijection(upTo, U)
    <3>1. b \in [upTo -> U]
        BY <2>2
    <3>2. \A j, k \in upTo : b[j] = b[k] => j = k
        BY <1>7
    <3>3. \A y \in U : \E j \in upTo : b[j] = y
        BY <1>6, <2>2
    <3> HIDE DEF b, U, upTo
    <3> QED BY <3>1, <3>2, <3>3 DEF Bijection, Injection, Surjection, IsInjective
  <2>4. Cardinality(U) = Cardinality(upTo)
    <3> HIDE DEF b, U, upTo
    <3> QED BY <2>1, <2>3, FS_Bijection DEF ExistsBijection
  <2> QED BY <2>4 DEF Rank
<1>12. ASSUME NEW n \in 1 .. Cardinality(T) PROVE t[n] \in T /\ Rank(T, g, t[n]) = n
  <2>1. (\A i \in kept : e[i] \in Nat) /\ \A i, j \in kept : e[i] = e[j] => i = j
      BY <1>1, <1>4
  <2>2. \A i \in kept : Rank(kept, e, i) = Cardinality({j \in kept : j <= i})
    <3>1. \A i \in kept : {j \in kept : e[j] <= e[i]} = {j \in kept : j <= i}
        OBVIOUS
    <3> QED BY <3>1 DEF Rank
  <2> HIDE DEF e
  <2>3. \E i \in kept : Rank(kept, e, i) = n
      BY <1>9, <2>1, Ranking
  <2>4. PICK i \in kept : Cardinality({j \in kept : j <= i}) = n /\ t[n] = named[i]
    <3>1. \E i \in kept : Cardinality({j \in kept : j <= i}) = n
        BY <2>2, <2>3
    <3> QED BY <1>2, <1>9, <3>1
  <2> QED BY <1>4, <1>5, <1>11, <2>4
<1>13. t = [n \in 1 .. Cardinality(T) |-> t[n]]
    BY <1>2, <1>9
<1>14. Listing(T, g) = t
  <2>1. HasPlaces(t, T, g)
      BY <1>12, <1>13 DEF HasPlaces
  <2> QED BY <1>10, <2>1, IsListing
<1> QED BY <1>10, <1>14 DEF t, L

\* A credit that is about to be given comes after all others of its disc.
PendingCreditStands ==
    approval.at = "credited" /\ approval.credit # NoOne /\ approval.disc # NoOne =>
        /\ credits[approval.disc][approval.submitter] = NoOne
        /\ \A w \in DumpersShown(approval.disc) : credits[approval.disc][w] < approval.credit

\* The account that takes over is made only if there is none.
SinkStands ==
    deletion.at \in {"sink", "credits", "moved"} /\ users[deletion.sink] = NoOne =>
        \A w \in UserIds : users[w] # "Deleted"

PositionsInv ==
    /\ \A d \in DiscIds : InLine(DumpersShown(d), credits[d])
    /\ PendingCreditStands
    /\ SinkStands

\* In a disc's row no two dumpers have one position.
LEMMA RowInLine ==
    ASSUME NEW row \in [UserIds -> Nat \cup {NoOne}],
           \A u, v \in UserIds : u # v /\ row[u] # NoOne => row[u] # row[v]
    PROVE  InLine({u \in UserIds : row[u] # NoOne}, row)
<1>1. IsFiniteSet({u \in UserIds : row[u] # NoOne})
    BY AccountsAssumption, FS_Subset
<1> QED BY <1>1 DEF InLine

LEMMA PositionsStart == AccountsInit => PositionsInv
<1> SUFFICES ASSUME AccountsInit PROVE PositionsInv
    OBVIOUS
<1>1. PICK state \in InitStates : credits = state.credits
    BY DEF AccountsInit
<1>2. /\ credits \in [DiscIds -> [UserIds -> Nat \cup {NoOne}]]
      /\ \A d \in DiscIds, u, v \in UserIds : u # v /\ credits[d][u] # NoOne => credits[d][u] # credits[d][v]
    BY <1>1, StatesAssumption
<1>3. ASSUME NEW d \in DiscIds PROVE InLine(DumpersShown(d), credits[d])
    BY <1>2, RowInLine DEF DumpersShown
<1>4. PendingCreditStands /\ SinkStands
    BY DEF AccountsInit, NoApproval, NoDeletion, PendingCreditStands, SinkStands
<1> QED BY <1>3, <1>4 DEF PositionsInv

LEMMA OrderIsListing ==
    ASSUME NEW d
    PROVE  /\ InOrder(d) = Listing(DumpersShown(d), credits[d])
           /\ InOrder(d)' = Listing(DumpersShown(d)', credits'[d])
    BY DEF InOrder

\* While the credits are as they were, so are the lists.
LEMMA SameLists ==
    ASSUME credits' = credits
    PROVE  /\ \A d : DumpersShown(d)' = DumpersShown(d) /\ InOrder(d)' = InOrder(d)
           /\ [d \in DiscIds |-> InOrder(d)]' = [d \in DiscIds |-> InOrder(d)]
<1>1. ASSUME NEW d PROVE DumpersShown(d)' = DumpersShown(d)
    BY DEF DumpersShown
<1>2. ASSUME NEW d PROVE InOrder(d)' = InOrder(d)
    BY <1>1, OrderIsListing
<1> QED BY <1>1, <1>2

\* What CommitApproval does to the lists, if it gives a credit.
LEMMA CreditIsLast ==
    ASSUME AccountsInv, PositionsInv, CommitApproval
    PROVE  \/ credits' = credits
           \/ \E d \in DiscIds :
                 LET u == approval.submitter IN
                 /\ u \in UserIds /\ users[u] # NoOne /\ u \notin DumpersShown(d)
                 /\ InLine(DumpersShown(d), credits[d])'
                 /\ InOrder(d)' = Append(InOrder(d), u)
                 /\ \A e \in DiscIds \ {d} : credits'[e] = credits[e]
                 /\ credits' \in [DiscIds -> [UserIds -> Nat \cup {NoOne}]]
<1> SUFFICES ASSUME approval.credit # NoOne
             PROVE  \E d \in DiscIds :
                        LET u == approval.submitter IN
                        /\ u \in UserIds /\ users[u] # NoOne /\ u \notin DumpersShown(d)
                        /\ InLine(DumpersShown(d), credits[d])'
                        /\ InOrder(d)' = Append(InOrder(d), u)
                        /\ \A e \in DiscIds \ {d} : credits'[e] = credits[e]
                        /\ credits' \in [DiscIds -> [UserIds -> Nat \cup {NoOne}]]
    BY DEF CommitApproval
<1> DEFINE u == approval.submitter
           p == approval.credit
           fresh == {e \in DiscIds : \A f \in DiscIds : f >= e => DumpersShown(f) = {}}
<1>1. approval.at = "credited" /\ u \in UserIds /\ p \in Nat /\ approval.disc \in DiscIds \cup {NoOne}
    BY DEF CommitApproval, AccountsInv, RequestTypes, Approvals
<1>2. users[u] # NoOne
    BY <1>1 DEF AccountsInv, ReviewStands, KeysStand, KeyShared
<1>3. credits \in [DiscIds -> [UserIds -> Nat \cup {NoOne}]]
    BY DEF AccountsInv, RowTypes
<1>4. PICK d \in DiscIds :
          /\ credits' = [credits EXCEPT ![d][u] = p]
          /\ credits[d][u] = NoOne
          /\ \A w \in DumpersShown(d) : credits[d][w] < p
  <2>1. CASE approval.disc = NoOne
    <3>1. fresh # {} /\ credits' = [credits EXCEPT ![First(fresh)][u] = p]
        BY <2>1 DEF CommitApproval
    <3>2. fresh \in SUBSET Nat
        BY Ids
    <3> HIDE DEF fresh
    <3>3. First(fresh) \in fresh
        BY <3>1, <3>2, FirstId
    <3>4. First(fresh) \in DiscIds /\ DumpersShown(First(fresh)) = {}
      <4>1. PICK e \in fresh : e = First(fresh)
          BY <3>3
      <4>2. e \in DiscIds /\ e \in Nat /\ \A f \in DiscIds : f >= e => DumpersShown(f) = {}
          BY Ids DEF fresh
      <4> QED BY <4>1, <4>2
    <3>5. credits[First(fresh)][u] = NoOne
        BY <1>1, <3>4 DEF DumpersShown
    <3> QED BY <3>1, <3>4, <3>5
  <2>2. CASE approval.disc # NoOne
    <3>1. credits' = [credits EXCEPT ![approval.disc][u] = p]
        BY <2>2 DEF CommitApproval
    <3> QED BY <1>1, <2>2, <3>1 DEF PositionsInv, PendingCreditStands
  <2> QED BY <2>1, <2>2
<1> HIDE DEF u, p, fresh
<1>5. /\ credits' \in [DiscIds -> [UserIds -> Nat \cup {NoOne}]]
      /\ \A e \in DiscIds \ {d} : credits'[e] = credits[e]
      /\ \A w \in UserIds : credits'[d][w] = IF w = u THEN p ELSE credits[d][w]
    BY <1>1, <1>3, <1>4
<1>6. DumpersShown(d)' = DumpersShown(d) \cup {u} /\ u \notin DumpersShown(d)
    BY <1>1, <1>4, <1>5, Ids DEF DumpersShown
<1>7. \A w \in DumpersShown(d) : credits'[d][w] = credits[d][w] /\ credits[d][w] < credits'[d][u]
    BY <1>1, <1>4, <1>5, <1>6 DEF DumpersShown
<1>8. InLine(DumpersShown(d), credits[d]) /\ credits'[d][u] \in Nat
    BY <1>1, <1>5 DEF PositionsInv
<1> DEFINE S == DumpersShown(d)
           f == credits[d]
           T == DumpersShown(d)'
           g == credits'[d]
<1>9. InLine(T, g) /\ Listing(T, g) = Append(Listing(S, f), u)
  <2>1. T = S \cup {u} /\ u \notin S /\ g[u] \in Nat /\ InLine(S, f)
      BY <1>6, <1>8
  <2>2. \A x \in S : g[x] = f[x] /\ f[x] < g[u]
      BY <1>7
  <2> HIDE DEF S, f, T, g
  <2>3. PICK S0, f0, T0, g0, u0 : S0 = S /\ f0 = f /\ T0 = T /\ g0 = g /\ u0 = u
      OBVIOUS
  <2>4. ComesLast(S0, f0, u0, T0, g0)
      BY <2>1, <2>2, <2>3 DEF ComesLast
  <2>5. InLine(T0, g0) /\ Listing(T0, g0) = Append(Listing(S0, f0), u0)
      BY <2>4, ListedLast
  <2> QED BY <2>3, <2>5
<1>10. InOrder(d)' = Listing(T, g) /\ InOrder(d) = Listing(S, f)
    BY OrderIsListing
<1> QED BY <1>1, <1>2, <1>5, <1>6, <1>9, <1>10 DEF u

\* A row in which the credit of u is merged with that of v.
LEMMA RowTakesPlace ==
    ASSUME NEW row \in [UserIds -> Nat \cup {NoOne}], NEW u \in UserIds, NEW v \in UserIds, u # v,
           InLine({w \in UserIds : row[w] # NoOne}, row),
           NEW put, put = [row EXCEPT ![v] = Merged(row, u, v), ![u] = NoOne]
    PROVE  TakesPlace({w \in UserIds : row[w] # NoOne}, row, u, v, {w \in UserIds : put[w] # NoOne}, put)
<1> DEFINE p == Merged(row, u, v)
           S == {w \in UserIds : row[w] # NoOne}
           T == {w \in UserIds : put[w] # NoOne}
<1>1. p \in Nat \cup {NoOne} /\ (p # NoOne <=> row[u] # NoOne \/ row[v] # NoOne)
    BY MergedPosition
<1>2. /\ row[u] # NoOne /\ row[v] = NoOne => p = row[u]
      /\ row[u] = NoOne => p = row[v]
      /\ row[u] # NoOne /\ row[v] # NoOne => p = IF row[u] < row[v] THEN row[u] ELSE row[v]
    BY DEF Merged, LowerPosition
<1>3. put = [row EXCEPT ![v] = p, ![u] = NoOne]
    OBVIOUS
<1> HIDE DEF p
<1>4. \A w \in UserIds : put[w] = IF w = u THEN NoOne ELSE IF w = v THEN p ELSE row[w]
    BY <1>1, <1>3, PutPosition
<1>5. T = {IF x = u THEN v ELSE x : x \in S}
    BY <1>1, <1>4
<1> QED BY <1>2, <1>4, <1>5 DEF TakesPlace

\* What CommitDeletion does to the lists.
LEMMA DeletionReplaces ==
    ASSUME AccountsInv, PositionsInv, CommitDeletion
    PROVE  LET u == deletion.user
               v == deletion.sink
           IN  /\ u \in UserIds /\ v \in UserIds /\ u # v
               /\ \A d \in DiscIds : /\ InLine(DumpersShown(d), credits[d])'
                                     /\ InOrder(d)' = Credited!Replaced(InOrder(d), u, v)
                                     /\ \A x \in DumpersShown(d)' :
                                            \E y \in DumpersShown(d) : credits'[d][x] = credits[d][y]
<1> DEFINE u == deletion.user
           v == deletion.sink
<1>1. u \in UserIds /\ v \in UserIds /\ u # v /\ credits' = MoveCredits(u, v)
    BY Ids DEF CommitDeletion, AccountsInv, DeletionStands, RowTypes
<1>2. credits \in [DiscIds -> [UserIds -> Nat \cup {NoOne}]]
    BY DEF AccountsInv, RowTypes
<1> HIDE DEF u, v
<1>3. ASSUME NEW d \in DiscIds
      PROVE  /\ InLine(DumpersShown(d), credits[d])' /\ InOrder(d)' = Credited!Replaced(InOrder(d), u, v)
             /\ \A x \in DumpersShown(d)' : \E y \in DumpersShown(d) : credits'[d][x] = credits[d][y]
  <2>1. credits'[d] = [credits[d] EXCEPT ![v] = Merged(credits[d], u, v), ![u] = NoOne]
      BY <1>1 DEF MoveCredits
  <2>2. /\ DumpersShown(d) = {w \in UserIds : credits[d][w] # NoOne}
        /\ DumpersShown(d)' = {w \in UserIds : credits'[d][w] # NoOne}
      BY DEF DumpersShown
  <2>3. credits[d] \in [UserIds -> Nat \cup {NoOne}] /\ InLine(DumpersShown(d), credits[d])
      BY <1>2 DEF PositionsInv
  <2>4. PICK S, f, T, g, a, b :
            S = DumpersShown(d) /\ f = credits[d] /\ T = DumpersShown(d)' /\ g = credits'[d] /\ a = u /\ b = v
      OBVIOUS
  <2>5. S = {w \in UserIds : f[w] # NoOne} /\ T = {w \in UserIds : g[w] # NoOne}
      BY <2>2, <2>4
  <2>6. /\ f \in [UserIds -> Nat \cup {NoOne}] /\ InLine(S, f) /\ a \in UserIds /\ b \in UserIds /\ a # b
        /\ g = [f EXCEPT ![b] = Merged(f, a, b), ![a] = NoOne]
      BY <1>1, <2>1, <2>3, <2>4
  <2>7. TakesPlace(S, f, a, b, T, g)
      BY <2>5, <2>6, RowTakesPlace
  <2>8. InLine(T, g) /\ Listing(T, g) = Credited!Replaced(Listing(S, f), a, b)
      BY <2>7, ListedInPlace
  <2>9. InOrder(d) = Listing(S, f) /\ InOrder(d)' = Listing(T, g)
      BY <2>4, OrderIsListing
  <2>10. \A x \in T : \E y \in S : g[x] = f[y]
      BY <2>7 DEF TakesPlace
  <2> QED BY <2>4, <2>8, <2>9, <2>10
<1> QED BY <1>1, <1>3 DEF u, v

LEMMA PositionsSame ==
    ASSUME PositionsInv, UNCHANGED credits, PendingCreditStands', SinkStands'
    PROVE  PositionsInv'
    BY SameLists DEF PositionsInv

LEMMA DeletionKeepsPositions ==
    ASSUME AccountsInv, PositionsInv, CommitDeletion PROVE PositionsInv'
<1> DEFINE u == deletion.user
           v == deletion.sink
<1>0. PICK d, w : d = approval.disc /\ w = approval.submitter
    OBVIOUS
<1>1. \A e \in DiscIds : InLine(DumpersShown(e), credits[e])'
    BY DeletionReplaces
<1>2. SinkStands'
    BY DEF CommitDeletion, NoDeletion, SinkStands
<1>3. ASSUME approval.at = "credited", approval.credit # NoOne, d # NoOne
      PROVE  credits'[d][w] = NoOne /\ \A x \in DumpersShown(d)' : credits'[d][x] < approval.credit
  <2>1. /\ credits[d][w] = NoOne /\ \A x \in DumpersShown(d) : credits[d][x] < approval.credit
        /\ d \in DiscIds /\ w \in UserIds
      BY <1>0, <1>3 DEF PositionsInv, PendingCreditStands, AccountsInv, RequestTypes, Approvals
  <2>2. u \in UserIds /\ v \in UserIds /\ u # v /\ credits' = MoveCredits(u, v)
      BY Ids DEF CommitDeletion, AccountsInv, DeletionStands, RowTypes
  <2>3. w # v
      BY <1>0, <1>3, Ids DEF CommitDeletion, AccountsInv, ReviewStands, KeysStand, KeyShared, Locked, DeletionStands
  <2>4. credits \in [DiscIds -> [UserIds -> Nat \cup {NoOne}]]
      BY DEF AccountsInv, RowTypes
  <2> HIDE DEF u, v
  <2>5. credits'[d][w] = NoOne
      BY <2>1, <2>2, <2>3, <2>4, MovedCredits
  <2>6. \A x \in DumpersShown(d)' : \E y \in DumpersShown(d) : credits'[d][x] = credits[d][y]
      BY <2>1, DeletionReplaces
  <2>7. \A x \in DumpersShown(d)' : credits'[d][x] < approval.credit
    <3> SUFFICES ASSUME NEW x, x \in DumpersShown(d)' PROVE credits'[d][x] < approval.credit
        OBVIOUS
    <3>1. PICK y : y \in DumpersShown(d) /\ credits'[d][x] = credits[d][y]
        BY <2>6
    <3> QED BY <2>1, <3>1
  <2> QED BY <2>5, <2>7
<1>4. UNCHANGED approval
    BY DEF CommitDeletion
<1>5. PendingCreditStands'
    BY <1>0, <1>3, <1>4 DEF PendingCreditStands
<1> QED BY <1>1, <1>2, <1>5 DEF PositionsInv

LEMMA ApprovalKeepsPositions ==
    ASSUME AccountsInv, PositionsInv, CreditDumper \/ CommitApproval PROVE PositionsInv'
<1>1. CASE CreditDumper
  <2>1. UNCHANGED <<credits, users, deletion>>
      BY <1>1 DEF CreditDumper
  <2>2. SinkStands'
      BY <2>1 DEF PositionsInv, SinkStands
  <2>3. CASE GivesNone
    <3>1. approval'.credit = NoOne
        BY <1>1, <2>3 DEF GivesNone, CreditDumper, AccountsInv, ReviewStands, CreditStands, RequestTypes, Approvals
    <3> QED BY <2>1, <2>2, <3>1, PositionsSame DEF PendingCreditStands
  <2>4. CASE GivesCredit
    <3>0. PICK d : d = approval.disc
        OBVIOUS
    <3> DEFINE p == IF d = NoOne THEN 0 ELSE LastPosition(d) + 1
    <3>1. approval' = [approval EXCEPT !.at = "credited", !.credit = p]
        BY <2>4, <3>0 DEF GivesCredit
    <3>2. d # NoOne => credits[d][approval.submitter] = NoOne /\ d \in DiscIds
        BY <2>4, <3>0 DEF GivesCredit, HasCredit, AccountsInv, RequestTypes, Approvals
    <3>3. d # NoOne => \A w \in DumpersShown(d) : credits[d][w] < p
        BY <3>2, NextPosition DEF AccountsInv, RowTypes
    <3> HIDE DEF p
    <3>4. approval'.credit = p /\ approval'.disc = d /\ approval'.submitter = approval.submitter
        BY <3>0, <3>1 DEF AccountsInv, RequestTypes, Approvals
    <3>5. d # NoOne => \A w \in DumpersShown(d)' : credits'[d][w] < p
        BY <2>1, <3>3, SameLists
    <3>6. PendingCreditStands'
        BY <2>1, <3>2, <3>4, <3>5 DEF PendingCreditStands
    <3> QED BY <2>1, <2>2, <3>6, PositionsSame
  <2>5. CASE approval' = NoApproval
      BY <2>1, <2>2, <2>5, PositionsSame DEF PendingCreditStands, NoApproval
  <2> QED BY <1>1, <2>3, <2>4, <2>5, CreditCases
<1>2. CASE CommitApproval
  <2>1. PendingCreditStands' /\ SinkStands'
      BY <1>2 DEF CommitApproval, NoApproval, PendingCreditStands, PositionsInv, SinkStands
  <2>2. ASSUME NEW e \in DiscIds PROVE InLine(DumpersShown(e), credits[e])'
    <3>1. CASE credits' = credits
        BY <3>1, SameLists DEF PositionsInv
    <3>2. CASE credits' # credits
      <4>1. PICK d \in DiscIds :
                InLine(DumpersShown(d), credits[d])' /\ \A c \in DiscIds \ {d} : credits'[c] = credits[c]
          BY <1>2, <3>2, CreditIsLast
      <4>2. CASE e = d
          BY <4>1, <4>2
      <4>3. CASE e # d
        <5>1. credits'[e] = credits[e]
            BY <4>1, <4>3
        <5>2. DumpersShown(e)' = DumpersShown(e)
            BY <5>1 DEF DumpersShown
        <5> QED BY <5>1, <5>2 DEF PositionsInv
      <4> QED BY <4>2, <4>3
    <3> QED BY <3>1, <3>2
  <2> QED BY <2>1, <2>2 DEF PositionsInv
<1> QED BY <1>1, <1>2

\* The rest touches neither the credits nor an approval that gives one.
LEMMA OthersKeepPositions ==
    ASSUME AccountsInv, PositionsInv, UNCHANGED credits, UNCHANGED approval \/ approval'.at # "credited",
           SinkStands'
    PROVE  PositionsInv'
<1>1. PendingCreditStands'
    BY SameLists DEF PositionsInv, PendingCreditStands
<1> QED BY <1>1, PositionsSame

LEMMA PositionsStep == AccountsInv /\ PositionsInv /\ [AccountsNext]_accountVars => PositionsInv'
<1> SUFFICES ASSUME AccountsInv, PositionsInv, [AccountsNext]_accountVars PROVE PositionsInv'
    OBVIOUS
<1>1. CASE \E u \in UserIds, name \in Names : FirstLogin(name) \/ Rename(u, name)
    BY <1>1, OthersKeepPositions DEF FirstLogin, Rename, SinkStands
<1>2. CASE (\E u \in UserIds : BeginDeletion(u)) \/ LockCredits \/ LockSubmissions \/ AbortDeletion
    BY <1>2, OthersKeepPositions
    DEF BeginDeletion, LockCredits, LockSubmissions, AbortDeletion, NoDeletion, PositionsInv, SinkStands,
        AccountsInv, RequestTypes, Deletions
<1>3. CASE FindSink
  <2> DEFINE named == {v \in UserIds : users[v] = "Deleted"}
  <2>1. UNCHANGED <<credits, approval, users>> /\ deletion \in Deletions
      BY <1>3 DEF FindSink, AccountsInv, RequestTypes
  <2>2. CASE named # {}
    <3>1. named \in SUBSET Nat
        BY Ids
    <3>2. deletion' = [deletion EXCEPT !.at = "sink", !.sink = First(named)]
        BY <1>3, <2>2 DEF FindSink
    <3>3. First(named) \in named
      <4> HIDE DEF named
      <4> QED BY <2>2, <3>1, FirstId
    <3>4. users[First(named)] = "Deleted"
        BY <3>3
    <3> HIDE DEF named
    <3>5. users[deletion'.sink] # NoOne
        BY <2>1, <3>2, <3>4, Ids DEF Deletions
    <3> QED BY <2>1, <3>5, OthersKeepPositions DEF SinkStands
  <2>3. CASE named = {}
      BY <2>1, <2>3, OthersKeepPositions DEF SinkStands
  <2> QED BY <2>2, <2>3
<1>4. CASE \/ \E s \in SubIds : (\E u \in Reviewers : LoadSubmission(s, u)) \/ ShowSubmission(s)
           \/ Claim \/ CheckReviewer \/ AbortApproval
           \/ \E post \in Posts : PostRepair(post)
           \/ SaveRepair \/ UNCHANGED accountVars
  <2>1. UNCHANGED <<credits, users, deletion>>
      BY <1>4
      DEF LoadSubmission, ShowSubmission, Claim, CheckReviewer, AbortApproval, PostRepair, SaveRepair, accountVars
  <2>2. UNCHANGED approval \/ approval'.at # "credited"
    <3>1. CASE \E s \in SubIds : \E u \in Reviewers : LoadSubmission(s, u)
        BY <3>1 DEF LoadSubmission, NoApproval
    <3>3. CASE Claim
        BY <3>3 DEF Claim, NoApproval, AccountsInv, RequestTypes, Approvals
    <3>4. CASE CheckReviewer \/ AbortApproval
        BY <3>4 DEF CheckReviewer, AbortApproval, NoApproval, AccountsInv, RequestTypes, Approvals
    <3>2. CASE \/ \E s \in SubIds : ShowSubmission(s)
               \/ \E post \in Posts : PostRepair(post)
               \/ SaveRepair \/ UNCHANGED accountVars
        BY <3>2 DEF ShowSubmission, PostRepair, SaveRepair, accountVars
    <3> QED BY <1>4, <3>1, <3>2, <3>3, <3>4
  <2> QED BY <2>1, <2>2, OthersKeepPositions DEF SinkStands, PositionsInv
<1>5. CASE CommitDeletion \/ CreditDumper \/ CommitApproval
    BY <1>5, DeletionKeepsPositions, ApprovalKeepsPositions
<1> QED BY <1>1, <1>2, <1>3, <1>4, <1>5 DEF AccountsNext, FirstLogin

-----------------------------------------------------------------------------
(* Credits: the refinement.                                                *)

\* What DumperCredits sees of the credits.
Lists == [d \in DiscIds |-> InOrder(d)]

LEMMA ListShape ==
    ASSUME NEW d \in DiscIds, PositionsInv
    PROVE  /\ Len(InOrder(d)) \in Nat /\ DOMAIN InOrder(d) = 1 .. Len(InOrder(d)) /\ InOrder(d) \in Seq(UserIds)
           /\ \A i \in DOMAIN InOrder(d) : InOrder(d)[i] \in DumpersShown(d)
           /\ \A i, j \in DOMAIN InOrder(d) : InOrder(d)[i] = InOrder(d)[j] => i = j
<1>1. PICK S, f, L : S = DumpersShown(d) /\ f = credits[d] /\ L = InOrder(d)
    OBVIOUS
<1>2. InLine(S, f) /\ L = Listing(S, f) /\ S \subseteq UserIds
    BY <1>1, OrderIsListing DEF PositionsInv, DumpersShown
<1>3. /\ Cardinality(S) \in Nat /\ DOMAIN L = 1 .. Cardinality(S)
      /\ \A n \in 1 .. Cardinality(S) : L[n] \in S
      /\ \A m, n \in 1 .. Cardinality(S) : L[m] = L[n] => m = n
    BY <1>2, Listed
<1>4. L = [n \in 1 .. Cardinality(S) |-> L[n]]
    BY <1>2 DEF Listing
<1>5. L \in Seq(UserIds)
  <2>1. L \in [1 .. Cardinality(S) -> UserIds]
      BY <1>2, <1>3, <1>4
  <2> QED BY <1>3, <2>1
<1>6. Len(L) = Cardinality(S)
    BY <1>3, <1>4, LengthIs
<1> QED BY <1>1, <1>3, <1>5, <1>6

LEMMA CreditedStart == AccountsInit => Credited!Init
<1> SUFFICES ASSUME AccountsInit PROVE Credited!Init
    OBVIOUS
<1>1. PositionsInv /\ users \in [UserIds -> Names \cup {NoOne}]
    BY PositionsStart, AccountsStart DEF AccountsInv, RowTypes
<1>2. ASSUME NEW d \in DiscIds PROVE InOrder(d) \in Seq(UserIds) /\ Credited!IsInjective(InOrder(d))
    BY <1>1, ListShape DEF Credited!IsInjective
<1> QED BY <1>1, <1>2 DEF Credited!Init

LEMMA CreditIsCredited ==
    ASSUME AccountsInv, PositionsInv, CommitApproval
    PROVE  Credited!Next \/ UNCHANGED <<Lists, users>>
<1>1. UNCHANGED users
    BY DEF CommitApproval
<1>2. CASE credits' = credits
    BY <1>1, <1>2, SameLists DEF Lists
<1>3. CASE credits' # credits
  <2>1. PICK d \in DiscIds, u \in UserIds :
            /\ users[u] # NoOne /\ u \notin DumpersShown(d)
            /\ InOrder(d)' = Append(InOrder(d), u)
            /\ \A e \in DiscIds \ {d} : credits'[e] = credits[e]
      BY <1>3, CreditIsLast
  <2>2. ASSUME NEW e \in DiscIds, e # d PROVE InOrder(e)' = InOrder(e)
    <3>1. credits'[e] = credits[e]
        BY <2>1, <2>2
    <3>2. DumpersShown(e)' = DumpersShown(e)
        BY <3>1 DEF DumpersShown
    <3> QED BY <3>1, <3>2, OrderIsListing
  <2>3. Lists' = [e \in DiscIds |-> InOrder(e)']
      BY DEF Lists
  <2>4. \A e \in DiscIds : Lists[e] = InOrder(e)
      BY DEF Lists
  <2>5. Lists' = [Lists EXCEPT ![d] = Append(@, u)]
      BY <2>1, <2>2, <2>3, <2>4 DEF Lists
  <2>6. \A i \in DOMAIN Lists[d] : Lists[d][i] # u
      BY <2>1, <2>4, ListShape
  <2>7. Lists' # Lists
    <3>1. Len(InOrder(d)') = Len(InOrder(d)) + 1 /\ Len(InOrder(d)) \in Nat
        BY <2>1, ListShape
    <3>2. InOrder(d)' # InOrder(d)
        BY <3>1
    <3> QED BY <2>3, <2>4, <3>2
  <2>8. Credited!Credit(d, u)
      BY <1>1, <2>1, <2>5, <2>6 DEF Credited!Credit, Lists
  <2> QED BY <1>1, <2>7, <2>8 DEF Credited!Next, Lists
<1> QED BY <1>2, <1>3

LEMMA DeletionIsForgotten ==
    ASSUME AccountsInv, PositionsInv, CommitDeletion
    PROVE  Credited!Next
<1> DEFINE u == deletion.user
           v == deletion.sink
<1>1. u \in UserIds /\ v \in UserIds /\ u # v /\ users[u] # NoOne
    BY DeletionReplaces DEF CommitDeletion, AccountsInv, DeletionStands
<1>2. \/ users[v] = "Deleted"
      \/ users[v] = NoOne /\ \A w \in UserIds : users[w] # "Deleted"
  <2>1. deletion.at = "moved" /\ (users[v] = NoOne \/ users[v] = "Deleted")
      BY DEF CommitDeletion, AccountsInv, DeletionStands
  <2>2. users[v] = NoOne => \A w \in UserIds : users[w] # "Deleted"
      BY <2>1 DEF PositionsInv, SinkStands
  <2> QED BY <2>1, <2>2, Zenon
<1>3. users' = [users EXCEPT ![u] = NoOne, ![v] = "Deleted"] /\ users \in [UserIds -> Names \cup {NoOne}]
    BY DEF CommitDeletion, AccountsInv, RowTypes
<1>4. \A d \in DiscIds : InOrder(d)' = Credited!Replaced(InOrder(d), u, v)
    BY DeletionReplaces
<1> HIDE DEF u, v
<1>5. PICK a, b : a = u /\ b = v
    OBVIOUS
<1>6. users'[a] # users[a]
    BY <1>1, <1>3, <1>5
<1>7. Credited!Forget(a, b)
    BY <1>1, <1>2, <1>3, <1>4, <1>5 DEF Credited!Forget
<1> QED BY <1>1, <1>5, <1>6, <1>7 DEF Credited!Next

LEMMA NamesAreGiven ==
    ASSUME AccountsInv, NEW u \in UserIds, NEW n \in Names, FirstLogin(n) \/ Rename(u, n)
    PROVE  Credited!Next
<1>1. PICK v \in UserIds : users' = [users EXCEPT ![v] = n] /\ \A w \in UserIds : users[w] # n
  <2>1. CASE FirstLogin(n)
      BY <2>1 DEF FirstLogin
  <2>2. CASE Rename(u, n)
      BY <2>2, Ids DEF Rename
  <2> QED BY <2>1, <2>2
<1>2. users \in [UserIds -> Names \cup {NoOne}]
    BY DEF AccountsInv, RowTypes
<1>3. UNCHANGED Lists
    BY SameLists DEF FirstLogin, Rename, Lists
<1>4. users' # users
    BY <1>1, <1>2
<1>5. Credited!GiveName(v, n)
    BY <1>1, <1>3 DEF Credited!GiveName, Lists
<1> QED BY <1>4, <1>5 DEF Credited!Next

LEMMA CreditedStep ==
    ASSUME AccountsInv, PositionsInv, [AccountsNext]_accountVars
    PROVE  Credited!Next \/ UNCHANGED <<Lists, users>>
<1>1. CASE \E u \in UserIds, n \in Names : FirstLogin(n) \/ Rename(u, n)
    BY <1>1, NamesAreGiven
<1>2. CASE CommitDeletion \/ CommitApproval
    BY <1>2, DeletionIsForgotten, CreditIsCredited
<1>3. CASE \/ \E u \in UserIds : BeginDeletion(u)
           \/ FindSink \/ LockCredits \/ LockSubmissions \/ AbortDeletion
           \/ \E s \in SubIds : (\E u \in Reviewers : LoadSubmission(s, u)) \/ ShowSubmission(s)
           \/ Claim \/ CheckReviewer \/ CreditDumper \/ AbortApproval
           \/ \E post \in Posts : PostRepair(post)
           \/ SaveRepair \/ UNCHANGED accountVars
  <2>1. UNCHANGED <<credits, users>>
      BY <1>3
      DEF BeginDeletion, FindSink, LockCredits, LockSubmissions, AbortDeletion, LoadSubmission, ShowSubmission,
          Claim, CheckReviewer, CreditDumper, AbortApproval, PostRepair, SaveRepair, accountVars
  <2> QED BY <2>1, SameLists DEF Lists
<1> QED BY <1>1, <1>2, <1>3 DEF AccountsNext, FirstLogin

\* However deletions of accounts, approvals, logins and renames interleave, the
\* credits are lists in the order of approval, in which the account Deleted has
\* taken the place of whoever was deleted (approve_submission_on, delete_app_user_on).
THEOREM CreditsAreLists == AccountsSpec => CreditListsAreKept
<1>1. AccountsInit => Credited!Init
    BY CreditedStart
<1>2. AccountsInit => PositionsInv
    BY PositionsStart
<1>3. AccountsInv /\ PositionsInv /\ [AccountsNext]_accountVars => PositionsInv'
    BY PositionsStep
<1>4. AccountsInv /\ PositionsInv /\ [AccountsNext]_accountVars =>
          [Credited!Next]_<<[d \in DiscIds |-> InOrder(d)], users>>
    BY CreditedStep DEF Lists
<1> QED BY <1>1, <1>2, <1>3, <1>4, AccountsInvariance, PTL DEF AccountsSpec, Credited!Spec, CreditListsAreKept

-----------------------------------------------------------------------------
(* Lookup tables: the invariant.                                           *)

AnyRow == TableRows \cup {Absent}

\* A form whose rows are being written.
Writing(m) == saving[m].at \in {"write", "move", "delete"}

FormFields == {"at", "page", "existing", "todo", "written", "moved", "id"}
FormShape(form) == form = [field \in FormFields |-> form[field]]

TableTypes ==
    /\ rows \in [Codes -> AnyRow] /\ discCodes \in [Discs -> SUBSET Codes]
    /\ DOMAIN meant = Discs /\ reused \in BOOLEAN /\ saves \in Nat

ApprovingTypes ==
    \/ approving = NotApproving
    \/ approving.at = "written" /\ approving.disc \in Discs /\ approving.codes \subseteq Existing(rows)

\* A form that is not being written has nothing written; the page that is shown
\* has the rows of some moment.
FormTypes ==
    /\ saving = [m \in Moderators |-> saving[m]]
    /\ \A m \in Moderators :
        /\ FormShape(saving[m])
        /\ \/ Writing(m)
           \/ saving[m].at \in {"idle", "shown"} /\ DOMAIN saving[m].written = {} /\ saving[m].moved = {}
        /\ saving[m].at = "shown" => saving[m].page \in [Codes -> AnyRow] /\ saving[m].id \in Nat

\* What is posted is valid against the rows of that moment.
PageStands(form) ==
    /\ form.existing \in [Codes -> AnyRow] /\ form.id \in Nat
    /\ \E S : form.todo \in Seq(S)
    /\ ToSet(form.todo) \subseteq ToSet(form.page)
    /\ \A p \in ToSet(form.page) :
          /\ p.row \in FormRows /\ p.row.code \in Codes
          /\ p.original # Absent => p.original \in Codes /\ form.existing[p.original] # Absent
          /\ p.original # p.row.code => form.existing[p.row.code] = Absent

\* A row that is deleted was renamed, and its discs are moved; one that is
\* written stands for what it did, or is new.
RowStands(form, c) ==
    /\ c \in Codes /\ form.written[c] \in AnyRow
    /\ form.written[c] = Absent =>
          /\ form.existing[c] # Absent /\ c \notin approving.codes
          /\ \E p \in ToSet(form.page) : p.original = c /\ p.row.code # c
          /\ \A d \in Discs : c \in discCodes[d] => \E v \in form.moved : v[1] = d /\ v[2] = c
    /\ form.written[c] # Absent =>
          /\ rows[c] # Absent => rows[c].of = form.written[c].of
          /\ rows[c] = Absent => \E p \in ToSet(form.page) : p.row.code = c /\ p.original # c

WrittenStands(form) == \A c \in DOMAIN form.written : RowStands(form, c)

\* The row of the old code is written under the new one.
Renamed(form, old, new) ==
    /\ old \in Codes /\ form.existing[old] # Absent
    /\ new \in DOMAIN form.written /\ form.written[new] # Absent /\ form.existing[new] = Absent
    /\ form.written[new].of = form.existing[old].of

HeadStands(form) ==
    form.at \in {"move", "delete"} =>
        /\ form.todo # <<>> /\ Head(form.todo).original # Absent
        /\ Renamed(form, Head(form.todo).original, Head(form.todo).row.code)

\* The disc still has the old code, and is not being approved.
MovedStands(form) ==
    \A v \in form.moved : /\ v[1] \in Discs /\ v[2] \in discCodes[v[1]] /\ v[1] # approving.disc
                          /\ Renamed(form, v[2], v[3])

\* A code that was there when the form was posted stands for the same, or is
\* gone since it was renamed.
ExistingStands(form) ==
    \A c \in Codes : form.existing[c] # Absent =>
        \/ reused
        \/ rows[c] # Absent /\ rows[c].of = form.existing[c].of
        \/ rows[c] = Absent /\ c \in freed

FormStands(form) ==
    PageStands(form) /\ WrittenStands(form) /\ HeadStands(form) /\ MovedStands(form) /\ ExistingStands(form)

\* No two transactions have written a row, or moved a disc from one code.
LocksStand ==
    \A m, n \in Moderators : m # n =>
        /\ DOMAIN saving[m].written \cap DOMAIN saving[n].written = {}
        /\ \A v \in saving[m].moved, w \in saving[n].moved : v[1] # w[1] \/ v[2] # w[2]

TablesInv ==
    /\ TableTypes /\ ApprovingTypes /\ FormTypes /\ LocksStand /\ DiscsKeepTheirRegions
    /\ \A m \in Moderators : Writing(m) => FormStands(saving[m])

LEMMA CodesAndRows ==
    /\ Codes \subseteq Nat /\ Absent \notin Codes /\ Absent \notin Discs /\ Absent \notin TableRows
    BY TablesAssumption, EditsAssumption

LEMMA TablesStart == TablesInit => TablesInv
<1> SUFFICES ASSUME TablesInit PROVE TablesInv
    OBVIOUS
<1>1. rows \in [Codes -> AnyRow] /\ Existing(rows) = DOMAIN FirstRows
  <2>1. ASSUME NEW c \in DOMAIN FirstRows
        PROVE  [name |-> FirstRows[c].name, data |-> FirstRows[c].data, of |-> <<"first", c>>] \in TableRows
      BY TablesAssumption DEF TableRows
  <2>2. \A c \in Codes : rows[c] \in AnyRow /\ (rows[c] # Absent <=> c \in DOMAIN FirstRows)
      BY <2>1, CodesAndRows DEF AnyRow, TablesInit
  <2>3. rows = [c \in Codes |-> rows[c]] /\ DOMAIN FirstRows \subseteq Codes
      BY TablesAssumption DEF TablesInit
  <2>4. rows \in [Codes -> AnyRow]
      BY <2>2, <2>3
  <2>5. DOMAIN rows = Codes
      BY <2>4
  <2>6. Existing(rows) = DOMAIN FirstRows
      BY <2>2, <2>3, <2>5 DEF Existing
  <2> QED BY <2>4, <2>6
<1> USE DEF TablesInit
<1>2. ASSUME NEW d \in Discs PROVE discCodes[d] \subseteq DOMAIN FirstRows
  <2>1. (CHOOSE c \in FirstCodes[d] : TRUE) \in FirstCodes[d] /\ FirstCodes[d] \subseteq DOMAIN FirstRows
      BY TablesAssumption
  <2> QED BY <2>1
<1>3. TableTypes /\ ApprovingTypes
    BY <1>1, <1>2, TablesAssumption DEF TableTypes, ApprovingTypes
<1>4. FormTypes
    BY DEF FormTypes, FormShape, FormFields, NoForm, Writing
<1>5. LocksStand /\ \A m \in Moderators : ~Writing(m)
    BY DEF LocksStand, NoForm, Writing
<1>6. DiscsKeepTheirRegions
    BY <1>1, <1>2 DEF DiscsKeepTheirRegions
<1> QED BY <1>3, <1>4, <1>5, <1>6 DEF TablesInv

-----------------------------------------------------------------------------
(* Lookup tables: forms.                                                   *)

\* One form changes; nothing that was committed does.
LEMMA FormStep ==
    ASSUME TablesInv, NEW m \in Moderators, NEW new, saving' = [saving EXCEPT ![m] = new],
           UNCHANGED <<rows, discCodes, approving, meant, freed, reused>>, saves' \in Nat,
           FormShape(new),
           \/ new.at \in {"write", "move", "delete"} /\ FormStands(new)
           \/ new.at \in {"idle", "shown"} /\ DOMAIN new.written = {} /\ new.moved = {},
           new.at = "shown" => new.page \in [Codes -> AnyRow] /\ new.id \in Nat,
           \A n \in Moderators \ {m} :
               /\ DOMAIN new.written \cap DOMAIN saving[n].written = {}
               /\ \A v \in new.moved, w \in saving[n].moved : v[1] # w[1] \/ v[2] # w[2]
    PROVE  TablesInv'
<1> USE DEF TablesInv
<1>1. saving'[m] = new /\ \A n \in Moderators \ {m} : saving'[n] = saving[n]
    BY DEF FormTypes
<1>2. (TableTypes /\ ApprovingTypes /\ DiscsKeepTheirRegions)'
    BY DEF TableTypes, ApprovingTypes, DiscsKeepTheirRegions
<1>3. FormTypes'
  <2>1. saving' = [n \in Moderators |-> saving'[n]]
      BY DEF FormTypes
  <2>2. ASSUME NEW n \in Moderators
        PROVE  /\ FormShape(saving'[n])
               /\ \/ saving'[n].at \in {"write", "move", "delete"}
                  \/ saving'[n].at \in {"idle", "shown"} /\ DOMAIN saving'[n].written = {} /\ saving'[n].moved = {}
               /\ saving'[n].at = "shown" => saving'[n].page \in [Codes -> AnyRow] /\ saving'[n].id \in Nat
    <3>1. CASE n = m
        BY <1>1, <3>1
    <3>2. CASE n # m
        BY <1>1, <3>2 DEF FormTypes, Writing
    <3> QED BY <3>1, <3>2
  <2>3. ASSUME NEW n \in Moderators
        PROVE  /\ FormShape(saving[n])'
               /\ Writing(n)' \/ (saving'[n].at \in {"idle", "shown"} /\ DOMAIN saving'[n].written = {} /\ saving'[n].moved = {})
               /\ (saving[n].at = "shown" => saving[n].page \in [Codes -> AnyRow] /\ saving[n].id \in Nat)'
    <3>1. FormShape(saving[n])'
        BY <2>2 DEF FormShape
    <3> QED BY <2>2, <3>1 DEF Writing
  <2> QED BY <2>1, <2>3 DEF FormTypes
<1>4. LocksStand'
    BY <1>1 DEF LocksStand
<1>5. ASSUME NEW n \in Moderators, Writing(n)' PROVE FormStands(saving[n])'
  <2>1. FormStands(saving'[n])
    <3>1. CASE n = m
        BY <1>1, <1>5, <3>1 DEF Writing
    <3>2. CASE n # m
        BY <1>1, <1>5, <3>2, Zenon DEF Writing
    <3> QED BY <3>1, <3>2
  <2>2. PageStands(saving[n])' /\ HeadStands(saving[n])'
      BY <2>1, Zenon DEF FormStands, PageStands, HeadStands, Renamed
  <2>3. WrittenStands(saving[n])'
      BY <2>1 DEF FormStands, WrittenStands, RowStands
  <2>4. MovedStands(saving[n])' /\ ExistingStands(saving[n])'
      BY <2>1 DEF FormStands, MovedStands, ExistingStands, Renamed
  <2> QED BY <2>2, <2>3, <2>4 DEF FormStands
<1> QED BY <1>2, <1>3, <1>4, <1>5

LEMMA NoFormShape ==
    /\ FormShape(NoForm) /\ NoForm.at = "idle" /\ NoForm.moved = {}
    /\ DOMAIN NoForm.written = {}
    BY DEF NoForm, FormShape, FormFields

LEMMA AbortKeepsTables ==
    ASSUME TablesInv, NEW m \in Moderators, Abort(m),
           UNCHANGED <<rows, discCodes, approving, meant, freed, reused>>, saves' \in Nat
    PROVE  TablesInv'
<1> QED BY NoFormShape, FormStep DEF Abort

LEMMA ShowKeepsTables ==
    ASSUME TablesInv, NEW m \in Moderators, ShowTable(m) PROVE TablesInv'
<1> DEFINE new == [NoForm EXCEPT !.at = "shown", !.page = rows, !.id = saves + 1]
<1>1. /\ FormShape(new) /\ new.at = "shown" /\ new.page = rows /\ new.id = saves + 1
      /\ DOMAIN new.written = {} /\ new.moved = {}
    BY NoFormShape DEF FormShape, FormFields
<1>2. saving' = [saving EXCEPT ![m] = new]
    BY DEF ShowTable
<1>3. rows \in [Codes -> AnyRow] /\ saves + 1 \in Nat
    BY DEF TablesInv, TableTypes
<1> HIDE DEF new
<1> QED BY <1>1, <1>2, <1>3, FormStep DEF ShowTable

\* The rows of a page, in their order.
LEMMA SortedCodes ==
    ASSUME NEW S \in SUBSET Codes
    PROVE  Cardinality(S) \in Nat /\ Sorted(S) \in [1 .. Cardinality(S) -> S]
<1>1. S \in SUBSET Nat /\ IsFiniteSet(S)
    BY TablesAssumption, CodesAndRows, FS_Subset
<1> QED BY <1>1, Ascends DEF Sorted

Items == [original : Codes \cup {Absent}, row : FormRows]

LEMMA PayloadItems ==
    ASSUME NEW page \in [Codes -> AnyRow], NEW edit \in Edits
    PROVE  Payload(page, edit) \in Seq(Items)
<1> DEFINE S == Existing(page)
           sorted == Sorted(S)
           row(c) == IF c \in DOMAIN edit.changed THEN edit.changed[c]
                     ELSE [code |-> c, name |-> page[c].name, data |-> page[c].data]
           old == [i \in DOMAIN sorted |-> [original |-> sorted[i], row |-> row(sorted[i])]]
           new == [i \in DOMAIN edit.added |-> [original |-> Absent, row |-> edit.added[i]]]
<1>1. S \in SUBSET Codes /\ \A c \in S : page[c] \in TableRows
    BY DEF Existing, AnyRow
<1>2. ASSUME NEW c \in S PROVE row(c) \in FormRows
    BY <1>1, <1>2, EditsAssumption, CodesAndRows DEF FormRows, TableRows
<1>3. Cardinality(S) \in Nat /\ sorted \in [1 .. Cardinality(S) -> S]
    BY <1>1, SortedCodes
<1>4. old \in Seq(Items)
  <2> HIDE DEF S, sorted, row
  <2>1. old \in [1 .. Cardinality(S) -> Items]
      BY <1>1, <1>2, <1>3 DEF Items
  <2> HIDE DEF old
  <2> QED BY <1>3, <2>1
<1>5. new \in Seq(Items)
  <2>1. edit.added \in Seq(FormRows)
      BY EditsAssumption
  <2>2. Len(edit.added) \in Nat /\ edit.added \in [1 .. Len(edit.added) -> FormRows]
      BY <2>1
  <2>3. new \in [1 .. Len(edit.added) -> Items]
      BY <2>2 DEF Items
  <2> HIDE DEF new
  <2> QED BY <2>2, <2>3
<1>6. Payload(page, edit) = old \o new
    BY DEF Payload
<1> HIDE DEF old, new
<1> QED BY <1>4, <1>5, <1>6

\* What validation lets pass.
LEMMA ValidPage ==
    ASSUME NEW payload \in Seq(Items), NEW existing \in [Codes -> AnyRow],
           ValidPayload(payload, Existing(existing)), NEW p \in ToSet(payload)
    PROVE  /\ p.row \in FormRows /\ p.row.code \in Codes
           /\ p.original # Absent => p.original \in Codes /\ existing[p.original] # Absent
           /\ p.original # p.row.code => existing[p.row.code] = Absent
<1>1. PICK i \in DOMAIN payload : p = payload[i]
    BY DEF ToSet
<1>2. p \in Items
    BY <1>1
<1>3. FreeCode(payload, i, Existing(existing)) /\ ShownOnce(payload, i, Existing(existing))
    BY DEF ValidPayload
<1> QED BY <1>1, <1>2, <1>3 DEF Items, FreeCode, ShownOnce, Existing

LEMMA PostKeepsTables ==
    ASSUME TablesInv, NEW m \in Moderators, NEW edit \in Edits, PostTable(m, edit) PROVE TablesInv'
<1> DEFINE form == saving[m]
           payload == Payload(form.page, edit)
           new == [form EXCEPT !.at = "write", !.page = payload, !.todo = payload, !.existing = rows]
<1>1. /\ form.at = "shown" /\ FormShape(form) /\ form.page \in [Codes -> AnyRow] /\ form.id \in Nat
      /\ DOMAIN form.written = {} /\ form.moved = {} /\ rows \in [Codes -> AnyRow]
    BY DEF PostTable, TablesInv, TableTypes, FormTypes, Writing
<1>2. payload \in Seq(Items)
    BY <1>1, PayloadItems
<1>3. CASE ValidPayload(payload, Existing(rows))
  <2> HIDE DEF payload
  <2>1. /\ FormShape(new) /\ new.at = "write" /\ new.page = payload /\ new.todo = payload /\ new.existing = rows
        /\ new.id = form.id /\ new.written = form.written /\ new.moved = form.moved
      BY <1>1 DEF FormShape, FormFields
  <2>2. saving' = [saving EXCEPT ![m] = new]
      BY <1>3 DEF PostTable, payload
  <2> HIDE DEF new, form
  <2>3. PageStands(new)
      BY <1>1, <1>2, <1>3, <2>1, ValidPage DEF PageStands
  <2>4. WrittenStands(new) /\ HeadStands(new) /\ MovedStands(new) /\ ExistingStands(new)
      BY <1>1, <2>1 DEF WrittenStands, RowStands, HeadStands, MovedStands, ExistingStands
  <2>5. saves' \in Nat
      BY DEF PostTable, TablesInv, TableTypes
  <2> QED BY <1>1, <2>1, <2>2, <2>3, <2>4, <2>5, FormStep DEF PostTable, FormStands
<1>4. CASE ~ValidPayload(payload, Existing(rows))
    BY <1>4, AbortKeepsTables DEF PostTable, Abort, TablesInv, TableTypes
<1> QED BY <1>3, <1>4

\* The first row of a form that is left, and the rows after it.
LEMMA HeadAndTail ==
    ASSUME NEW S, NEW s \in Seq(S), s # <<>>
    PROVE  /\ Head(s) \in ToSet(s) /\ ToSet(Tail(s)) \subseteq ToSet(s)
           /\ Tail(s) \in Seq(S)
    BY DEF ToSet

LEMMA NextRowStands ==
    ASSUME NEW form, FormShape(form), FormStands(form), form.todo # <<>>
    PROVE  /\ FormShape(NextRow(form)) /\ FormStands(NextRow(form)) /\ NextRow(form).at = "write"
           /\ NextRow(form).written = form.written /\ NextRow(form).moved = form.moved
<1> DEFINE new == NextRow(form)
<1>1. /\ FormShape(new) /\ new.at = "write" /\ new.todo = Tail(form.todo)
      /\ new.page = form.page /\ new.existing = form.existing /\ new.written = form.written
      /\ new.moved = form.moved /\ new.id = form.id
    BY DEF FormShape, FormFields, NextRow
<1> HIDE DEF new
<1>2. PageStands(new)
  <2>1. PICK S : form.todo \in Seq(S)
      BY DEF FormStands, PageStands
  <2>2. Tail(form.todo) \in Seq(S) /\ ToSet(Tail(form.todo)) \subseteq ToSet(form.todo)
      BY <2>1, HeadAndTail
  <2> QED BY <1>1, <2>2 DEF FormStands, PageStands
<1>3. WrittenStands(new) /\ HeadStands(new) /\ MovedStands(new) /\ ExistingStands(new)
    BY <1>1 DEF FormStands, WrittenStands, RowStands, HeadStands, MovedStands, ExistingStands, Renamed
<1> QED BY <1>1, <1>2, <1>3 DEF FormStands, new

\* A row is written that was not there, or stands for what it did.
LEMMA WithRowStands ==
    ASSUME NEW form, FormShape(form), FormStands(form), NEW p \in ToSet(form.page), NEW row \in TableRows,
           rows \in [Codes -> AnyRow],
           rows[p.row.code] # Absent => rows[p.row.code].of = row.of,
           rows[p.row.code] = Absent => p.original # p.row.code,
           p.row.code \in DOMAIN form.written => form.written[p.row.code] # Absent /\ form.written[p.row.code].of = row.of,
           NEW new, new = WithRow(form, p.row.code, row)
    PROVE  /\ FormShape(new) /\ PageStands(new) /\ WrittenStands(new) /\ MovedStands(new) /\ ExistingStands(new)
           /\ new.at = form.at /\ new.todo = form.todo /\ new.existing = form.existing /\ new.moved = form.moved
           /\ DOMAIN new.written = DOMAIN form.written \cup {p.row.code} /\ new.written[p.row.code] = row
<1> DEFINE c == p.row.code
<1>1. /\ FormShape(new) /\ new.at = form.at /\ new.todo = form.todo /\ new.page = form.page
      /\ new.existing = form.existing /\ new.moved = form.moved /\ new.id = form.id
      /\ new.written = [e \in DOMAIN form.written \cup {c} |-> IF e = c THEN row ELSE form.written[e]]
    BY DEF FormShape, FormFields, WithRow
<1>2. c \in Codes /\ row # Absent
    BY CodesAndRows DEF FormStands, PageStands
<1>3. PageStands(new) /\ ExistingStands(new)
    BY <1>1 DEF FormStands, PageStands, ExistingStands
<1>4. /\ DOMAIN new.written = DOMAIN form.written \cup {c} /\ new.written[c] = row
      /\ \A e \in DOMAIN form.written \ {c} : new.written[e] = form.written[e]
    BY <1>1
<1>5. WrittenStands(new)
  <2> SUFFICES ASSUME NEW e \in DOMAIN new.written PROVE RowStands(new, e)
      BY DEF WrittenStands
  <2>1. CASE e = c
      BY <1>1, <1>2, <1>4, <2>1 DEF AnyRow, RowStands
  <2>2. CASE e # c
    <3>1. e \in DOMAIN form.written /\ new.written[e] = form.written[e]
        BY <1>4, <2>2
    <3>2. RowStands(form, e)
        BY <3>1 DEF FormStands, WrittenStands
    <3> QED BY <1>1, <3>1, <3>2 DEF RowStands
  <2> QED BY <2>1, <2>2
<1>6. MovedStands(new)
  <2>1. ASSUME NEW old, NEW e, Renamed(form, old, e) PROVE Renamed(new, old, e)
    <3>1. CASE e = c
        BY <1>1, <1>2, <1>4, <2>1, <3>1 DEF Renamed
    <3>2. CASE e # c
        BY <1>1, <1>4, <2>1, <3>2 DEF Renamed
    <3> QED BY <3>1, <3>2
  <2> QED BY <1>1, <2>1 DEF FormStands, MovedStands
<1> QED BY <1>1, <1>3, <1>4, <1>5, <1>6

\* The row of a form that is next, and what is written of it.
RowAction(m) == SaveAction(Head(saving[m].todo), saving[m].existing)
RowOf(m) == IF RowAction(m) = "insert" THEN <<"new", saving[m].id>>
            ELSE IF RowAction(m) = "rename" THEN saving[m].existing[Head(saving[m].todo).original].of
            ELSE Seen(m)[Head(saving[m].todo).row.code].of
RowWritten(m) == [name |-> Head(saving[m].todo).row.name, data |-> Head(saving[m].todo).row.data, of |-> RowOf(m)]

\* The row that is written, when it is not left alone.
LEMMA RowToWrite ==
    ASSUME TablesInv, NEW m \in Moderators, WriteRow(m), RowAction(m) # "unchanged",
           IF RowAction(m) = "update" THEN Seen(m)[Head(saving[m].todo).row.code] # Absent
                                      ELSE Seen(m)[Head(saving[m].todo).row.code] = Absent
    PROVE  LET p == Head(saving[m].todo)
               c == p.row.code
               form == saving[m]
               row == RowWritten(m)
           IN  /\ p \in ToSet(form.page) /\ c \in Codes /\ row \in TableRows
               /\ rows[c] # Absent => rows[c].of = row.of
               /\ rows[c] = Absent => p.original # c
               /\ c \in DOMAIN form.written => form.written[c] # Absent /\ form.written[c].of = row.of
               /\ RowAction(m) = "rename" =>
                     /\ p.original \in Codes /\ form.existing[p.original] # Absent
                     /\ form.existing[c] = Absent /\ row.of = form.existing[p.original].of
<1> DEFINE form == saving[m]
           p == Head(form.todo)
           c == p.row.code
           action == RowAction(m)
           of == RowOf(m)
           row == RowWritten(m)
<1>1. form.at = "write" /\ form.todo # <<>> /\ FormStands(form) /\ rows \in [Codes -> AnyRow]
    BY Zenon DEF WriteRow, TablesInv, TableTypes, Writing
<1>2. p \in ToSet(form.page)
  <2>1. PICK S : form.todo \in Seq(S)
      BY <1>1 DEF FormStands, PageStands
  <2> QED BY <1>1, <2>1, HeadAndTail DEF FormStands, PageStands
<1>3. /\ form.existing \in [Codes -> AnyRow] /\ form.id \in Nat
      /\ p.row \in FormRows /\ c \in Codes
      /\ p.original # Absent => p.original \in Codes /\ form.existing[p.original] # Absent
      /\ p.original # c => form.existing[c] = Absent
    BY <1>1, <1>2 DEF FormStands, PageStands
<1>4. /\ row = [name |-> p.row.name, data |-> p.row.data, of |-> of] /\ row.of = of
      /\ p.row.name \in STRING /\ p.row.data \in Nat
  <2>1. p.row.name \in STRING /\ p.row.data \in Nat
      BY <1>3 DEF FormRows
  <2>2. row = [name |-> p.row.name, data |-> p.row.data, of |-> of]
      BY Zenon DEF RowWritten
  <2> HIDE DEF row, of
  <2> QED BY <2>1, <2>2
<1>5. Seen(m)[c] = IF c \in DOMAIN form.written THEN form.written[c] ELSE rows[c]
    BY <1>3 DEF Seen
<1>6. c \in DOMAIN form.written => RowStands(form, c)
    BY <1>1 DEF FormStands, WrittenStands
<1>7. of = IF action = "insert" THEN <<"new", form.id>>
           ELSE IF action = "rename" THEN form.existing[p.original].of ELSE Seen(m)[c].of
    BY DEF RowOf
<1>8. action # "unchanged"
    OBVIOUS
<1>9. IF action = "update" THEN Seen(m)[c] # Absent ELSE Seen(m)[c] = Absent
    OBVIOUS
<1>10. action = IF p.original = Absent THEN "insert"
               ELSE IF form.existing[p.original] = Absent THEN "insert"
               ELSE IF p.original # c THEN "rename"
               ELSE IF Matches(p.row, form.existing[p.original]) THEN "unchanged" ELSE "update"
    BY DEF RowAction, SaveAction
<1> SUFFICES /\ row \in TableRows
             /\ rows[c] # Absent => rows[c].of = row.of
             /\ rows[c] = Absent => p.original # c
             /\ c \in DOMAIN form.written => form.written[c] # Absent /\ form.written[c].of = row.of
             /\ action = "rename" => /\ p.original \in Codes /\ form.existing[p.original] # Absent
                                     /\ form.existing[c] = Absent /\ row.of = form.existing[p.original].of
    BY <1>2, <1>3, Zenon DEF form, c, p, action, row
<1> HIDE DEF form, c, p, action, of, row
<1>11. CASE p.original # c
  <2>1. action = IF p.original = Absent THEN "insert" ELSE "rename"
      BY <1>3, <1>11, <1>10
  <2>2. c \notin DOMAIN form.written /\ rows[c] = Absent
      BY <1>3, <1>5, <1>6, <1>11, <1>9, <2>1 DEF RowStands
  <2>3. of \in ({"first"} \X Codes) \cup ({"new"} \X Nat)
    <3>1. CASE action = "insert"
        BY <1>3, <1>7, <3>1
    <3>2. CASE action = "rename"
      <4>1. form.existing[p.original] \in TableRows
          BY <1>3, <2>1, <3>2 DEF AnyRow
      <4> QED BY <1>7, <3>2, <4>1 DEF TableRows
    <3> QED BY <2>1, <3>1, <3>2
  <2>4. row \in TableRows
      BY <1>4, <2>3 DEF TableRows
  <2> QED BY <1>3, <1>4, <1>7, <1>11, <2>1, <2>2, <2>4
<1>12. CASE p.original = c
  <2>1. action = "update" /\ of = Seen(m)[c].of /\ Seen(m)[c] # Absent
      BY <1>3, <1>7, <1>12, <1>8, <1>9, <1>10, CodesAndRows
  <2>2. form.existing[c] # Absent
      BY <1>3, <1>12, CodesAndRows
  <2>3. rows[c] # Absent
    <3>1. CASE c \in DOMAIN form.written
      <4>1. ~\E q \in ToSet(form.page) : q.row.code = c /\ q.original # c
          BY <1>1, <2>2 DEF FormStands, PageStands
      <4> QED BY <1>5, <1>6, <2>1, <3>1, <4>1 DEF RowStands
    <3>2. CASE c \notin DOMAIN form.written
        BY <1>5, <2>1, <3>2
    <3> QED BY <3>1, <3>2
  <2>4. rows[c].of = of /\ (c \in DOMAIN form.written => form.written[c] # Absent /\ form.written[c].of = of)
      BY <1>5, <1>6, <2>1, <2>3 DEF RowStands
  <2>5. rows[c] \in TableRows
      BY <1>1, <1>3, <2>3 DEF AnyRow
  <2>6. row \in TableRows
      BY <1>4, <2>4, <2>5 DEF TableRows
  <2> QED BY <1>4, <2>1, <2>3, <2>4, <2>6
<1> QED BY <1>11, <1>12, Zenon

LEMMA WriteKeepsTables ==
    ASSUME TablesInv, NEW m \in Moderators, WriteRow(m) PROVE TablesInv'
<1> DEFINE form == saving[m]
           p == Head(form.todo)
           c == p.row.code
           action == RowAction(m)
           row == RowWritten(m)
           written == WithRow(form, c, row)
           renamed == [written EXCEPT !.at = "move"]
<1>1. /\ form.at = "write" /\ form.todo # <<>> /\ FormShape(form) /\ FormStands(form)
      /\ rows \in [Codes -> AnyRow]
      /\ UNCHANGED <<rows, discCodes, approving, meant, freed, reused>> /\ saves' \in Nat
      /\ \A n \in Moderators \ {m} :
            /\ DOMAIN form.written \cap DOMAIN saving[n].written = {}
            /\ \A v \in form.moved, w \in saving[n].moved : v[1] # w[1] \/ v[2] # w[2]
    BY Zenon DEF WriteRow, TablesInv, TableTypes, FormTypes, Writing, LocksStand
<1>2. CASE saving' = [saving EXCEPT ![m] = NextRow(form)]
  <2> DEFINE next == NextRow(form)
  <2>1. /\ FormShape(next) /\ FormStands(next) /\ next.at = "write"
        /\ next.written = form.written /\ next.moved = form.moved
    BY <1>1, NextRowStands
  <2>2. saving' = [saving EXCEPT ![m] = next]
    BY <1>2
  <2>3. \A n \in Moderators \ {m} :
              /\ DOMAIN next.written \cap DOMAIN saving[n].written = {}
              /\ \A v \in next.moved, w \in saving[n].moved : v[1] # w[1] \/ v[2] # w[2]
    BY <1>1, <2>1
  <2> HIDE DEF next, form
  <2> QED BY <1>1, <2>1, <2>2, <2>3, FormStep
<1>3. CASE Abort(m)
    BY <1>1, <1>3, AbortKeepsTables
<1>4. CASE /\ action # "unchanged" /\ ~Contended(m, c)
           /\ IF action = "update" THEN Seen(m)[c] # Absent ELSE Seen(m)[c] = Absent
           /\ saving' = [saving EXCEPT ![m] = IF action = "rename" THEN renamed ELSE NextRow(written)]
  <2>1. /\ p \in ToSet(form.page) /\ c \in Codes /\ row \in TableRows
        /\ rows[c] # Absent => rows[c].of = row.of
        /\ rows[c] = Absent => p.original # c
        /\ c \in DOMAIN form.written => form.written[c] # Absent /\ form.written[c].of = row.of
        /\ action = "rename" => /\ p.original \in Codes /\ form.existing[p.original] # Absent
                                /\ form.existing[c] = Absent /\ row.of = form.existing[p.original].of
    BY <1>4, RowToWrite, Zenon
  <2> HIDE DEF row, action
  <2>2. /\ FormShape(written) /\ PageStands(written) /\ WrittenStands(written)
        /\ MovedStands(written) /\ ExistingStands(written)
        /\ written.at = form.at /\ written.todo = form.todo /\ written.existing = form.existing
        /\ written.moved = form.moved
        /\ DOMAIN written.written = DOMAIN form.written \cup {c} /\ written.written[c] = row
    <3> HIDE DEF form, p
    <3> QED BY <1>1, <2>1, WithRowStands
  <2>3. \A n \in Moderators \ {m} : c \notin DOMAIN saving[n].written
    BY <1>4 DEF Contended
  <2> HIDE DEF written
  <2>4. CASE action = "rename"
    <3>1. /\ FormShape(renamed) /\ renamed.at = "move" /\ renamed.todo = form.todo
          /\ renamed.page = written.page /\ renamed.existing = form.existing /\ renamed.id = written.id
          /\ renamed.written = written.written /\ renamed.moved = form.moved
      BY <2>2 DEF FormShape, FormFields
    <3> HIDE DEF renamed
    <3>2. PageStands(renamed) /\ WrittenStands(renamed) /\ MovedStands(renamed) /\ ExistingStands(renamed)
      BY <2>2, <3>1 DEF PageStands, WrittenStands, RowStands, MovedStands, ExistingStands, Renamed
    <3>3. HeadStands(renamed)
      <4>1. p.original # Absent /\ row # Absent
        BY <2>1, <2>4, CodesAndRows
      <4>2. Renamed(renamed, p.original, c)
        BY <2>1, <2>2, <2>4, <3>1, <4>1, Zenon DEF Renamed
      <4> QED BY <1>1, <3>1, <4>1, <4>2 DEF HeadStands
    <3>4. saving' = [saving EXCEPT ![m] = renamed]
      BY <1>4, <2>4
    <3> HIDE DEF form, c, p
    <3>5. FormStands(renamed) /\ \A n \in Moderators \ {m} :
              /\ DOMAIN renamed.written \cap DOMAIN saving[n].written = {}
              /\ \A v \in renamed.moved, w \in saving[n].moved : v[1] # w[1] \/ v[2] # w[2]
      BY <1>1, <2>2, <2>3, <3>1, <3>2, <3>3 DEF FormStands
    <3> QED BY <1>1, <3>1, <3>4, <3>5, FormStep
  <2>5. CASE action # "rename"
    <3>1. HeadStands(written)
      BY <1>1, <2>2 DEF HeadStands
    <3>2. /\ FormShape(NextRow(written)) /\ FormStands(NextRow(written)) /\ NextRow(written).at = "write"
          /\ NextRow(written).written = written.written /\ NextRow(written).moved = written.moved
      BY <1>1, <2>2, <3>1, NextRowStands DEF FormStands
    <3>3. saving' = [saving EXCEPT ![m] = NextRow(written)]
      BY <1>4, <2>5
    <3> DEFINE new == NextRow(written)
    <3>4. /\ FormShape(new) /\ FormStands(new) /\ new.at = "write"
          /\ saving' = [saving EXCEPT ![m] = new]
      BY <3>2, <3>3
    <3>5. new.written = written.written /\ new.moved = written.moved
      BY <3>2
    <3> HIDE DEF new, form, c, p
    <3>6. \A n \in Moderators \ {m} :
              /\ DOMAIN new.written \cap DOMAIN saving[n].written = {}
              /\ \A v \in new.moved, w \in saving[n].moved : v[1] # w[1] \/ v[2] # w[2]
      BY <1>1, <2>2, <2>3, <3>5
    <3> QED BY <1>1, <3>4, <3>6, FormStep
  <2> QED BY <2>4, <2>5, Zenon
<1>5. \/ saving' = [saving EXCEPT ![m] = NextRow(form)]
      \/ Abort(m)
      \/ /\ action # "unchanged" /\ ~Contended(m, c)
         /\ IF action = "update" THEN Seen(m)[c] # Absent ELSE Seen(m)[c] = Absent
         /\ saving' = [saving EXCEPT ![m] = IF action = "rename" THEN renamed ELSE NextRow(written)]
  <2>1. CASE action = "unchanged"
    BY <2>1 DEF WriteRow, RowAction
  <2>2. CASE action # "unchanged"
    <3>1. /\ ~Contended(m, c)
          /\ CASE action = "update" /\ Seen(m)[c] = Absent -> saving' = [saving EXCEPT ![m] = NextRow(form)]
               [] action # "update" /\ Seen(m)[c] # Absent -> Abort(m)
               [] NameTaken(m, c, p.row.name) -> Abort(m)
               [] OTHER -> saving' = [saving EXCEPT ![m] = IF action = "rename" THEN renamed ELSE NextRow(written)]
      BY <2>2, Zenon DEF WriteRow, RowAction, RowOf, RowWritten
    <3> HIDE DEF action, written, renamed, c, form, p
    <3> QED BY <2>2, <3>1, Zenon
  <2> QED BY <2>1, <2>2, Zenon
<1> QED BY <1>2, <1>3, <1>4, <1>5, Zenon

LEMMA MoveKeepsTables ==
    ASSUME TablesInv, NEW m \in Moderators, MoveDiscs(m) PROVE TablesInv'
<1> DEFINE form == saving[m]
           p == Head(form.todo)
           having == {d \in Discs : p.original \in discCodes[d]}
           moved == form.moved \cup {<<d, p.original, p.row.code>> : d \in having}
           new == [form EXCEPT !.at = "delete", !.moved = moved]
<1>1. /\ form.at = "move" /\ FormShape(form) /\ FormStands(form)
      /\ UNCHANGED <<rows, discCodes, approving, meant, freed, reused>> /\ saves' \in Nat
      /\ \A n \in Moderators \ {m} :
            /\ DOMAIN form.written \cap DOMAIN saving[n].written = {}
            /\ \A v \in form.moved, w \in saving[n].moved : v[1] # w[1] \/ v[2] # w[2]
    BY DEF MoveDiscs, TablesInv, TableTypes, FormTypes, Writing, LocksStand
<1>2. /\ FormShape(new) /\ new.at = "delete" /\ new.todo = form.todo /\ new.page = form.page
      /\ new.existing = form.existing /\ new.id = form.id /\ new.written = form.written /\ new.moved = moved
    BY <1>1 DEF FormShape, FormFields
<1>3. saving' = [saving EXCEPT ![m] = new]
    BY DEF MoveDiscs
<1>4. \A v \in moved : \/ v \in form.moved
                       \/ v[1] \in having /\ v[2] = p.original /\ v[3] = p.row.code
    OBVIOUS
<1>5. \A v \in form.moved : v \in moved
    OBVIOUS
<1>6. /\ approving.disc \notin having
      /\ \A n \in Moderators \ {m}, d \in having :
            \A v \in saving[n].moved : v[1] # d \/ v[2] # p.original
  <2>1. /\ approving.disc \notin having
        /\ \A n \in Moderators \ {m}, d \in having : <<d, p.original>> \notin {<<v[1], v[2]>> : v \in saving[n].moved}
    BY DEF MoveDiscs
  <2> QED BY <2>1
<1>7. form.todo # <<>> /\ p.original # Absent /\ Renamed(form, p.original, p.row.code)
    BY <1>1 DEF FormStands, HeadStands
<1>8. \A d \in having : d \in Discs /\ p.original \in discCodes[d]
    OBVIOUS
<1> HIDE DEF new, moved, having
<1>9. PageStands(new) /\ ExistingStands(new)
    BY <1>1, <1>2 DEF FormStands, PageStands, ExistingStands
<1>10. WrittenStands(new)
    BY <1>1, <1>2, <1>5 DEF FormStands, WrittenStands, RowStands
<1>11. HeadStands(new)
    BY <1>2, <1>7 DEF HeadStands, Renamed
<1>12. MovedStands(new)
  <2> SUFFICES ASSUME NEW v \in new.moved
               PROVE  /\ v[1] \in Discs /\ v[2] \in discCodes[v[1]] /\ v[1] # approving.disc
                      /\ Renamed(new, v[2], v[3])
    BY DEF MovedStands
  <2>1. CASE v \in form.moved
    <3>1. /\ v[1] \in Discs /\ v[2] \in discCodes[v[1]] /\ v[1] # approving.disc
          /\ Renamed(form, v[2], v[3])
      BY <1>1, <2>1 DEF FormStands, MovedStands
    <3> QED BY <1>2, <3>1 DEF Renamed
  <2>2. CASE v[1] \in having /\ v[2] = p.original /\ v[3] = p.row.code
    BY <1>2, <1>6, <1>7, <1>8, <2>2 DEF Renamed
  <2> QED BY <1>2, <1>4, <2>1, <2>2
<1>13. \A n \in Moderators \ {m} :
            /\ DOMAIN new.written \cap DOMAIN saving[n].written = {}
            /\ \A v \in new.moved, w \in saving[n].moved : v[1] # w[1] \/ v[2] # w[2]
    BY <1>1, <1>2, <1>4, <1>6
<1> HIDE DEF form, p
<1> QED BY <1>1, <1>2, <1>3, <1>9, <1>10, <1>11, <1>12, <1>13, FormStep DEF FormStands

\* The old row is deleted.
LEMMA WithoutRowStands ==
    ASSUME NEW form, FormShape(form), FormStands(form),
           NEW p \in ToSet(form.page), Renamed(form, p.original, p.row.code),
           p.original \notin approving.codes,
           \A d \in Discs : p.original \in discCodes[d] => \E v \in form.moved : v[1] = d /\ v[2] = p.original,
           NEW new, new = WithRow(form, p.original, Absent)
    PROVE  /\ FormShape(new) /\ FormStands(new) /\ new.todo = form.todo /\ new.moved = form.moved
           /\ DOMAIN new.written = DOMAIN form.written \cup {p.original}
<1> DEFINE c == p.original
<1>1. /\ FormShape(new) /\ new.at = form.at /\ new.todo = form.todo /\ new.page = form.page
      /\ new.existing = form.existing /\ new.moved = form.moved /\ new.id = form.id
      /\ new.written = [e \in DOMAIN form.written \cup {c} |-> IF e = c THEN Absent ELSE form.written[e]]
    BY DEF FormShape, FormFields, WithRow
<1>2. /\ DOMAIN new.written = DOMAIN form.written \cup {c} /\ new.written[c] = Absent
      /\ \A e \in DOMAIN form.written \ {c} : new.written[e] = form.written[e]
    BY <1>1
<1>3. c \in Codes /\ form.existing[c] # Absent /\ p.row.code # c
    BY DEF Renamed
<1>4. PageStands(new) /\ ExistingStands(new)
    BY <1>1 DEF FormStands, PageStands, ExistingStands
<1>5. ASSUME NEW old, NEW e, Renamed(form, old, e) PROVE Renamed(new, old, e)
    BY <1>1, <1>2, <1>3, <1>5 DEF Renamed
<1>6. HeadStands(new) /\ MovedStands(new)
    BY <1>1, <1>5 DEF FormStands, HeadStands, MovedStands
<1>7. WrittenStands(new)
  <2> SUFFICES ASSUME NEW e \in DOMAIN new.written PROVE RowStands(new, e)
      BY DEF WrittenStands
  <2>1. CASE e = c
      BY <1>1, <1>2, <1>3, <2>1 DEF RowStands, AnyRow
  <2>2. CASE e # c
    <3>1. e \in DOMAIN form.written /\ new.written[e] = form.written[e]
        BY <1>2, <2>2
    <3>2. RowStands(form, e)
        BY <3>1 DEF FormStands, WrittenStands
    <3> QED BY <1>1, <3>1, <3>2 DEF RowStands
  <2> QED BY <2>1, <2>2
<1> QED BY <1>1, <1>2, <1>4, <1>6, <1>7 DEF FormStands

LEMMA DeleteKeepsTables ==
    ASSUME TablesInv, NEW m \in Moderators, DeleteOld(m) PROVE TablesInv'
<1> DEFINE form == saving[m]
           c == Head(form.todo).original
           left == {d \in Discs : c \in discCodes[d] /\ \A v \in form.moved : v[1] # d \/ v[2] # c}
           without == WithRow(form, c, Absent)
           kept == NextRow(form)
           deleted == NextRow(without)
<1>1. /\ form.at = "delete" /\ FormShape(form) /\ FormStands(form)
      /\ UNCHANGED <<rows, discCodes, approving, meant, freed, reused>> /\ saves' \in Nat
      /\ \A n \in Moderators \ {m} :
            /\ DOMAIN form.written \cap DOMAIN saving[n].written = {}
            /\ \A v \in form.moved, w \in saving[n].moved : v[1] # w[1] \/ v[2] # w[2]
    BY DEF DeleteOld, TablesInv, TableTypes, FormTypes, Writing, LocksStand
<1>2. /\ form.todo # <<>> /\ Head(form.todo) \in ToSet(form.page)
      /\ Renamed(form, c, Head(form.todo).row.code)
  <2>1. PICK S : form.todo \in Seq(S)
      BY <1>1 DEF FormStands, PageStands
  <2>2. form.todo # <<>> /\ Renamed(form, c, Head(form.todo).row.code)
      BY <1>1 DEF FormStands, HeadStands
  <2> QED BY <1>1, <2>1, <2>2, HeadAndTail DEF FormStands, PageStands
<1>3. /\ c \notin approving.codes /\ \A n \in Moderators \ {m} : c \notin DOMAIN saving[n].written
      /\ \/ Abort(m)
         \/ saving' = [saving EXCEPT ![m] = kept]
         \/ left = {} /\ saving' = [saving EXCEPT ![m] = deleted]
    BY DEF DeleteOld, Contended
<1>4. CASE Abort(m)
    BY <1>1, <1>4, AbortKeepsTables
<1>5. CASE saving' = [saving EXCEPT ![m] = kept]
  <2>1. /\ FormShape(kept) /\ FormStands(kept) /\ kept.at = "write"
        /\ kept.written = form.written /\ kept.moved = form.moved
    BY <1>1, <1>2, NextRowStands
  <2>2. \A n \in Moderators \ {m} :
              /\ DOMAIN kept.written \cap DOMAIN saving[n].written = {}
              /\ \A v \in kept.moved, w \in saving[n].moved : v[1] # w[1] \/ v[2] # w[2]
    BY <1>1, <2>1
  <2> HIDE DEF kept, form
  <2> QED BY <1>1, <1>5, <2>1, <2>2, FormStep
<1>6. CASE left = {} /\ saving' = [saving EXCEPT ![m] = deleted]
  <2>1. \A d \in Discs : c \in discCodes[d] => \E v \in form.moved : v[1] = d /\ v[2] = c
    BY <1>6
  <2>2. /\ FormShape(without) /\ FormStands(without) /\ without.todo = form.todo /\ without.moved = form.moved
        /\ DOMAIN without.written = DOMAIN form.written \cup {c}
    <3> HIDE DEF form
    <3> QED BY <1>1, <1>2, <1>3, <2>1, WithoutRowStands
  <2> HIDE DEF without
  <2>3. /\ FormShape(deleted) /\ FormStands(deleted) /\ deleted.at = "write"
        /\ deleted.written = without.written /\ deleted.moved = form.moved
    BY <1>2, <2>2, NextRowStands
  <2> HIDE DEF deleted
  <2>4. \A n \in Moderators \ {m} :
              /\ DOMAIN deleted.written \cap DOMAIN saving[n].written = {}
              /\ \A v \in deleted.moved, w \in saving[n].moved : v[1] # w[1] \/ v[2] # w[2]
    BY <1>1, <1>3, <2>2, <2>3
  <2> HIDE DEF form
  <2> QED BY <1>1, <1>6, <2>3, <2>4, FormStep
<1> QED BY <1>3, <1>4, <1>5, <1>6

-----------------------------------------------------------------------------
(* Lookup tables: commits.                                                 *)

\* A form that is done has no locks.
LEMMA FormIsGone ==
    ASSUME TablesInv, NEW m \in Moderators, Abort(m)
    PROVE  /\ FormTypes' /\ LocksStand' /\ saving'[m] = NoForm
           /\ \A n \in Moderators \ {m} : saving'[n] = saving[n]
<1>1. saving'[m] = NoForm /\ \A n \in Moderators \ {m} : saving'[n] = saving[n]
    BY DEF Abort, TablesInv, FormTypes
<1>2. LocksStand'
    BY <1>1, NoFormShape DEF TablesInv, LocksStand
<1>3. saving' = [n \in Moderators |-> saving'[n]]
    BY DEF Abort, TablesInv, FormTypes
<1>4. ASSUME NEW n \in Moderators
      PROVE  /\ FormShape(saving[n])'
             /\ Writing(n)' \/ (saving'[n].at \in {"idle", "shown"} /\ DOMAIN saving'[n].written = {} /\ saving'[n].moved = {})
             /\ (saving[n].at = "shown" => saving[n].page \in [Codes -> AnyRow] /\ saving[n].id \in Nat)'
  <2>1. CASE n = m
    <3>1. FormShape(saving'[n]) /\ saving'[n].at = "idle" /\ DOMAIN saving'[n].written = {} /\ saving'[n].moved = {}
        BY <1>1, <2>1, NoFormShape
    <3> QED BY <3>1 DEF FormShape
  <2>2. CASE n # m
    <3>1. saving'[n] = saving[n]
        BY <1>1, <2>2
    <3>2. FormShape(saving'[n]) /\ FormShape(saving[n])'
        BY <3>1 DEF TablesInv, FormTypes, FormShape
    <3> QED BY <3>1, <3>2 DEF TablesInv, FormTypes, Writing
  <2> QED BY <2>1, <2>2
<1> QED BY <1>1, <1>2, <1>3, <1>4 DEF FormTypes

\* A row of the page with another code than it was shown with is inserted or
\* renamed.
LEMMA RowIsGiven ==
    ASSUME NEW form, PageStands(form), NEW p \in ToSet(form.page), p.original # p.row.code
    PROVE  SaveAction(p, form.existing) \in {"insert", "rename"}
<1>1. p.original # Absent => form.existing[p.original] # Absent
    BY DEF PageStands
<1> QED BY <1>1 DEF SaveAction

\* What a commit makes of the rows: one that is gone was renamed, one that is
\* new is given, the others stand for what they did.
LEMMA SavedRows ==
    ASSUME TablesInv, NEW m \in Moderators, CommitSave(m)
    PROVE  /\ rows' \in [Codes -> AnyRow] /\ reused' \in BOOLEAN /\ (reused => reused') /\ freed \subseteq freed'
           /\ \A c \in DOMAIN saving[m].written : c \in Codes /\ rows'[c] = saving[m].written[c]
           /\ \A c \in Codes \ DOMAIN saving[m].written : rows'[c] = rows[c]
           /\ \A c \in Codes : rows[c] # Absent =>
                 \/ rows'[c] # Absent /\ rows'[c].of = rows[c].of
                 \/ rows'[c] = Absent /\ c \in DOMAIN saving[m].written /\ c \in freed'
           /\ \A c \in Codes : rows[c] = Absent /\ c \in freed => rows'[c] = Absent \/ reused'
<1> DEFINE form == saving[m]
           given == {p \in ToSet(form.page) : SaveAction(p, form.existing) \in {"insert", "rename"}}
<1>1. /\ rows' = Seen(m) /\ freed' = freed \cup {p.original : p \in {q \in given : q.original # Absent}}
      /\ reused' = (reused \/ {p.row.code : p \in given} \cap freed # {})
    BY DEF CommitSave
<1>2. form.at = "write" /\ PageStands(form) /\ WrittenStands(form) /\ rows \in [Codes -> AnyRow]
    BY DEF CommitSave, TablesInv, TableTypes, Writing, FormStands
<1>3. \A p \in ToSet(form.page) : p.original # p.row.code => p \in given
    BY <1>2, RowIsGiven
<1> HIDE DEF given
<1>4. \A c \in DOMAIN form.written : RowStands(form, c)
    BY <1>2 DEF WrittenStands
<1>5. \A c \in Codes : rows'[c] = IF c \in DOMAIN form.written THEN form.written[c] ELSE rows[c]
    BY <1>1 DEF Seen
<1>6. rows' = [c \in Codes |-> rows'[c]]
    BY <1>1 DEF Seen
<1> HIDE DEF form
<1>7. \A c \in DOMAIN form.written : c \in Codes /\ form.written[c] \in AnyRow
    BY <1>4 DEF RowStands
<1>8. rows' \in [Codes -> AnyRow]
    BY <1>2, <1>5, <1>6, <1>7
<1>9. ASSUME NEW c \in Codes, rows[c] # Absent
      PROVE  \/ rows'[c] # Absent /\ rows'[c].of = rows[c].of
             \/ rows'[c] = Absent /\ c \in DOMAIN form.written /\ c \in freed'
  <2>1. CASE c \notin DOMAIN form.written
    BY <1>5, <1>9, <2>1
  <2>2. CASE c \in DOMAIN form.written /\ form.written[c] # Absent
    BY <1>4, <1>5, <1>9, <2>2 DEF RowStands
  <2>3. CASE c \in DOMAIN form.written /\ form.written[c] = Absent
    <3>1. PICK p \in ToSet(form.page) : p.original = c /\ p.row.code # c
        BY <1>4, <2>3 DEF RowStands
    <3>2. p \in given /\ p.original # Absent
        BY <1>3, <3>1, CodesAndRows
    <3> QED BY <1>1, <1>5, <2>3, <3>1, <3>2
  <2> QED BY <2>1, <2>2, <2>3
<1>10. ASSUME NEW c \in Codes, rows[c] = Absent, c \in freed PROVE rows'[c] = Absent \/ reused'
  <2>1. CASE c \notin DOMAIN form.written \/ form.written[c] = Absent
    BY <1>5, <1>10, <2>1
  <2>2. CASE c \in DOMAIN form.written /\ form.written[c] # Absent
    <3>1. PICK p \in ToSet(form.page) : p.row.code = c /\ p.original # c
        BY <1>4, <1>10, <2>2 DEF RowStands
    <3>2. p \in given
        BY <1>3, <3>1
    <3> QED BY <1>1, <1>10, <3>1, <3>2
  <2> QED BY <2>1, <2>2
<1>11. reused' \in BOOLEAN /\ (reused => reused') /\ freed \subseteq freed'
    BY <1>1 DEF TablesInv, TableTypes
<1> QED BY <1>5, <1>7, <1>8, <1>9, <1>10, <1>11 DEF form

\* The codes of a disc: the old ones that were moved are replaced.
LEMMA SavedCodes ==
    ASSUME TablesInv, NEW m \in Moderators, CommitSave(m)
    PROVE  /\ discCodes' \in [Discs -> SUBSET Codes]
           /\ \A d \in Discs : \A c :
                 c \in discCodes'[d] <=>
                     \/ c \in discCodes[d] /\ \A v \in saving[m].moved : v[1] = d => v[2] # c
                     \/ \E v \in saving[m].moved : v[1] = d /\ v[3] = c
<1> DEFINE form == saving[m]
           moves(d) == {v \in form.moved : v[1] = d}
<1>1. discCodes' = [d \in Discs |-> (discCodes[d] \ {v[2] : v \in moves(d)}) \cup {v[3] : v \in moves(d)}]
    BY DEF CommitSave
<1>2. ASSUME NEW d \in Discs, NEW c
      PROVE  c \in discCodes'[d] <=>
                 \/ c \in discCodes[d] /\ \A v \in form.moved : v[1] = d => v[2] # c
                 \/ \E v \in form.moved : v[1] = d /\ v[3] = c
  <2>1. discCodes'[d] = (discCodes[d] \ {v[2] : v \in moves(d)}) \cup {v[3] : v \in moves(d)}
      BY <1>1
  <2> QED BY <2>1
<1>3. \A v \in form.moved : v[3] \in Codes
  <2>1. FormStands(form)
      BY DEF CommitSave, TablesInv, Writing
  <2> QED BY <2>1 DEF FormStands, WrittenStands, RowStands, MovedStands, Renamed
<1>4. discCodes' = [d \in Discs |-> discCodes'[d]]
    BY <1>1
<1>5. discCodes \in [Discs -> SUBSET Codes]
    BY DEF TablesInv, TableTypes
<1>6. \A d \in Discs : discCodes'[d] \subseteq Codes
    BY <1>2, <1>3, <1>5
<1> HIDE DEF form, moves
<1>7. discCodes' \in [Discs -> SUBSET Codes]
    BY <1>4, <1>6
<1> QED BY <1>2, <1>7 DEF form

\* The discs keep what their codes stand for.
LEMMA SavedDiscs ==
    ASSUME TablesInv, NEW m \in Moderators, CommitSave(m) PROVE DiscsKeepTheirRegions'
<1> DEFINE form == saving[m]
<1>1. FormStands(form)
    BY DEF CommitSave, TablesInv, Writing
<1>2. meant' = meant
    BY DEF CommitSave
<1>3. /\ rows \in [Codes -> AnyRow] /\ rows' \in [Codes -> AnyRow]
      /\ discCodes \in [Discs -> SUBSET Codes] /\ discCodes' \in [Discs -> SUBSET Codes]
    BY SavedRows, SavedCodes DEF TablesInv, TableTypes
<1> SUFFICES ASSUME NEW d \in Discs
             PROVE  /\ \A c \in discCodes'[d] : rows'[c] # Absent
                    /\ ~reused' => {rows'[c].of : c \in discCodes'[d]} = meant[d]
    BY <1>2, <1>3 DEF DiscsKeepTheirRegions, Existing
<1>4. /\ \A c \in discCodes[d] : c \in Codes /\ rows[c] # Absent
      /\ ~reused => {rows[c].of : c \in discCodes[d]} = meant[d]
    BY <1>3 DEF TablesInv, DiscsKeepTheirRegions, Existing
\* A code that stays has its row.
<1>5. ASSUME NEW c \in discCodes[d], \A v \in form.moved : v[1] = d => v[2] # c
      PROVE  c \in discCodes'[d] /\ rows'[c] # Absent /\ rows'[c].of = rows[c].of
  <2>1. c \in discCodes'[d]
      BY <1>5, SavedCodes
  <2>2. \/ rows'[c] # Absent /\ rows'[c].of = rows[c].of
        \/ rows'[c] = Absent /\ c \in DOMAIN form.written
      BY <1>4, SavedRows
  <2>3. ASSUME rows'[c] = Absent, c \in DOMAIN form.written PROVE FALSE
    <3>1. form.written[c] = Absent /\ RowStands(form, c)
        BY <1>1, <2>3, SavedRows DEF FormStands, WrittenStands
    <3>2. \E v \in form.moved : v[1] = d /\ v[2] = c
        BY <3>1 DEF RowStands
    <3> QED BY <1>5, <3>2
  <2> QED BY <2>1, <2>2, <2>3
\* A code that is moved gives way to one of the same.
<1>6. ASSUME NEW v \in form.moved, v[1] = d
      PROVE  /\ v[2] \in discCodes[d] /\ v[3] \in discCodes'[d] /\ rows'[v[3]] # Absent
             /\ ~reused => rows'[v[3]].of = rows[v[2]].of
  <2>1. v[2] \in discCodes[d] /\ Renamed(form, v[2], v[3])
      BY <1>1, <1>6 DEF FormStands, MovedStands
  <2>2. v[3] \in discCodes'[d]
      BY <1>6, SavedCodes
  <2>3. rows'[v[3]] # Absent /\ rows'[v[3]].of = form.existing[v[2]].of
      BY <2>1, SavedRows DEF Renamed
  <2>4. ~reused => rows[v[2]].of = form.existing[v[2]].of
      BY <1>1, <1>4, <2>1 DEF FormStands, ExistingStands, Renamed
  <2> QED BY <2>1, <2>2, <2>3, <2>4
<1>7. ASSUME NEW c \in discCodes'[d]
      PROVE  \/ c \in discCodes[d] /\ \A v \in form.moved : v[1] = d => v[2] # c
             \/ \E v \in form.moved : v[1] = d /\ v[3] = c
    BY SavedCodes
<1>8. \A c \in discCodes'[d] : rows'[c] # Absent
    BY <1>5, <1>6, <1>7
<1>9. ASSUME ~reused' PROVE {rows'[c].of : c \in discCodes'[d]} = meant[d]
  <2>1. ~reused /\ {rows[c].of : c \in discCodes[d]} = meant[d]
      BY <1>4, <1>9, SavedRows
  <2>2. ASSUME NEW c \in discCodes'[d] PROVE rows'[c].of \in {rows[e].of : e \in discCodes[d]}
      BY <1>5, <1>6, <1>7, <2>1
  <2>3. ASSUME NEW c \in discCodes[d] PROVE rows[c].of \in {rows'[e].of : e \in discCodes'[d]}
    <3>1. CASE \A v \in form.moved : v[1] = d => v[2] # c
        BY <1>5, <3>1
    <3>2. CASE \E v \in form.moved : v[1] = d /\ v[2] = c
        BY <1>6, <2>1, <3>2
    <3> QED BY <3>1, <3>2
  <2> QED BY <2>1, <2>2, <2>3
<1> QED BY <1>8, <1>9

\* What the others are writing stands.
LEMMA OthersStand ==
    ASSUME TablesInv, NEW m \in Moderators, CommitSave(m), NEW n \in Moderators \ {m}, Writing(n)
    PROVE  FormStands(saving[n])'
<1> DEFINE form == saving[n]
<1>1. FormStands(form) /\ rows \in [Codes -> AnyRow] /\ discCodes \in [Discs -> SUBSET Codes]
    BY DEF TablesInv, TableTypes
<1>2. saving'[n] = form /\ approving' = approving
    BY FormIsGone DEF CommitSave
<1>3. /\ DOMAIN form.written \cap DOMAIN saving[m].written = {}
      /\ \A v \in form.moved, w \in saving[m].moved : v[1] # w[1] \/ v[2] # w[2]
    BY DEF TablesInv, LocksStand
<1>4. FormStands(saving[m])
    BY DEF CommitSave, TablesInv, Writing
<1> HIDE DEF form
<1>5. WrittenStands(saving[n])'
  <2> SUFFICES ASSUME NEW c \in DOMAIN form.written PROVE RowStands(saving[n], c)'
      BY <1>2 DEF WrittenStands
  <2>1. RowStands(form, c)
      BY <1>1 DEF FormStands, WrittenStands
  <2>2. c \notin DOMAIN saving[m].written /\ c \in Codes
      BY <1>3, <2>1 DEF RowStands
  <2>3. rows'[c] = rows[c]
      BY <2>2, SavedRows
  <2>4. \A d \in Discs : c \in discCodes'[d] => c \in discCodes[d]
    <3>1. \A v \in saving[m].moved : v[3] \in DOMAIN saving[m].written
        BY <1>4 DEF FormStands, MovedStands, Renamed
    <3> QED BY <2>2, <3>1, SavedCodes
  <2> QED BY <1>2, <2>1, <2>3, <2>4 DEF RowStands
<1>6. MovedStands(saving[n])'
  <2>1. ASSUME NEW v \in form.moved PROVE v[2] \in discCodes'[v[1]]
    <3>1. v[1] \in Discs /\ v[2] \in discCodes[v[1]]
        BY <1>1 DEF FormStands, MovedStands
    <3>2. \A w \in saving[m].moved : w[1] = v[1] => w[2] # v[2]
        BY <1>3
    <3> QED BY <3>1, <3>2, SavedCodes
  <2> QED BY <1>1, <1>2, <2>1 DEF FormStands, MovedStands, Renamed
<1>7. ExistingStands(saving[n])'
  <2> SUFFICES ASSUME NEW c \in Codes, form.existing[c] # Absent
               PROVE  \/ reused'
                      \/ rows'[c] # Absent /\ rows'[c].of = form.existing[c].of
                      \/ rows'[c] = Absent /\ c \in freed'
      BY <1>2 DEF ExistingStands
  <2>1. CASE reused
      BY <2>1, SavedRows
  <2>2. CASE rows[c] # Absent /\ rows[c].of = form.existing[c].of
      BY <2>2, SavedRows
  <2>3. CASE rows[c] = Absent /\ c \in freed
      BY <2>3, SavedRows
  <2> QED BY <1>1, <2>1, <2>2, <2>3 DEF FormStands, ExistingStands
<1>8. PageStands(saving[n])' /\ HeadStands(saving[n])'
    BY <1>1, <1>2 DEF FormStands, PageStands, HeadStands, Renamed
<1> QED BY <1>5, <1>6, <1>7, <1>8 DEF FormStands

LEMMA CommitSaveKeepsTables ==
    ASSUME TablesInv, NEW m \in Moderators, CommitSave(m) PROVE TablesInv'
<1>1. Abort(m) /\ UNCHANGED <<approving, meant, saves>>
    BY DEF CommitSave
<1>2. TableTypes'
    BY <1>1, SavedRows, SavedCodes DEF TablesInv, TableTypes
<1>3. ApprovingTypes'
  <2>1. CASE approving = NotApproving
      BY <1>1, <2>1 DEF ApprovingTypes
  <2>2. CASE approving # NotApproving
    <3>1. approving.at = "written" /\ approving.disc \in Discs /\ approving.codes \subseteq Existing(rows)
        BY <2>2 DEF TablesInv, ApprovingTypes
    <3>2. ASSUME NEW c \in approving.codes PROVE c \in Existing(rows')
      <4>1. c \in Codes /\ rows[c] # Absent
          BY <3>1 DEF Existing, TablesInv, TableTypes
      <4>2. WrittenStands(saving[m])
          BY DEF CommitSave, TablesInv, Writing, FormStands
      <4>3. c \in DOMAIN saving[m].written => saving[m].written[c] # Absent
          BY <4>2 DEF WrittenStands, RowStands
      <4>4. rows'[c] # Absent
          BY <4>1, <4>3, SavedRows
      <4> QED BY <4>1, <4>4, SavedRows DEF Existing
    <3> QED BY <1>1, <3>1, <3>2 DEF ApprovingTypes
  <2> QED BY <2>1, <2>2
<1>4. FormTypes' /\ LocksStand' /\ DiscsKeepTheirRegions'
    BY <1>1, FormIsGone, SavedDiscs
<1>5. ASSUME NEW n \in Moderators, Writing(n)' PROVE FormStands(saving[n])'
  <2>1. n # m /\ Writing(n)
      BY <1>1, <1>5, FormIsGone, NoFormShape DEF Writing
  <2> QED BY <2>1, OthersStand
<1> QED BY <1>2, <1>3, <1>4, <1>5 DEF TablesInv

\* No form changes.
LEMMA SameForms ==
    ASSUME TablesInv, UNCHANGED saving
    PROVE  FormTypes' /\ LocksStand' /\ \A m \in Moderators : Writing(m)' => FormStands(saving[m])
<1>1. FormTypes /\ LocksStand
    BY DEF TablesInv
<1>2. FormTypes'
    BY <1>1 DEF FormTypes, FormShape, Writing
<1>3. LocksStand'
    BY <1>1 DEF LocksStand
<1>4. \A m \in Moderators : Writing(m)' => Writing(m)
    BY DEF Writing
<1>5. \A m \in Moderators : Writing(m) => FormStands(saving[m])
    BY DEF TablesInv
<1> QED BY <1>2, <1>3, <1>4, <1>5

LEMMA ApproveKeepsTables ==
    ASSUME TablesInv, NEW d \in Discs, NEW codes \in SUBSET Codes, ApproveCodes(d, codes) PROVE TablesInv'
<1>1. /\ UNCHANGED <<rows, discCodes, saving, meant, freed, reused, saves>>
      /\ approving'.at = "written" /\ approving'.disc = d /\ approving'.codes = codes
      /\ codes \subseteq Existing(rows)
      /\ \A m \in Moderators : /\ \A v \in saving[m].moved : v[1] # d
                               /\ \A c \in codes \cap DOMAIN saving[m].written : saving[m].written[c] # Absent
    BY DEF ApproveCodes
<1>2. (TableTypes /\ ApprovingTypes /\ DiscsKeepTheirRegions)'
    BY <1>1 DEF TablesInv, TableTypes, ApprovingTypes, DiscsKeepTheirRegions
<1>3. FormTypes' /\ LocksStand'
    BY <1>1, SameForms
<1>4. ASSUME NEW m \in Moderators, Writing(m)' PROVE FormStands(saving[m])'
  <2>1. FormStands(saving[m])
      BY <1>1, <1>4, SameForms, Zenon
  <2>2. (PageStands(saving[m]) /\ HeadStands(saving[m]) /\ ExistingStands(saving[m]))'
      BY <1>1, <2>1 DEF FormStands, PageStands, HeadStands, ExistingStands, Renamed
  <2>3. WrittenStands(saving[m])'
    <3> SUFFICES ASSUME NEW c \in DOMAIN saving[m].written PROVE RowStands(saving[m], c)'
        BY <1>1 DEF WrittenStands
    <3>1. RowStands(saving[m], c)
        BY <2>1 DEF FormStands, WrittenStands
    <3> QED BY <1>1, <3>1 DEF RowStands
  <2>4. MovedStands(saving[m])'
      BY <1>1, <2>1 DEF FormStands, MovedStands, Renamed
  <2> QED BY <2>2, <2>3, <2>4 DEF FormStands
<1> QED BY <1>2, <1>3, <1>4 DEF TablesInv

LEMMA CommitCodesKeepsTables ==
    ASSUME TablesInv, CommitCodes PROVE TablesInv'
<1> DEFINE d == approving.disc
           codes == approving.codes
<1>1. /\ d \in Discs /\ codes \subseteq Existing(rows)
      /\ rows \in [Codes -> AnyRow] /\ discCodes \in [Discs -> SUBSET Codes] /\ DOMAIN meant = Discs
    BY DEF CommitCodes, NotApproving, TablesInv, TableTypes, ApprovingTypes
<1>2. /\ UNCHANGED <<rows, saving, freed, reused, saves>>
      /\ approving' = NotApproving /\ discCodes' = [discCodes EXCEPT ![d] = codes]
      /\ meant' = [meant EXCEPT ![d] = {rows[c].of : c \in codes}]
    BY DEF CommitCodes
<1>3. /\ discCodes'[d] = codes /\ \A e \in Discs \ {d} : discCodes'[e] = discCodes[e]
      /\ meant'[d] = {rows[c].of : c \in codes} /\ \A e \in Discs \ {d} : meant'[e] = meant[e]
      /\ DOMAIN meant' = Discs
    BY <1>1, <1>2
<1>4. codes \subseteq Codes /\ discCodes' \in [Discs -> SUBSET Codes]
    BY <1>1, <1>2 DEF Existing
<1>5. approving'.codes = {} /\ approving'.disc = Absent /\ Absent \notin Discs
    BY <1>2, CodesAndRows DEF NotApproving
<1>6. (TableTypes /\ ApprovingTypes)'
    BY <1>2, <1>3, <1>4 DEF TablesInv, TableTypes, ApprovingTypes
<1>7. FormTypes' /\ LocksStand'
    BY <1>2, SameForms
<1> HIDE DEF d, codes
<1>8. DiscsKeepTheirRegions'
  <2> SUFFICES ASSUME NEW e \in Discs
               PROVE  /\ discCodes'[e] \subseteq Existing(rows)
                      /\ ~reused => {rows[c].of : c \in discCodes'[e]} = meant'[e]
      BY <1>2 DEF DiscsKeepTheirRegions, Existing
  <2>1. CASE e = d
      BY <1>1, <1>3, <2>1
  <2>2. CASE e # d
      BY <1>3, <2>2 DEF TablesInv, DiscsKeepTheirRegions
  <2> QED BY <2>1, <2>2
<1>9. ASSUME NEW m \in Moderators, Writing(m)' PROVE FormStands(saving[m])'
  <2>1. FormStands(saving[m])
      BY <1>2, <1>9, SameForms, Zenon
  <2>2. (PageStands(saving[m]) /\ HeadStands(saving[m]) /\ ExistingStands(saving[m]))'
      BY <1>2, <2>1 DEF FormStands, PageStands, HeadStands, ExistingStands, Renamed
  <2>3. WrittenStands(saving[m])'
    <3> SUFFICES ASSUME NEW c \in DOMAIN saving[m].written PROVE RowStands(saving[m], c)'
        BY <1>2 DEF WrittenStands
    <3>1. RowStands(saving[m], c)
        BY <2>1 DEF FormStands, WrittenStands
    <3>2. saving[m].written[c] = Absent => \A e \in Discs : c \in discCodes'[e] => c \in discCodes[e]
        BY <1>3, <3>1 DEF RowStands, codes
    <3> QED BY <1>2, <1>5, <3>1, <3>2 DEF RowStands
  <2>4. MovedStands(saving[m])'
    <3>1. ASSUME NEW v \in saving[m].moved
          PROVE  /\ v[1] \in Discs /\ v[2] \in discCodes'[v[1]] /\ v[1] # approving'.disc
                 /\ Renamed(saving[m], v[2], v[3])
        BY <1>3, <1>5, <2>1 DEF FormStands, MovedStands, d
    <3> QED BY <1>2, <3>1 DEF MovedStands, Renamed
  <2> QED BY <2>2, <2>3, <2>4 DEF FormStands
<1> QED BY <1>6, <1>7, <1>8, <1>9 DEF TablesInv

LEMMA TablesStep == TablesInv /\ [TablesNext]_tableVars => TablesInv'
<1> SUFFICES ASSUME TablesInv, [TablesNext]_tableVars PROVE TablesInv'
    OBVIOUS
<1>1. ASSUME NEW m \in Moderators, ShowTable(m) PROVE TablesInv'
    BY <1>1, ShowKeepsTables
<1>2. ASSUME NEW m \in Moderators, NEW edit \in Edits, PostTable(m, edit) PROVE TablesInv'
    BY <1>2, PostKeepsTables
<1>3. ASSUME NEW m \in Moderators, WriteRow(m) PROVE TablesInv'
    BY <1>3, WriteKeepsTables
<1>4. ASSUME NEW m \in Moderators, MoveDiscs(m) PROVE TablesInv'
    BY <1>4, MoveKeepsTables
<1>5. ASSUME NEW m \in Moderators, DeleteOld(m) PROVE TablesInv'
    BY <1>5, DeleteKeepsTables
<1>6. ASSUME NEW m \in Moderators, CommitSave(m) PROVE TablesInv'
    BY <1>6, CommitSaveKeepsTables
<1>7. ASSUME NEW m \in Moderators, FailSave(m) PROVE TablesInv'
    BY <1>7, AbortKeepsTables DEF FailSave, TablesInv, TableTypes
<1>8. ASSUME NEW d \in Discs, NEW codes \in SUBSET Codes, ApproveCodes(d, codes) PROVE TablesInv'
    BY <1>8, ApproveKeepsTables
<1>9. ASSUME CommitCodes PROVE TablesInv'
    BY <1>9, CommitCodesKeepsTables
<1>10. CASE UNCHANGED tableVars
  <2>1. UNCHANGED <<rows, discCodes, saving, approving, meant, freed, reused, saves>>
      BY <1>10 DEF tableVars
  <2>2. (TableTypes /\ ApprovingTypes /\ DiscsKeepTheirRegions)'
      BY <2>1 DEF TablesInv, TableTypes, ApprovingTypes, DiscsKeepTheirRegions
  <2>3. FormTypes' /\ LocksStand'
      BY <2>1, SameForms, Zenon
  <2>4. ASSUME NEW m \in Moderators, Writing(m)' PROVE FormStands(saving[m])'
    <3>1. FormStands(saving[m])
        BY <2>1, <2>4, SameForms
    <3> QED BY <2>1, <3>1
          DEF FormStands, PageStands, HeadStands, ExistingStands, WrittenStands, RowStands, MovedStands, Renamed
  <2> QED BY <2>2, <2>3, <2>4 DEF TablesInv
<1> QED BY <1>1, <1>2, <1>3, <1>4, <1>5, <1>6, <1>7, <1>8, <1>9, <1>10 DEF TablesNext

\* The types of the tables; every form that is written was valid when it was
\* posted, and what it has written, renamed and moved stands, whoever else
\* saves or approves meanwhile.
THEOREM TablesInvariance == TablesSpec => []TablesInv
<1>1. TablesInit => TablesInv
    BY TablesStart
<1>2. TablesInv /\ [TablesNext]_tableVars => TablesInv'
    BY TablesStep
<1> QED BY <1>1, <1>2, PTL DEF TablesSpec

\* Whoever saves systems, regions or languages (save_systems,
\* save_lookup_table) while others save them and submissions are approved, the
\* codes of a disc exist and stand for what they stood for when the disc was
\* written, as long as no code is given to something else.
THEOREM DiscsKeepRegions == TablesSpec => []DiscsKeepTheirRegions
<1>1. TablesInv => DiscsKeepTheirRegions
    BY DEF TablesInv
<1> QED BY <1>1, TablesInvariance, PTL

-----------------------------------------------------------------------------
(* The worker.                                                             *)

\* A step of the worker or around it, by action.
LEMMA StepCases ==
    ASSUME Next
    PROVE  \/ \E s \in Systems : MarkedChange(s) /\ UNCHANGED exportVars
           \/ \E s \in Systems : UnmarkedChange(s) /\ UNCHANGED exportVars
           \/ \E s \in Systems : BeginSystem(s) /\ UNCHANGED exportVars
           \/ ClaimDirtySystems /\ UNCHANGED exportVars
           \/ NoSystemLeft /\ UNCHANGED exportVars
           \/ ReadDiscs /\ UNCHANGED exportVars
           \/ ReadFiles /\ UNCHANGED exportVars
           \/ PublishArchive /\ UNCHANGED exportVars
           \/ NextKind /\ UNCHANGED exportVars
           \/ FinishSystem /\ UNCHANGED exportVars
           \/ MarkAgain /\ UNCHANGED exportVars
           \/ ClaimFails /\ UNCHANGED exportVars
           \/ ReadFilesInPart /\ UNCHANGED exportVars
           \/ MediaTypesUnread /\ UNCHANGED exportVars
           \/ RegenerationFails /\ UNCHANGED exportVars
           \/ MarkAgainFails /\ UNCHANGED exportVars
           \/ Tick \/ SkipExport \/ BeginExport \/ TakeSnapshot \/ ExportFails
           \/ PublishExport \/ RemoveMarker
           \/ LeaveMarker \/ MarkAllSystems \/ MarkingFails \/ PassTime \/ Crash
BY DEF Next, Worker, Environment, Regenerate, RegenerateBadly

LEMMA Basics ==
    /\ NoJob \in Jobs
    /\ NoExport \in Exports
    /\ None \notin Nat
    /\ None \notin Archives
    /\ None \notin Exports
    /\ \A s \in Systems : Supported[s] \subseteq Kinds /\ "dat" \in Supported[s]
<1>1. NoJob \in Jobs
  BY DEF NoJob, Jobs, Kinds
<1>2. NoExport \in Exports
  BY DEF NoExport, Exports
<1>. QED  BY <1>1, <1>2, ArchivesAssumption, WorkerAssumption

LEMMA InitInv == Init => WorkerInv
<1>. SUFFICES ASSUME Init PROVE WorkerInv
  OBVIOUS
<1>. USE DEF Init, ArchivesInit
<1>1. TypeOK
  BY Basics DEF TypeOK, ArchivesTypeOK, ExportTypeOK, Locations, Kinds
<1>2. ControlInv
  BY DEF ControlInv, Working
<1>3. ReadInv
  BY DEF ReadInv
<1>4. FreshInv
  BY DEF FreshInv, StaleIsMarked, Working
<1>5. VersionInv
  BY DEF VersionInv, VersionShownIsServed, Working
<1>6. ExportInv
  BY DEF ExportInv
<1>. QED  BY <1>1, <1>2, <1>3, <1>4, <1>5, <1>6 DEF WorkerInv

-----------------------------------------------------------------------------

\* The system being worked on is one of the claimed ones.
LEMMA Current ==
    ASSUME ArchivesTypeOK, ControlInv, worker \in Working
    PROVE  /\ job.system \in Systems
           /\ job.ts \in Nat /\ job.list \in Nat /\ job.detail \in Nat
           /\ job.kinds \subseteq Kinds
           /\ Kind \in Kinds
BY DEF ArchivesTypeOK, ControlInv, Jobs, Kind, Kinds

LEMMA JobUpdates ==
    ASSUME job \in Jobs, NEW n \in Nat, NEW K \in SUBSET Kinds
    PROVE  /\ [job EXCEPT !.list = n] \in Jobs
           /\ [job EXCEPT !.detail = n] \in Jobs
           /\ [job EXCEPT !.kinds = K] \in Jobs
BY DEF Jobs

LEMMA JobStarts ==
    ASSUME NEW s \in Systems, NEW t \in Nat, NEW K \in SUBSET Kinds
    PROVE  [NoJob EXCEPT !.system = s, !.ts = t, !.kinds = K] \in Jobs
BY DEF NoJob, Jobs

LEMMA NewArchiveType ==
    ASSUME ArchivesTypeOK, ControlInv, worker \in Working
    PROVE  NewArchive \in Archives
BY Current DEF NewArchive, Archives

\* Changes to the data are counted upwards.
LEMMA ContentGrows ==
    ASSUME ArchivesTypeOK, NEW s \in Systems, content' = [content EXCEPT ![s] = @ + 1]
    PROVE  \A t \in Systems : content'[t] \in Nat /\ content[t] <= content'[t]
BY DEF ArchivesTypeOK

\* What is served and what is being made has numbers one can compare.
LEMMA Numbers ==
    ASSUME ArchivesTypeOK
    PROVE  /\ \A s \in Systems : content[s] \in Nat
           /\ \A s \in Systems, k \in Kinds : served[s][k] # None =>
                 served[s][k].list \in Nat /\ served[s][k].detail \in Nat
           /\ job.list \in Nat /\ job.detail \in Nat
BY DEF ArchivesTypeOK, Archives, Jobs

\* Each action keeps the types of the archives' variables.
LEMMA StepArchivesType ==
    ASSUME WorkerInv, Next
    PROVE  ArchivesTypeOK'
<1>. USE Basics DEF WorkerInv, TypeOK, ArchivesTypeOK, Locations, exportVars, exportData, exportHistory, archiveVars, archiveData, archiveJob, WorkerOnly, SnapshotIsRead
<1>1. ASSUME NEW s \in Systems, MarkedChange(s) /\ UNCHANGED exportVars
      PROVE  ArchivesTypeOK'
  BY <1>1 DEF MarkedChange
<1>2. ASSUME NEW s \in Systems, UnmarkedChange(s) /\ UNCHANGED exportVars
      PROVE  ArchivesTypeOK'
  BY <1>2 DEF UnmarkedChange
<1>3. ASSUME NEW s \in Systems, BeginSystem(s) /\ UNCHANGED exportVars
      PROVE  ArchivesTypeOK'
  <2>1. clock' \in Nat
    BY <1>3 DEF BeginSystem
  <2>2. job' \in Jobs
    BY <1>3, <2>1, JobStarts DEF BeginSystem
  <2>. QED  BY <1>3, <2>1, <2>2 DEF BeginSystem
<1>4. CASE ClaimDirtySystems /\ UNCHANGED exportVars
  BY <1>4 DEF ClaimDirtySystems
<1>5. CASE NoSystemLeft /\ UNCHANGED exportVars
  BY <1>5 DEF NoSystemLeft
<1>6. CASE ReadDiscs /\ UNCHANGED exportVars
  BY <1>6, Current, JobUpdates DEF ReadDiscs, Working
<1>7. CASE ReadFiles /\ UNCHANGED exportVars
  BY <1>7, Current, JobUpdates DEF ReadFiles, Working
<1>8. CASE PublishArchive /\ UNCHANGED exportVars
  BY <1>8, Current, NewArchiveType DEF PublishArchive, Working
<1>9. CASE NextKind /\ UNCHANGED exportVars
  BY <1>9, Current, JobUpdates DEF NextKind, Working
<1>10. CASE FinishSystem /\ UNCHANGED exportVars
  BY <1>10, Current DEF FinishSystem, Working
<1>11. CASE MarkAgain /\ UNCHANGED exportVars
  BY <1>11, Current DEF MarkAgain, Working
<1>12. CASE ClaimFails /\ UNCHANGED exportVars
  BY <1>12 DEF ClaimFails
<1>13. CASE ReadFilesInPart /\ UNCHANGED exportVars
  <2>1. job' \in Jobs
    BY <1>13, Current, JobUpdates DEF ReadFilesInPart, Working
  <2>2. forgotten' \subseteq Systems
    BY <1>13, Current DEF ReadFilesInPart, Working
  <2>. QED  BY <1>13, <2>1, <2>2 DEF ReadFilesInPart
<1>14. CASE MediaTypesUnread /\ UNCHANGED exportVars
  <2>1. job' \in Jobs
    BY <1>14, Current, JobUpdates DEF MediaTypesUnread, Working
  <2>2. forgotten' \subseteq Systems
    BY <1>14, Current DEF MediaTypesUnread, Working
  <2>. QED  BY <1>14, <2>1, <2>2 DEF MediaTypesUnread
<1>15. CASE RegenerationFails /\ UNCHANGED exportVars
  BY <1>15, Current DEF RegenerationFails, Working
<1>16. CASE MarkAgainFails /\ UNCHANGED exportVars
  BY <1>16, Current DEF MarkAgainFails, Working
<1>17. CASE Tick
  BY <1>17 DEF Tick
<1>18. CASE SkipExport
  BY <1>18 DEF SkipExport
<1>19. CASE BeginExport
  BY <1>19 DEF BeginExport
<1>20. CASE TakeSnapshot
  BY <1>20 DEF TakeSnapshot
<1>21. CASE ExportFails
  BY <1>21 DEF ExportFails
<1>22. CASE PublishExport
  BY <1>22 DEF PublishExport
<1>23. CASE RemoveMarker
  BY <1>23 DEF RemoveMarker
<1>24. CASE LeaveMarker
  BY <1>24 DEF LeaveMarker
<1>25. CASE MarkAllSystems
  BY <1>25 DEF MarkAllSystems
<1>26. CASE MarkingFails
  BY <1>26 DEF MarkingFails
<1>27. CASE PassTime
  BY <1>27 DEF PassTime
<1>28. CASE Crash
  <2>1. \A s \in Systems : VersionOnDisk(s) \in Nat \cup {None}
    BY DEF VersionOnDisk, Archives, Kinds
  <2>. QED  BY <1>28, <2>1 DEF Crash, RestartArchives
<1>. QED  BY StepCases, <1>1, <1>2, <1>3, <1>4, <1>5, <1>6, <1>7, <1>8, <1>9, <1>10, <1>11, <1>12, <1>13, <1>14, <1>15, <1>16, <1>17, <1>18, <1>19, <1>20, <1>21, <1>22, <1>23, <1>24, <1>25, <1>26, <1>27, <1>28

\* Each action keeps the types of the export's variables.
LEMMA StepExportType ==
    ASSUME WorkerInv, Next
    PROVE  ExportTypeOK'
<1>. USE Basics DEF WorkerInv, TypeOK, ArchivesTypeOK, ExportTypeOK, Locations, exportVars, exportData, exportHistory, archiveVars, archiveData, archiveJob, WorkerOnly, SnapshotIsRead
<1>1. ASSUME NEW s \in Systems, MarkedChange(s) /\ UNCHANGED exportVars
      PROVE  ExportTypeOK'
  BY <1>1 DEF MarkedChange
<1>2. ASSUME NEW s \in Systems, UnmarkedChange(s) /\ UNCHANGED exportVars
      PROVE  ExportTypeOK'
  BY <1>2 DEF UnmarkedChange
<1>3. ASSUME NEW s \in Systems, BeginSystem(s) /\ UNCHANGED exportVars
      PROVE  ExportTypeOK'
  BY <1>3 DEF BeginSystem
<1>4. CASE ClaimDirtySystems /\ UNCHANGED exportVars
  BY <1>4 DEF ClaimDirtySystems
<1>5. CASE NoSystemLeft /\ UNCHANGED exportVars
  BY <1>5 DEF NoSystemLeft
<1>6. CASE ReadDiscs /\ UNCHANGED exportVars
  BY <1>6 DEF ReadDiscs
<1>7. CASE ReadFiles /\ UNCHANGED exportVars
  BY <1>7 DEF ReadFiles
<1>8. CASE PublishArchive /\ UNCHANGED exportVars
  BY <1>8 DEF PublishArchive
<1>9. CASE NextKind /\ UNCHANGED exportVars
  BY <1>9 DEF NextKind
<1>10. CASE FinishSystem /\ UNCHANGED exportVars
  BY <1>10 DEF FinishSystem
<1>11. CASE MarkAgain /\ UNCHANGED exportVars
  BY <1>11 DEF MarkAgain
<1>12. CASE ClaimFails /\ UNCHANGED exportVars
  BY <1>12 DEF ClaimFails
<1>13. CASE ReadFilesInPart /\ UNCHANGED exportVars
  BY <1>13 DEF ReadFilesInPart
<1>14. CASE MediaTypesUnread /\ UNCHANGED exportVars
  BY <1>14 DEF MediaTypesUnread
<1>15. CASE RegenerationFails /\ UNCHANGED exportVars
  BY <1>15 DEF RegenerationFails
<1>16. CASE MarkAgainFails /\ UNCHANGED exportVars
  BY <1>16 DEF MarkAgainFails
<1>17. CASE Tick
  BY <1>17 DEF Tick
<1>18. CASE SkipExport
  BY <1>18 DEF SkipExport
<1>19. CASE BeginExport
  BY <1>19 DEF BeginExport, Exports
<1>20. CASE TakeSnapshot
  BY <1>20 DEF TakeSnapshot, Exports
<1>21. CASE ExportFails
  BY <1>21 DEF ExportFails
<1>22. CASE PublishExport
  BY <1>22 DEF PublishExport
<1>23. CASE RemoveMarker
  BY <1>23 DEF RemoveMarker
<1>24. CASE LeaveMarker
  BY <1>24 DEF LeaveMarker
<1>25. CASE MarkAllSystems
  BY <1>25 DEF MarkAllSystems
<1>26. CASE MarkingFails
  BY <1>26 DEF MarkingFails
<1>27. CASE PassTime
  BY <1>27 DEF PassTime
<1>28. CASE Crash
  <2>1. making' \in Exports
    BY <1>28 DEF Crash
  <2>2. crashes' \in Nat
    BY <1>28 DEF Crash
  <2>3. triggering' \in BOOLEAN
    BY <1>28 DEF Crash
  <2>. QED  BY <1>28, <2>1, <2>2, <2>3 DEF Crash
<1>. QED  BY StepCases, <1>1, <1>2, <1>3, <1>4, <1>5, <1>6, <1>7, <1>8, <1>9, <1>10, <1>11, <1>12, <1>13, <1>14, <1>15, <1>16, <1>17, <1>18, <1>19, <1>20, <1>21, <1>22, <1>23, <1>24, <1>25, <1>26, <1>27, <1>28

-----------------------------------------------------------------------------

\* Each action keeps the claims and the kinds still to make.
LEMMA StepControl ==
    ASSUME WorkerInv, Next
    PROVE  ControlInv'
<1>. USE Basics DEF WorkerInv, TypeOK, ArchivesTypeOK, exportVars, exportData, exportHistory, archiveVars, archiveData, archiveJob, WorkerOnly, SnapshotIsRead, Working, ControlInv
<1>1. ASSUME NEW s \in Systems, MarkedChange(s) /\ UNCHANGED exportVars
      PROVE  ControlInv'
  BY <1>1 DEF MarkedChange
<1>2. ASSUME NEW s \in Systems, UnmarkedChange(s) /\ UNCHANGED exportVars
      PROVE  ControlInv'
  BY <1>2 DEF UnmarkedChange
<1>3. ASSUME NEW s \in Systems, BeginSystem(s) /\ UNCHANGED exportVars
      PROVE  ControlInv'
  BY <1>3 DEF BeginSystem, NoJob
<1>4. CASE ClaimDirtySystems /\ UNCHANGED exportVars
  BY <1>4 DEF ClaimDirtySystems
<1>5. CASE NoSystemLeft /\ UNCHANGED exportVars
  BY <1>5 DEF NoSystemLeft
<1>6. CASE ReadDiscs /\ UNCHANGED exportVars
  BY <1>6 DEF ReadDiscs, Jobs
<1>7. CASE ReadFiles /\ UNCHANGED exportVars
  BY <1>7 DEF ReadFiles, Jobs
<1>8. CASE PublishArchive /\ UNCHANGED exportVars
  BY <1>8 DEF PublishArchive
<1>9. CASE NextKind /\ UNCHANGED exportVars
  BY <1>9 DEF NextKind, Jobs, Kind, Kinds
<1>10. CASE FinishSystem /\ UNCHANGED exportVars
  BY <1>10 DEF FinishSystem
<1>11. CASE MarkAgain /\ UNCHANGED exportVars
  BY <1>11 DEF MarkAgain
<1>12. CASE ClaimFails /\ UNCHANGED exportVars
  BY <1>12 DEF ClaimFails
<1>13. CASE ReadFilesInPart /\ UNCHANGED exportVars
  BY <1>13 DEF ReadFilesInPart, Jobs
<1>14. CASE MediaTypesUnread /\ UNCHANGED exportVars
  BY <1>14 DEF MediaTypesUnread, Jobs
<1>15. CASE RegenerationFails /\ UNCHANGED exportVars
  BY <1>15 DEF RegenerationFails
<1>16. CASE MarkAgainFails /\ UNCHANGED exportVars
  BY <1>16 DEF MarkAgainFails
<1>17. CASE Tick
  BY <1>17 DEF Tick
<1>18. CASE SkipExport
  BY <1>18 DEF SkipExport
<1>19. CASE BeginExport
  BY <1>19 DEF BeginExport
<1>20. CASE TakeSnapshot
  BY <1>20 DEF TakeSnapshot
<1>21. CASE ExportFails
  BY <1>21 DEF ExportFails
<1>22. CASE PublishExport
  BY <1>22 DEF PublishExport
<1>23. CASE RemoveMarker
  BY <1>23 DEF RemoveMarker
<1>24. CASE LeaveMarker
  BY <1>24 DEF LeaveMarker
<1>25. CASE MarkAllSystems
  BY <1>25 DEF MarkAllSystems
<1>26. CASE MarkingFails
  BY <1>26 DEF MarkingFails
<1>27. CASE PassTime
  BY <1>27 DEF PassTime
<1>28. CASE Crash
  BY <1>28 DEF Crash, RestartArchives
<1>. QED  BY StepCases, <1>1, <1>2, <1>3, <1>4, <1>5, <1>6, <1>7, <1>8, <1>9, <1>10, <1>11, <1>12, <1>13, <1>14, <1>15, <1>16, <1>17, <1>18, <1>19, <1>20, <1>21, <1>22, <1>23, <1>24, <1>25, <1>26, <1>27, <1>28

\* Each action keeps the order of what was read and what is served.
LEMMA StepRead ==
    ASSUME WorkerInv, Next
    PROVE  ReadInv'
<1>. USE Basics DEF WorkerInv, TypeOK, ArchivesTypeOK, exportVars, exportData, exportHistory, archiveVars, archiveData, archiveJob, WorkerOnly, SnapshotIsRead, Working, ReadInv, ControlInv
<1>1. ASSUME NEW s \in Systems, MarkedChange(s) /\ UNCHANGED exportVars
      PROVE  ReadInv'
  <2>1. \A t \in Systems : content'[t] \in Nat /\ content[t] <= content'[t]
    BY <1>1, ContentGrows DEF MarkedChange
  <2>2. worker \in Working => job.system \in Systems
    BY Current
  <2>. QED  BY <1>1, <2>1, <2>2, Numbers DEF MarkedChange
<1>2. ASSUME NEW s \in Systems, UnmarkedChange(s) /\ UNCHANGED exportVars
      PROVE  ReadInv'
  <2>1. \A t \in Systems : content'[t] \in Nat /\ content[t] <= content'[t]
    BY <1>2, ContentGrows DEF UnmarkedChange
  <2>2. worker \in Working => job.system \in Systems
    BY Current
  <2>. QED  BY <1>2, <2>1, <2>2, Numbers DEF UnmarkedChange
<1>3. ASSUME NEW s \in Systems, BeginSystem(s) /\ UNCHANGED exportVars
      PROVE  ReadInv'
  BY <1>3 DEF BeginSystem, NoJob
<1>4. CASE ClaimDirtySystems /\ UNCHANGED exportVars
  BY <1>4 DEF ClaimDirtySystems
<1>5. CASE NoSystemLeft /\ UNCHANGED exportVars
  BY <1>5 DEF NoSystemLeft
<1>6. CASE ReadDiscs /\ UNCHANGED exportVars
  BY <1>6, Current DEF ReadDiscs, Jobs
<1>7. CASE ReadFiles /\ UNCHANGED exportVars
  BY <1>7, Current DEF ReadFiles, Jobs
<1>8. CASE PublishArchive /\ UNCHANGED exportVars
  BY <1>8, Current DEF PublishArchive, NewArchive, Jobs, Archives
<1>9. CASE NextKind /\ UNCHANGED exportVars
  BY <1>9, Current DEF NextKind, Jobs
<1>10. CASE FinishSystem /\ UNCHANGED exportVars
  BY <1>10 DEF FinishSystem
<1>11. CASE MarkAgain /\ UNCHANGED exportVars
  BY <1>11 DEF MarkAgain
<1>12. CASE ClaimFails /\ UNCHANGED exportVars
  BY <1>12 DEF ClaimFails
<1>13. CASE ReadFilesInPart /\ UNCHANGED exportVars
  BY <1>13, Current DEF ReadFilesInPart, Jobs
<1>14. CASE MediaTypesUnread /\ UNCHANGED exportVars
  BY <1>14, Current DEF MediaTypesUnread, Jobs
<1>15. CASE RegenerationFails /\ UNCHANGED exportVars
  BY <1>15, Current DEF RegenerationFails, Jobs
<1>16. CASE MarkAgainFails /\ UNCHANGED exportVars
  BY <1>16 DEF MarkAgainFails
<1>17. CASE Tick
  BY <1>17 DEF Tick
<1>18. CASE SkipExport
  BY <1>18 DEF SkipExport
<1>19. CASE BeginExport
  BY <1>19 DEF BeginExport
<1>20. CASE TakeSnapshot
  BY <1>20 DEF TakeSnapshot
<1>21. CASE ExportFails
  BY <1>21 DEF ExportFails
<1>22. CASE PublishExport
  BY <1>22 DEF PublishExport
<1>23. CASE RemoveMarker
  BY <1>23 DEF RemoveMarker
<1>24. CASE LeaveMarker
  BY <1>24 DEF LeaveMarker
<1>25. CASE MarkAllSystems
  BY <1>25 DEF MarkAllSystems
<1>26. CASE MarkingFails
  BY <1>26 DEF MarkingFails
<1>27. CASE PassTime
  BY <1>27 DEF PassTime
<1>28. CASE Crash
  BY <1>28 DEF Crash, RestartArchives
<1>. QED  BY StepCases, <1>1, <1>2, <1>3, <1>4, <1>5, <1>6, <1>7, <1>8, <1>9, <1>10, <1>11, <1>12, <1>13, <1>14, <1>15, <1>16, <1>17, <1>18, <1>19, <1>20, <1>21, <1>22, <1>23, <1>24, <1>25, <1>26, <1>27, <1>28

\* Each action keeps the freshness of what the worker has made so far.
LEMMA StepFresh ==
    ASSUME WorkerInv, Next
    PROVE  FreshInv'
<1>. USE Basics DEF WorkerInv, TypeOK, ArchivesTypeOK, exportVars, exportData, exportHistory, archiveVars, archiveData, archiveJob, WorkerOnly, SnapshotIsRead, Working, FreshInv, StaleIsMarked, Fresh, IsFresh, ControlInv, Kind
<1>1. ASSUME NEW s \in Systems, MarkedChange(s) /\ UNCHANGED exportVars
      PROVE  FreshInv'
  <2>1. \A t \in Systems : t # s => content'[t] = content[t]
    BY <1>1 DEF MarkedChange
  <2>2. worker \in Working => job.system \in Systems
    BY Current
  <2>3. StaleIsMarked'
    BY <1>1, <2>1 DEF MarkedChange
  <2>4. ASSUME (worker \in Working /\ job.system \notin dirty \cup forgotten)'
        PROVE  job.system # s /\ job.system \in Systems /\ content'[job.system] = content[job.system]
    BY <1>1, <2>1, <2>2, <2>4 DEF MarkedChange
  <2>. QED  BY <1>1, <2>3, <2>4 DEF MarkedChange
<1>2. ASSUME NEW s \in Systems, UnmarkedChange(s) /\ UNCHANGED exportVars
      PROVE  FreshInv'
  <2>1. \A t \in Systems : t # s => content'[t] = content[t]
    BY <1>2 DEF UnmarkedChange
  <2>2. worker \in Working => job.system \in Systems
    BY Current
  <2>3. StaleIsMarked'
    BY <1>2, <2>1 DEF UnmarkedChange
  <2>4. ASSUME (worker \in Working /\ job.system \notin dirty \cup forgotten)'
        PROVE  job.system # s /\ job.system \in Systems /\ content'[job.system] = content[job.system]
    BY <1>2, <2>1, <2>2, <2>4 DEF UnmarkedChange
  <2>. QED  BY <1>2, <2>3, <2>4 DEF UnmarkedChange
<1>3. ASSUME NEW s \in Systems, BeginSystem(s) /\ UNCHANGED exportVars
      PROVE  FreshInv'
  BY <1>3 DEF BeginSystem, NoJob
<1>4. CASE ClaimDirtySystems /\ UNCHANGED exportVars
  BY <1>4 DEF ClaimDirtySystems
<1>5. CASE NoSystemLeft /\ UNCHANGED exportVars
  BY <1>5 DEF NoSystemLeft
<1>6. CASE ReadDiscs /\ UNCHANGED exportVars
  BY <1>6, Current DEF ReadDiscs, Jobs
<1>7. CASE ReadFiles /\ UNCHANGED exportVars
  BY <1>7, Current DEF ReadFiles, Jobs
<1>8. CASE PublishArchive /\ UNCHANGED exportVars
  BY <1>8, Current DEF PublishArchive, NewArchive, Jobs, Archives
<1>9. CASE NextKind /\ UNCHANGED exportVars
  BY <1>9, Current DEF NextKind, Jobs, Kind, Kinds
<1>10. CASE FinishSystem /\ UNCHANGED exportVars
  BY <1>10, Current DEF FinishSystem, Jobs
<1>11. CASE MarkAgain /\ UNCHANGED exportVars
  BY <1>11, Current DEF MarkAgain, Jobs
<1>12. CASE ClaimFails /\ UNCHANGED exportVars
  BY <1>12 DEF ClaimFails
<1>13. CASE ReadFilesInPart /\ UNCHANGED exportVars
  BY <1>13, Current DEF ReadFilesInPart, Jobs
<1>14. CASE MediaTypesUnread /\ UNCHANGED exportVars
  BY <1>14, Current DEF MediaTypesUnread, Jobs
<1>15. CASE RegenerationFails /\ UNCHANGED exportVars
  BY <1>15, Current DEF RegenerationFails, Jobs
<1>16. CASE MarkAgainFails /\ UNCHANGED exportVars
  BY <1>16, Current DEF MarkAgainFails, Jobs
<1>17. CASE Tick
  BY <1>17 DEF Tick
<1>18. CASE SkipExport
  BY <1>18 DEF SkipExport
<1>19. CASE BeginExport
  BY <1>19 DEF BeginExport
<1>20. CASE TakeSnapshot
  BY <1>20 DEF TakeSnapshot
<1>21. CASE ExportFails
  BY <1>21 DEF ExportFails
<1>22. CASE PublishExport
  BY <1>22 DEF PublishExport
<1>23. CASE RemoveMarker
  BY <1>23 DEF RemoveMarker
<1>24. CASE LeaveMarker
  BY <1>24 DEF LeaveMarker
<1>25. CASE MarkAllSystems
  BY <1>25 DEF MarkAllSystems
<1>26. CASE MarkingFails
  BY <1>26 DEF MarkingFails
<1>27. CASE PassTime
  BY <1>27 DEF PassTime
<1>28. CASE Crash
  BY <1>28 DEF Crash, RestartArchives
<1>. QED  BY StepCases, <1>1, <1>2, <1>3, <1>4, <1>5, <1>6, <1>7, <1>8, <1>9, <1>10, <1>11, <1>12, <1>13, <1>14, <1>15, <1>16, <1>17, <1>18, <1>19, <1>20, <1>21, <1>22, <1>23, <1>24, <1>25, <1>26, <1>27, <1>28

\* Each action keeps the version shown that of the datfile served.
LEMMA StepVersion ==
    ASSUME WorkerInv, Next
    PROVE  VersionInv'
<1>. USE Basics DEF WorkerInv, TypeOK, ArchivesTypeOK, exportVars, exportData, exportHistory, archiveVars, archiveData, archiveJob, WorkerOnly, SnapshotIsRead, Working, VersionInv, VersionShownIsServed, VersionOnDisk, ControlInv, Kind, Kinds
<1>1. ASSUME NEW s \in Systems, MarkedChange(s) /\ UNCHANGED exportVars
      PROVE  VersionInv'
  BY <1>1 DEF MarkedChange
<1>2. ASSUME NEW s \in Systems, UnmarkedChange(s) /\ UNCHANGED exportVars
      PROVE  VersionInv'
  BY <1>2 DEF UnmarkedChange
<1>3. ASSUME NEW s \in Systems, BeginSystem(s) /\ UNCHANGED exportVars
      PROVE  VersionInv'
  BY <1>3 DEF BeginSystem, NoJob
<1>4. CASE ClaimDirtySystems /\ UNCHANGED exportVars
  BY <1>4 DEF ClaimDirtySystems
<1>5. CASE NoSystemLeft /\ UNCHANGED exportVars
  BY <1>5 DEF NoSystemLeft
<1>6. CASE ReadDiscs /\ UNCHANGED exportVars
  BY <1>6, Current DEF ReadDiscs, Jobs
<1>7. CASE ReadFiles /\ UNCHANGED exportVars
  BY <1>7, Current DEF ReadFiles, Jobs
<1>8. CASE PublishArchive /\ UNCHANGED exportVars
  BY <1>8, Current DEF PublishArchive, NewArchive, Jobs, Archives, Kinds
<1>9. CASE NextKind /\ UNCHANGED exportVars
  BY <1>9, Current DEF NextKind, Jobs, Kinds
<1>10. CASE FinishSystem /\ UNCHANGED exportVars
  BY <1>10, Current DEF FinishSystem, Jobs
<1>11. CASE MarkAgain /\ UNCHANGED exportVars
  BY <1>11, Current DEF MarkAgain, Jobs
<1>12. CASE ClaimFails /\ UNCHANGED exportVars
  BY <1>12 DEF ClaimFails
<1>13. CASE ReadFilesInPart /\ UNCHANGED exportVars
  BY <1>13, Current DEF ReadFilesInPart, Jobs
<1>14. CASE MediaTypesUnread /\ UNCHANGED exportVars
  BY <1>14, Current DEF MediaTypesUnread, Jobs
<1>15. CASE RegenerationFails /\ UNCHANGED exportVars
  BY <1>15, Current DEF RegenerationFails, Jobs
<1>16. CASE MarkAgainFails /\ UNCHANGED exportVars
  BY <1>16, Current DEF MarkAgainFails, Jobs
<1>17. CASE Tick
  BY <1>17 DEF Tick
<1>18. CASE SkipExport
  BY <1>18 DEF SkipExport
<1>19. CASE BeginExport
  BY <1>19 DEF BeginExport
<1>20. CASE TakeSnapshot
  BY <1>20 DEF TakeSnapshot
<1>21. CASE ExportFails
  BY <1>21 DEF ExportFails
<1>22. CASE PublishExport
  BY <1>22 DEF PublishExport
<1>23. CASE RemoveMarker
  BY <1>23 DEF RemoveMarker
<1>24. CASE LeaveMarker
  BY <1>24 DEF LeaveMarker
<1>25. CASE MarkAllSystems
  BY <1>25 DEF MarkAllSystems
<1>26. CASE MarkingFails
  BY <1>26 DEF MarkingFails
<1>27. CASE PassTime
  BY <1>27 DEF PassTime
<1>28. CASE Crash
  BY <1>28 DEF Crash, RestartArchives
<1>. QED  BY StepCases, <1>1, <1>2, <1>3, <1>4, <1>5, <1>6, <1>7, <1>8, <1>9, <1>10, <1>11, <1>12, <1>13, <1>14, <1>15, <1>16, <1>17, <1>18, <1>19, <1>20, <1>21, <1>22, <1>23, <1>24, <1>25, <1>26, <1>27, <1>28

\* Each action keeps the export under way later than the one it replaces.
LEMMA StepExport ==
    ASSUME WorkerInv, Next
    PROVE  ExportInv'
<1>. USE Basics DEF WorkerInv, TypeOK, ArchivesTypeOK, exportVars, exportData, exportHistory, archiveVars, archiveData, archiveJob, WorkerOnly, SnapshotIsRead, Working, ExportTypeOK, ExportInv
<1>1. ASSUME NEW s \in Systems, MarkedChange(s) /\ UNCHANGED exportVars
      PROVE  ExportInv'
  <2>1. \A t \in Systems : content'[t] \in Nat /\ content[t] <= content'[t]
    BY <1>1, ContentGrows DEF MarkedChange
  <2>2. /\ export # None => export.snap \in [Systems -> Nat]
        /\ making.snap \in [Systems -> Nat]
    BY DEF Exports
  <2>. QED  BY <1>1, <2>1, <2>2, Numbers DEF MarkedChange
<1>2. ASSUME NEW s \in Systems, UnmarkedChange(s) /\ UNCHANGED exportVars
      PROVE  ExportInv'
  <2>1. \A t \in Systems : content'[t] \in Nat /\ content[t] <= content'[t]
    BY <1>2, ContentGrows DEF UnmarkedChange
  <2>2. /\ export # None => export.snap \in [Systems -> Nat]
        /\ making.snap \in [Systems -> Nat]
    BY DEF Exports
  <2>. QED  BY <1>2, <2>1, <2>2, Numbers DEF UnmarkedChange
<1>3. ASSUME NEW s \in Systems, BeginSystem(s) /\ UNCHANGED exportVars
      PROVE  ExportInv'
  BY <1>3 DEF BeginSystem
<1>4. CASE ClaimDirtySystems /\ UNCHANGED exportVars
  BY <1>4 DEF ClaimDirtySystems
<1>5. CASE NoSystemLeft /\ UNCHANGED exportVars
  BY <1>5 DEF NoSystemLeft
<1>6. CASE ReadDiscs /\ UNCHANGED exportVars
  BY <1>6 DEF ReadDiscs
<1>7. CASE ReadFiles /\ UNCHANGED exportVars
  BY <1>7 DEF ReadFiles
<1>8. CASE PublishArchive /\ UNCHANGED exportVars
  BY <1>8 DEF PublishArchive
<1>9. CASE NextKind /\ UNCHANGED exportVars
  BY <1>9 DEF NextKind
<1>10. CASE FinishSystem /\ UNCHANGED exportVars
  BY <1>10 DEF FinishSystem
<1>11. CASE MarkAgain /\ UNCHANGED exportVars
  BY <1>11 DEF MarkAgain
<1>12. CASE ClaimFails /\ UNCHANGED exportVars
  BY <1>12 DEF ClaimFails
<1>13. CASE ReadFilesInPart /\ UNCHANGED exportVars
  BY <1>13 DEF ReadFilesInPart
<1>14. CASE MediaTypesUnread /\ UNCHANGED exportVars
  BY <1>14 DEF MediaTypesUnread
<1>15. CASE RegenerationFails /\ UNCHANGED exportVars
  BY <1>15 DEF RegenerationFails
<1>16. CASE MarkAgainFails /\ UNCHANGED exportVars
  BY <1>16 DEF MarkAgainFails
<1>17. CASE Tick
  BY <1>17 DEF Tick
<1>18. CASE SkipExport
  BY <1>18 DEF SkipExport
<1>19. CASE BeginExport
  BY <1>19 DEF BeginExport
<1>20. CASE TakeSnapshot
  BY <1>20 DEF TakeSnapshot
<1>21. CASE ExportFails
  BY <1>21 DEF ExportFails
<1>22. CASE PublishExport
  BY <1>22 DEF PublishExport
<1>23. CASE RemoveMarker
  BY <1>23 DEF RemoveMarker
<1>24. CASE LeaveMarker
  BY <1>24 DEF LeaveMarker
<1>25. CASE MarkAllSystems
  BY <1>25 DEF MarkAllSystems
<1>26. CASE MarkingFails
  BY <1>26 DEF MarkingFails
<1>27. CASE PassTime
  <2>1. now' \in Nat /\ now <= now'
    BY <1>27 DEF PassTime
  <2>2. (export # None => export.at \in Nat) /\ making.at \in Nat
    BY DEF Exports
  <2>. QED  BY <1>27, <2>1, <2>2 DEF PassTime
<1>28. CASE Crash
  BY <1>28 DEF Crash, RestartArchives
<1>. QED  BY StepCases, <1>1, <1>2, <1>3, <1>4, <1>5, <1>6, <1>7, <1>8, <1>9, <1>10, <1>11, <1>12, <1>13, <1>14, <1>15, <1>16, <1>17, <1>18, <1>19, <1>20, <1>21, <1>22, <1>23, <1>24, <1>25, <1>26, <1>27, <1>28

LEMMA StepInv ==
    ASSUME WorkerInv, [Next]_vars
    PROVE  WorkerInv'
<1>1. CASE Next
  <2>1. ArchivesTypeOK' /\ ExportTypeOK'
    BY <1>1, StepArchivesType, StepExportType
  <2>2. ControlInv' /\ ReadInv' /\ FreshInv' /\ VersionInv' /\ ExportInv'
    BY <1>1, StepControl, StepRead, StepFresh, StepVersion, StepExport
  <2>. QED  BY <2>1, <2>2 DEF WorkerInv, TypeOK
<1>2. CASE UNCHANGED vars
  <2>. USE <1>2 DEF vars, archiveVars, archiveData, archiveJob, exportVars, exportData,
                    exportHistory, WorkerInv, VersionOnDisk, Kind
  <2>1. TypeOK'
    BY DEF TypeOK, ArchivesTypeOK, ExportTypeOK
  <2>2. ControlInv' /\ ReadInv'
    BY DEF ControlInv, ReadInv
  <2>3. FreshInv'
    BY DEF FreshInv, StaleIsMarked, Fresh, IsFresh
  <2>4. VersionInv' /\ ExportInv'
    BY DEF VersionInv, VersionShownIsServed, ExportInv
  <2>. QED  BY <2>1, <2>2, <2>3, <2>4
<1>. QED  BY <1>1, <1>2

\* The strengthened invariant of the archive worker: whatever interleaving of
\* approvals, triggers, errors and crashes, nothing the worker has read or
\* published is newer than the data or older than what it replaces.
THEOREM WorkerInvariance == Spec => []WorkerInv
<1>1. Init => WorkerInv
  BY InitInv
<1>2. WorkerInv /\ [Next]_vars => WorkerInv'
  BY StepInv
<1>. QED  BY <1>1, <1>2, PTL DEF Spec

\* The tables, directories and the worker's state keep their types.
THEOREM WorkerTypes == Spec => []TypeOK
<1>1. WorkerInv => TypeOK
  BY DEF WorkerInv
<1>. QED  BY <1>1, WorkerInvariance, PTL

\* Archives that do not show the present data are marked, claimed or among those
\* whose mark the program never set or has dropped: process_dirty_archive_systems
\* clears the mark before it reads, so an approval in between sets it again.
THEOREM StaleIsAlwaysMarked == Spec => []StaleIsMarked
<1>1. WorkerInv => StaleIsMarked
  BY DEF WorkerInv, FreshInv
<1>. QED  BY <1>1, WorkerInvariance, PTL

\* The downloads page shows the version of the datfile it serves, or the system
\* is still to be regenerated.
THEOREM VersionIsServed == Spec => []VersionShownIsServed
<1>1. WorkerInv => VersionShownIsServed
  BY DEF WorkerInv, VersionInv
<1>. QED  BY <1>1, WorkerInvariance, PTL

-----------------------------------------------------------------------------

LEMMA SameIsNotOlder ==
    ASSUME WorkerInv
    PROVE  /\ served' = served => \A s \in Systems, k \in Kinds : ArchiveIsNotOlder(s, k)
           /\ export' = export => ExportIsNotOlder
<1>1. \A s \in Systems, k \in Kinds : served[s][k] # None =>
          served[s][k].list \in Nat /\ served[s][k].detail \in Nat
  BY Numbers DEF WorkerInv, TypeOK
<1>2. export # None => export.at \in Nat /\ \A s \in Systems : export.snap[s] \in Nat
  BY DEF WorkerInv, TypeOK, ExportTypeOK, Exports
<1>. QED  BY <1>1, <1>2 DEF ArchiveIsNotOlder, ExportIsNotOlder

LEMMA StepNotOlder ==
    ASSUME WorkerInv, [Next]_vars
    PROVE  (\A s \in Systems, k \in Kinds : ArchiveIsNotOlder(s, k)) /\ ExportIsNotOlder
<1>. USE DEF exportVars, exportData, archiveVars, archiveData, archiveJob, WorkerOnly
<1>1. CASE PublishArchive /\ UNCHANGED exportVars
  <2>1. ASSUME NEW s \in Systems, NEW k \in Kinds
        PROVE  ArchiveIsNotOlder(s, k)
    <3>1. CASE s = job.system /\ k = Kind
      <4>1. /\ served' = [served EXCEPT ![s][k] = NewArchive]
            /\ worker = "publish"
        BY <1>1, <3>1 DEF PublishArchive
      <4>2. served'[s][k] = NewArchive /\ NewArchive \in Archives
        BY <4>1, NewArchiveType DEF WorkerInv, TypeOK, ArchivesTypeOK, Working
      <4>. QED  BY <3>1, <4>1, <4>2, Basics
                DEF ArchiveIsNotOlder, NewArchive, WorkerInv, ReadInv
    <3>2. CASE ~(s = job.system /\ k = Kind)
      <4>1. served'[s][k] = served[s][k]
        BY <1>1, <3>2 DEF PublishArchive, WorkerInv, TypeOK, ArchivesTypeOK
      <4>. QED  BY <4>1, Numbers DEF ArchiveIsNotOlder, WorkerInv, TypeOK
    <3>. QED  BY <3>1, <3>2
  <2>. QED  BY <1>1, <2>1, SameIsNotOlder
<1>2. CASE PublishExport
  <2>1. served' = served /\ export' = making /\ worker = "rename"
    BY <1>2 DEF PublishExport
  <2>2. making \in Exports
    BY DEF WorkerInv, TypeOK, ExportTypeOK
  <2>3. ExportIsNotOlder
    BY <2>1, <2>2, Basics DEF ExportIsNotOlder, WorkerInv, TypeOK, ExportTypeOK, ExportInv, Exports
  <2>. QED  BY <2>1, <2>3, SameIsNotOlder
<1>3. CASE UNCHANGED <<served, export>>
  BY <1>3, SameIsNotOlder
<1>4. UNCHANGED <<served, export>> \/ PublishExport \/ (PublishArchive /\ UNCHANGED exportVars)
  <2>1. CASE UNCHANGED vars
    BY <2>1 DEF vars
  <2>2. CASE Next
    BY <2>2, StepCases DEF MarkedChange, UnmarkedChange, BeginSystem, ClaimDirtySystems,
       NoSystemLeft, ReadDiscs, ReadFiles, NextKind, FinishSystem, MarkAgain, ClaimFails,
       ReadFilesInPart, MediaTypesUnread, RegenerationFails, MarkAgainFails, Tick, SkipExport,
       BeginExport, TakeSnapshot, ExportFails, RemoveMarker, LeaveMarker, MarkAllSystems,
       MarkingFails, PassTime, Crash, RestartArchives
  <2>. QED  BY <2>1, <2>2
<1>. QED  BY <1>1, <1>2, <1>3, <1>4

\* What can be downloaded is only ever replaced by what was read later, whatever
\* fails: store_archive and generate_export rename a finished file into place.
THEOREM NeverGoesBack == Spec => PublishedNeverGoesBack
<1>1. WorkerInv /\ [Next]_vars =>
          [(\A s \in Systems, k \in Kinds : ArchiveIsNotOlder(s, k)) /\ ExportIsNotOlder]_vars
  BY StepNotOlder
<1>. QED  BY <1>1, WorkerInvariance, PTL DEF Spec, PublishedNeverGoesBack
===============================================================================
