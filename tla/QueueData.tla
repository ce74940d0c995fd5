----------------------------- MODULE QueueData -----------------------------
(***************************************************************************)
(* The data the review queue works on: a disc's content, the change set of *)
(* a submission, a row of disc_submissions, and the pure functions of      *)
(* services/queue_service.rs that resolve a change set and look for        *)
(* conflicts with the catalogue.                                           *)
(*                                                                         *)
(* A content keeps the five fields the queue's decisions depend on.  The   *)
(* name is the generated name (title, regions, languages, disc number,     *)
(* suffix) in its comparison form, the dat and the universal hash are      *)
(* opaque values, and the hash of a snapshot is the content itself.        *)
(***************************************************************************)
EXTENDS Integers, FiniteSets

CONSTANTS
    SystemCodes,   \* systems.code
    Names,         \* generated names
    Dats,          \* contents of the DAT field
    Hashes,        \* universal hashes
    Users,         \* app users
    RoleOf,        \* the role of each user
    DiscIds,       \* discs.id, allocated in order
    SubIds,        \* disc_submissions.id
    Tokens,        \* form tokens that make a POST idempotent
    None,          \* SQL NULL, JSON null, Option::None
    Absent         \* a key that a change set does not mention

Roles == {"User", "User+", "Moderator", "Admin"}
DiscStatuses == {"Disabled", "Questionable", "Unverified", "Verified"}
SubmissionStatuses == {"Pending", "Draft", "Approved", "Rejected", "Legacy"}
SubmissionTypes == {"Disc", "Edit"}

Fields == {"system_code", "name", "dat", "universal_hash", "status"}
Values == SystemCodes \cup Names \cup Dats \cup Hashes \cup DiscStatuses \cup {None}

Contents == [Fields -> Values]
Changes == [Fields -> Values \cup {Absent}]
Rows == [type : SubmissionTypes, submitter : Users, target : DiscIds \cup {None},
         changes : Changes, status : SubmissionStatuses,
         token : Tokens \cup {None}, fingerprint : Contents \cup {None},
         reviewer : Users \cup {None}]

ASSUME QueueAssumption ==
    /\ DiscIds \subseteq Nat
    /\ RoleOf \in [Users -> Roles]
    /\ None \notin DiscIds \cup SubIds \cup Tokens \cup Users \cup Contents \cup Rows
    /\ None \notin SystemCodes \cup Names \cup Dats \cup Hashes \cup DiscStatuses
    /\ Absent \notin Values

-----------------------------------------------------------------------------
(* Permissions. *)

CanEditDirectly(u) == RoleOf[u] # "User"
CanModerate(u) == RoleOf[u] \in {"Moderator", "Admin"}
CanViewDisabledDiscs(u) == RoleOf[u] # "User"

\* Mutant: a User+ may review any submission of their own.
CanReviewOwn(u, row) == CanModerate(u) \/ (CanEditDirectly(u) /\ row.submitter = u)

CanReview(u, row) ==
    \/ CanModerate(u)
    \/ /\ CanEditDirectly(u)
       /\ row.type = "Disc"
       /\ row.target # None
       /\ row.submitter = u

-----------------------------------------------------------------------------
(* Change sets. *)

NoChanges == [f \in Fields |-> Absent]
Blank == [f \in Fields |-> None]

\* What the history builder records: the keys on which the form differs.
Diff(old, new, keys) ==
    [f \in Fields |-> IF f \in keys /\ new[f] # old[f] THEN new[f] ELSE Absent]

\* Submissions of a disc never carry the status the form shows.
EditChanges(old, form) == Diff(old, form, Fields)
DiscChanges(old, form) == Diff(old, form, Fields \ {"status"})

\* A mentioned key replaces the stored value; whatever the value was.
Apply(base, ch) ==
    [f \in Fields |-> IF ch[f] = Absent THEN base[f] ELSE ch[f]]

\* A status the submission carries survives a review form that has none.
PreserveSubmittedStatus(type, submitted, reviewed) ==
    IF type = "Disc" /\ reviewed["status"] = Absent
    THEN [reviewed EXCEPT !["status"] = submitted["status"]]
    ELSE reviewed

\* automatic_disc_status_change: a verification raises the status.
AutomaticStatus(status) ==
    CASE status = None                             -> "Unverified"
      [] status \in {"Unverified", "Questionable"} -> "Verified"
      [] OTHER                                     -> Absent

\* The change set an approval stores, from the content it was resolved on.
Resolve(type, current, ch) ==
    IF type = "Disc" /\ ch["status"] = Absent
    THEN [ch EXCEPT !["status"] = AutomaticStatus(current["status"])]
    ELSE ch

-----------------------------------------------------------------------------
(* The catalogue ds is a function on DiscIds, None where there is no disc. *)

Existing(ds) == {d \in DiscIds : ds[d] # None}
NextDiscId(ds) == {d \in DiscIds : \A e \in DiscIds : e < d <=> ds[e] # None}
TargetContent(ds, target) == IF target = None THEN Blank ELSE ds[target]

IsActive(x) == x["status"] # "Disabled"
IsArchiveEligible(x) == x["status"] \notin {"Disabled", "Questionable"}
ActiveDiscs(ds) == {d \in Existing(ds) : IsActive(ds[d])}
ArchivedDiscs(ds) == {d \in Existing(ds) : IsArchiveEligible(ds[d])}

\* A disc without a system or a title has no generated name to compare.
SameArchiveName(x, y) ==
    /\ x["system_code"] # None
    /\ x["name"] # None
    /\ x["system_code"] = y["system_code"]
    /\ x["name"] = y["name"]

DatMatches(ds, dat) == {d \in ActiveDiscs(ds) : dat # None /\ ds[d]["dat"] = dat}
HashMatches(ds, hash) ==
    {d \in ActiveDiscs(ds) : hash # None /\ ds[d]["universal_hash"] = hash}
NameMatches(ds, x) == {d \in ArchivedDiscs(ds) : SameArchiveName(ds[d], x)}

\* Mutant: the DAT and the universal hash are not compared.
NameConflicts(ds, type, target, current, ch, eff) ==
    IF type = "Disc" /\ current["status"] = "Disabled" THEN {target}
    ELSE IF ~IsArchiveEligible(eff) THEN {}
    ELSE NameMatches(ds, eff) \ {target}

\* The discs an approval of ch on target, with result eff, conflicts with.
\* current is the target's content as the resolution read it.
Conflicts(ds, type, target, current, ch, eff) ==
    IF type = "Disc" /\ current["status"] = "Disabled" THEN {target}
    ELSE IF ~IsActive(eff) THEN {}
    ELSE (   (IF IsArchiveEligible(eff) THEN NameMatches(ds, eff) ELSE {})
        \cup (IF ch["dat"] # Absent THEN DatMatches(ds, eff["dat"]) ELSE {})
        \cup (IF ch["universal_hash"] # Absent
              THEN HashMatches(ds, eff["universal_hash"]) ELSE {})) \ {target}

\* The universal hash lookup returns its lowest id.
Lowest(S) == {d \in S : \A e \in S : d <= e}

\* Add Disc: a universal hash match is preferred to a DAT match.
AddMatches(ds, form) ==
    LET byHash == Lowest(HashMatches(ds, form["universal_hash"]))
        byDat  == DatMatches(ds, form["dat"])
    IN  IF byHash # {} THEN byHash ELSE IF byDat # {} THEN byDat ELSE {None}

\* Review: the two lookups must not name different discs.
ExactMatches(ds, form) ==
    LET orNone(S) == IF S = {} THEN {None} ELSE S
        one(m) == IF m[1] = None \/ m[1] = m[2] THEN m[2]
                  ELSE IF m[2] = None THEN m[1] ELSE None
    IN  {one(m) : m \in orNone(DatMatches(ds, form["dat"]))
                        \X orNone(Lowest(HashMatches(ds, form["universal_hash"])))}

-----------------------------------------------------------------------------
(* An archive holds one file per generated name, so no two discs that go   *)
(* into the archives of a system may share one.                            *)

ArchiveNamesUniqueIn(ds) ==
    \A d, e \in ArchivedDiscs(ds) : SameArchiveName(ds[d], ds[e]) => d = e
=============================================================================
