----------------------------- MODULE PageCaches -----------------------------
(***************************************************************************)
(* The caches that spare the pages a query: the homepage, the directory of *)
(* dumpers, the reference data of the disc list, the edition suggestions   *)
(* and the news of the forum, which differ in whether a refresh takes a    *)
(* lock and whether an old value is better than none; and the number of    *)
(* drafts of each user, which the requests that change it adjust.          *)
(***************************************************************************)
EXTENDS Integers, FiniteSets

CONSTANTS
    Requests,    \* requests that are served at the same time
    Members,     \* users.id
    Missing,        \* no value
    MaxGets,     \* bound: requests
    MaxUpdates   \* bound: changes, expiries, invalidations and failures

ASSUME CachesAssumption ==
    /\ IsFiniteSet(Requests)
    /\ Missing \notin Requests
    /\ Missing \notin [member : Members, by : {-1, 1}]
    /\ {MaxGets, MaxUpdates} \subseteq Nat

Kinds == {"homepage", "dumpers", "references", "editions", "news"}
IsLocked(kind) == kind \in {"homepage", "dumpers", "references"}
KeepsStale(kind) == kind \in {"homepage", "editions", "news"}
IsInvalidated(kind) == kind \in {"homepage", "dumpers"}

VARIABLES
    kind,        \* the cache that this behaviour is about
    data,        \* the version of what is cached
    cached,      \* the cache: the version, Missing if nothing is loaded, and whether it is fresh
    holder,      \* the request that has the refresh lock, or Missing
    request,     \* where each request is
    floor,       \* ghost: the version at the last invalidation
    drafts,      \* the drafts of each user, in the database
    counts,      \* draft_count_cache: the number of each user, or Missing
    adjusting,   \* the adjustment that each request has yet to make
    drifted,     \* ghost: the users whose number something has overlapped
    gets, updates

cacheVars == <<kind, data, cached, holder, request, floor, drafts, counts, adjusting, drifted, gets, updates>>
draftVars == <<drafts, counts, adjusting, drifted>>
valueVars == <<kind, data, cached, holder, floor>>

Waiting == [at |-> "idle", stale |-> Missing, value |-> Missing, floor |-> 0, member |-> Missing]
Empty == [value |-> Missing, fresh |-> FALSE]

CachesInit ==
    /\ kind \in Kinds \cup {"drafts"}
    /\ data = 0 /\ floor = 0
    /\ cached = Empty /\ holder = Missing
    /\ request = [r \in Requests |-> Waiting]
    /\ drafts \in [Members -> IF kind = "drafts" THEN 0 .. 1 ELSE {0}]
    /\ counts = [u \in Members |-> Missing]
    /\ adjusting = [r \in Requests |-> Missing]
    /\ drifted = {}
    /\ gets = 0 /\ updates = 0

Update == updates < MaxUpdates /\ updates' = updates + 1
Get == gets < MaxGets /\ gets' = gets + 1

-----------------------------------------------------------------------------
(* One value that all requests share. *)

\* The value is served, or an error if there is none; the lock is dropped.
Serve(r, value) ==
    /\ request' = [request EXCEPT ![r] = [@ EXCEPT !.at = "served", !.value = value]]
    /\ holder' = IF holder = r THEN Missing ELSE holder

At(r, at) == request[r].at = at
Go(r, at) == request' = [request EXCEPT ![r].at = at]

Look(r) ==
    /\ kind # "drafts" /\ At(r, "idle")
    /\ Get
    /\ request' = [request EXCEPT ![r] =
           IF cached.fresh THEN [Waiting EXCEPT !.at = "served", !.value = cached.value, !.floor = floor]
                           ELSE [Waiting EXCEPT !.at = "old", !.floor = floor]]
    /\ UNCHANGED <<valueVars, draftVars, updates>>

\* An old value is kept in reserve.
Remember(r) ==
    /\ At(r, "old")
    /\ request' = [request EXCEPT ![r] = [@ EXCEPT
           !.at = IF IsLocked(kind) THEN "lock" ELSE "load",
           !.stale = IF KeepsStale(kind) THEN cached.value ELSE Missing]]
    /\ UNCHANGED <<valueVars, draftVars, gets, updates>>

\* The homepage does not wait for another's refresh if it has an old value.
TryLock(r) ==
    /\ At(r, "lock")
    /\ IF holder = Missing THEN holder' = r /\ Go(r, "check")
       ELSE IF request[r].stale # Missing THEN Serve(r, request[r].stale)
       ELSE Go(r, "wait") /\ UNCHANGED holder
    /\ UNCHANGED <<kind, data, cached, floor, draftVars, gets, updates>>

\* After a wait the homepage takes whatever has been loaded.
WaitForLock(r) ==
    /\ At(r, "wait") /\ holder = Missing
    /\ IF kind = "homepage" /\ cached.value # Missing
       THEN Serve(r, cached.value)
       ELSE holder' = r /\ Go(r, "check")
    /\ UNCHANGED <<kind, data, cached, floor, draftVars, gets, updates>>

\* With the lock, the cache is looked at again.
CheckAgain(r) ==
    /\ At(r, "check")
    /\ IF cached.fresh THEN Serve(r, cached.value) ELSE Go(r, "load") /\ UNCHANGED holder
    /\ UNCHANGED <<kind, data, cached, floor, draftVars, gets, updates>>

Load(r) ==
    /\ At(r, "load")
    /\ request' = [request EXCEPT ![r] = [@ EXCEPT !.at = "write", !.value = data]]
    /\ UNCHANGED <<valueVars, draftVars, gets, updates>>

LoadFails(r) ==
    /\ At(r, "load")
    /\ Update
    /\ Serve(r, request[r].stale)
    /\ UNCHANGED <<kind, data, cached, floor, draftVars, gets>>

Write(r) ==
    /\ At(r, "write")
    /\ cached' = [value |-> request[r].value, fresh |-> TRUE]
    /\ Serve(r, request[r].value)
    /\ UNCHANGED <<kind, data, floor, draftVars, gets, updates>>

Leave(r) ==
    /\ At(r, "served")
    /\ request' = [request EXCEPT ![r] = Waiting]
    /\ UNCHANGED <<valueVars, draftVars, gets, updates>>

ChangeData ==
    /\ kind # "drafts"
    /\ Update
    /\ data' = data + 1
    /\ UNCHANGED <<kind, cached, holder, request, floor, draftVars, gets>>

Expire ==
    /\ Update
    /\ cached.fresh
    /\ cached' = [cached EXCEPT !.fresh = FALSE]
    /\ UNCHANGED <<kind, data, holder, request, floor, draftVars, gets>>

\* Mutant: the cache is emptied without the lock.
InvalidateNow ==
    /\ IsInvalidated(kind)
    /\ Update
    /\ cached' = Empty
    /\ floor' = data
    /\ UNCHANGED <<kind, data, holder, request, draftVars, gets>>

\* invalidate, after a change that must show: it takes the refresh lock, so it
\* comes after a refresh that is under way.
Invalidate ==
    /\ IsInvalidated(kind)
    /\ Update
    /\ holder = Missing
    /\ cached' = Empty
    /\ floor' = data
    /\ UNCHANGED <<kind, data, holder, request, draftVars, gets>>

-----------------------------------------------------------------------------
(* The number of drafts that the head of a page shows to its user. *)

Filling(u) == \E r \in Requests : request[r].at = "count" /\ request[r].member = u
Adjusting(u) == \E r \in Requests : adjusting[r] # Missing /\ adjusting[r].member = u

\* A count that cannot be read is taken, and kept, for zero.
CountDrafts(r, u) ==
    /\ kind = "drafts" /\ At(r, "idle") /\ adjusting[r] = Missing
    /\ counts[u] = Missing
    /\ Get
    /\ \E fail \in BOOLEAN :
          /\ IF fail THEN Update ELSE UNCHANGED updates
          /\ request' = [request EXCEPT ![r] = [Waiting EXCEPT !.at = "count", !.member = u,
                                                               !.value = IF fail THEN 0 ELSE drafts[u]]]
          /\ drifted' = IF fail \/ Adjusting(u) THEN drifted \cup {u} ELSE drifted
    /\ UNCHANGED <<valueVars, drafts, counts, adjusting>>

InsertCount(r) ==
    /\ At(r, "count")
    /\ counts' = [counts EXCEPT ![request[r].member] = request[r].value]
    /\ request' = [request EXCEPT ![r] = Waiting]
    /\ UNCHANGED <<valueVars, drafts, adjusting, drifted, gets, updates>>

\* The change of a draft is committed, and the number adjusted afterwards.
ChangeDrafts(r, u, by) ==
    /\ kind = "drafts" /\ At(r, "idle") /\ adjusting[r] = Missing
    /\ Get
    /\ drafts[u] + by >= 0
    /\ drafts' = [drafts EXCEPT ![u] = @ + by]
    /\ drifted' = IF Filling(u) THEN drifted \cup {u} ELSE drifted
    /\ UNCHANGED <<valueVars, counts, request, updates>>

\* Mutant: the number of the moderator goes up, not that of the submitter.
ReturnToDraftOfModerator(r, u) ==
    /\ ChangeDrafts(r, u, 1)
    /\ \E moderator \in Members \ {u} : adjusting' = [adjusting EXCEPT ![r] = [member |-> moderator, by |-> 1]]

\* A moderator returns a submission to draft.
ReturnToDraft(r, u) ==
    /\ ChangeDrafts(r, u, 1)
    /\ adjusting' = [adjusting EXCEPT ![r] = [member |-> u, by |-> 1]]

\* A draft is submitted.
SubmitDraft(r, u) ==
    /\ ChangeDrafts(r, u, -1)
    /\ adjusting' = [adjusting EXCEPT ![r] = [member |-> u, by |-> -1]]

\* increment and decrement: of a number that is cached, never below zero, so
\* that a decrement that overtakes an increment is lost.
Adjust(r) ==
    LET u == adjusting[r].member
        n == counts[u] + adjusting[r].by
    IN  /\ adjusting[r] # Missing
        /\ counts' = IF counts[u] = Missing THEN counts ELSE [counts EXCEPT ![u] = IF n < 0 THEN 0 ELSE n]
        /\ drifted' = IF counts[u] # Missing /\ n < 0 THEN drifted \cup {u} ELSE drifted
        /\ adjusting' = [adjusting EXCEPT ![r] = Missing]
        /\ UNCHANGED <<valueVars, request, drafts, gets, updates>>

\* Submission repair changes status and submitter without the numbers.
RepairDrafts(u) ==
    /\ kind = "drafts"
    /\ Update
    /\ \E n \in 0 .. 2 : drafts' = [drafts EXCEPT ![u] = n]
    /\ drifted' = drifted \cup {u}
    /\ UNCHANGED <<valueVars, request, counts, adjusting, gets>>

\* After a day.
ForgetCount(u) ==
    /\ Update
    /\ counts[u] # Missing
    /\ counts' = [counts EXCEPT ![u] = Missing]
    /\ drifted' = IF Filling(u) \/ Adjusting(u) THEN drifted ELSE drifted \ {u}
    /\ UNCHANGED <<valueVars, request, drafts, adjusting, gets>>

CachesNext ==
    \/ \E r \in Requests :
          \/ Look(r) \/ Remember(r) \/ TryLock(r) \/ WaitForLock(r) \/ CheckAgain(r)
          \/ Load(r) \/ LoadFails(r) \/ Write(r) \/ Leave(r)
          \/ InsertCount(r) \/ Adjust(r)
          \/ \E u \in Members : CountDrafts(r, u) \/ ReturnToDraft(r, u) \/ SubmitDraft(r, u)
    \/ ChangeData \/ Expire \/ Invalidate
    \/ \E u \in Members : RepairDrafts(u) \/ ForgetCount(u)

CachesSpec == CachesInit /\ [][CachesNext]_cacheVars

-----------------------------------------------------------------------------
(* Properties. *)

\* What was read before an invalidation is not served to a request that comes
\* after it, however the refreshes overlap.
FreshAfterInvalidation ==
    \A r \in Requests : request[r].at = "served" /\ request[r].value # Missing =>
        request[r].value >= request[r].floor

\* The number that the pages show is the number of drafts, but for a count that
\* failed or overlapped a change, a decrement that overtook an increment, and a
\* repair.
DraftCountIsExact ==
    \A u \in Members : counts[u] # Missing /\ u \notin drifted /\ ~Adjusting(u) => counts[u] = drafts[u]
=============================================================================
