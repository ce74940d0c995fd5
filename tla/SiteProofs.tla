----------------------------- MODULE SiteProofs ------------------------------
(***************************************************************************)
(* What the pages show, for every number of requests, readers and changes, *)
(* and who is logged in, for every number of tabs, attempts and sessions.  *)
(*                                                                         *)
(* PageCaches: it comes from the database as it was after the last change  *)
(* that must show, and the number of drafts is the number of drafts.       *)
(* DiscList: a total that lists share is that of each of them.             *)
(* QueueList: the lists of submissions, their numbers and the labels of    *)
(* the rows agree with the pages they lead to.                             *)
(* Login: the handlers implement SingleSignOn, and who has logged out      *)
(* stays so, since what is then under way sets no session.                 *)
(***************************************************************************)
EXTENDS PageCaches, DiscList, QueueList, Login, FiniteSetTheorems, SequenceTheorems, TLAPS

-----------------------------------------------------------------------------
(* The caches: a value is never older than the last invalidation.          *)

RequestRecords ==
    [at : {"idle", "old", "lock", "wait", "check", "load", "write", "served", "count"},
     stale : Nat \cup {Missing}, value : Nat \cup {Missing}, floor : Nat,
     member : Members \cup {Missing}]

Adjustments == [member : Members, by : {-1, 1}]

CacheTypes ==
    /\ kind \in Kinds \cup {"drafts"}
    /\ data \in Nat /\ floor \in Nat /\ floor <= data
    /\ cached \in [value : Nat \cup {Missing}, fresh : BOOLEAN]
    /\ request \in [Requests -> RequestRecords]
    /\ drafts \in [Members -> Nat]
    /\ counts \in [Members -> Nat \cup {Missing}]
    /\ adjusting \in [Requests -> Adjustments \cup {Missing}]
    /\ drifted \subseteq Members

\* A request in the state q, of those that are served, has nothing that is
\* older than what it came for; what it is about to write is not older than
\* the last invalidation.
Stands(q) ==
    /\ q.floor <= floor
    /\ q.stale # Missing => q.stale >= q.floor
    /\ q.at = "served" /\ q.value # Missing => q.value >= q.floor
    /\ q.at = "write" => q.value \in Nat /\ q.value >= floor

\* Between the second look at the cache and the write the lock is the request's.
HasLock(r) == IsLocked(kind) /\ request[r].at \in {"check", "load", "write"} => holder = r

CacheInv ==
    /\ CacheTypes
    /\ ~IsInvalidated(kind) => floor = 0
    /\ cached.value # Missing => cached.value >= floor
    /\ \A r \in Requests : HasLock(r) /\ Stands(request[r])

LEMMA CacheInit == CachesInit => CacheInv
<1> SUFFICES ASSUME CachesInit PROVE CacheInv
    OBVIOUS
<1>1. CacheTypes
    BY DEF CachesInit, CacheTypes, Waiting, Empty, RequestRecords, Kinds
<1>2. \A r \in Requests : HasLock(r) /\ Stands(request[r])
    BY DEF CachesInit, HasLock, Stands, Waiting
<1> QED BY <1>1, <1>2 DEF CachesInit, CacheInv, Empty

\* A request goes on: it may take a lock that is free, and drops its own only.
LEMMA RequestStep ==
    ASSUME CachesAssumption, CacheInv, NEW r \in Requests, NEW q \in RequestRecords,
           request' = [request EXCEPT ![r] = q], UNCHANGED <<kind, data, floor, draftVars>>,
           Stands(q), IsLocked(kind) /\ q.at \in {"check", "load", "write"} => holder' = r,
           \A s \in Requests \ {r} : holder = s => holder' = s,
           cached' \in [value : Nat \cup {Missing}, fresh : BOOLEAN],
           cached'.value # Missing => cached'.value >= floor
    PROVE  CacheInv'
<1> USE DEF CacheInv
<1>1. CacheTypes'
    BY DEF CacheTypes, draftVars
<1>2. /\ request'[r] = q
      /\ \A s \in Requests \ {r} : request'[s] = request[s]
    BY DEF CacheTypes
<1>3. \A s \in Requests : HasLock(s)'
    BY <1>2 DEF HasLock, IsLocked
<1>4. \A s \in Requests : Stands(request[s])'
    BY <1>2 DEF Stands
<1> QED BY <1>1, <1>3, <1>4 DEF IsInvalidated

\* An adjustment or a change of drafts leaves the caches and the requests alone.
LEMMA DraftStep ==
    ASSUME CacheInv, UNCHANGED <<valueVars, request>>,
           drafts' \in [Members -> Nat], counts' \in [Members -> Nat \cup {Missing}],
           adjusting' \in [Requests -> Adjustments \cup {Missing}], drifted' \subseteq Members
    PROVE  CacheInv'
    BY DEF CacheInv, CacheTypes, valueVars, HasLock, Stands, IsLocked, IsInvalidated

LEMMA RequestGoes ==
    ASSUME CacheInv, NEW r \in Requests, NEW at \in {"lock", "load", "served"},
           NEW stale \in Nat \cup {Missing}, NEW value \in Nat \cup {Missing}
    PROVE  /\ [request[r] EXCEPT !.at = at, !.value = value] \in RequestRecords
           /\ [request[r] EXCEPT !.at = at, !.stale = stale] \in RequestRecords
<1>1. request[r] \in RequestRecords
    BY DEF CacheInv, CacheTypes
<1> QED BY <1>1 DEF RequestRecords

LEMMA CacheNext ==
    ASSUME CachesAssumption, CacheInv, [CachesNext]_cacheVars PROVE CacheInv'
<1> USE DEF CacheInv
<1>1. ASSUME NEW r \in Requests, Look(r) PROVE CacheInv'
    <2> DEFINE q == IF cached.fresh THEN [Waiting EXCEPT !.at = "served", !.value = cached.value, !.floor = floor]
                                    ELSE [Waiting EXCEPT !.at = "old", !.floor = floor]
    <2>1. q \in RequestRecords /\ Stands(q) /\ q.at \notin {"check", "load", "write"}
        <3>1. cached.value \in Nat \cup {Missing} /\ floor \in Nat
            BY DEF CacheTypes
        <3>2. q.floor = floor /\ q.stale = Missing /\ q.value \in {cached.value, Missing}
            BY DEF Waiting
        <3>3. q.at \in {"served", "old"}
            BY DEF Waiting
        <3>4. q \in RequestRecords
            BY <3>1 DEF RequestRecords, Waiting
        <3>5. Stands(q)
            BY <3>1, <3>2, <3>3 DEF Stands
        <3> QED BY <3>3, <3>4, <3>5
    <2> QED BY <1>1, <2>1, RequestStep DEF Look, valueVars, CacheTypes
<1>2. ASSUME NEW r \in Requests, Remember(r) PROVE CacheInv'
    <2> DEFINE stale == IF KeepsStale(kind) THEN cached.value ELSE Missing
               at == IF IsLocked(kind) THEN "lock" ELSE "load"
               q == [request[r] EXCEPT !.at = at, !.stale = stale]
    <2>1. q \in RequestRecords /\ Stands(q) /\ (IsLocked(kind) => q.at \notin {"check", "load", "write"})
        <3>1. stale \in Nat \cup {Missing} /\ (stale # Missing => stale >= floor)
            BY DEF CacheTypes
        <3>2. at \in {"lock", "load"} /\ (IsLocked(kind) => at = "lock")
            OBVIOUS
        <3> HIDE DEF at, stale
        <3>3. q \in RequestRecords
            BY <3>1, <3>2, RequestGoes
        <3>4. q.at = at /\ q.stale = stale /\ q.floor = request[r].floor
            BY DEF CacheTypes, RequestRecords
        <3>5. Stands(q)
            BY <3>1, <3>2, <3>4 DEF Stands, CacheTypes, RequestRecords
        <3> QED BY <3>2, <3>3, <3>4, <3>5
    <2> QED BY <1>2, <2>1, RequestStep DEF Remember, valueVars, CacheTypes
<1>3. ASSUME NEW r \in Requests, NEW value \in Nat \cup {Missing}, value # Missing => value >= request[r].floor,
             Serve(r, value), UNCHANGED <<kind, data, floor, draftVars>>,
             cached' \in [value : Nat \cup {Missing}, fresh : BOOLEAN],
             cached'.value # Missing => cached'.value >= floor
      PROVE  CacheInv'
    <2> DEFINE q == [request[r] EXCEPT !.at = "served", !.value = value]
    <2>1. q \in RequestRecords /\ Stands(q) /\ q.at \notin {"check", "load", "write"}
        <3>1. q \in RequestRecords
            BY <1>3, RequestGoes
        <3>2. q.at = "served" /\ q.value = value /\ q.stale = request[r].stale /\ q.floor = request[r].floor
            BY DEF CacheTypes, RequestRecords
        <3> QED BY <1>3, <3>1, <3>2 DEF Stands
    <2>2. \A s \in Requests \ {r} : holder = s => holder' = s
        BY <1>3 DEF Serve
    <2> QED BY <1>3, <2>1, <2>2, RequestStep DEF Serve
<1>4. ASSUME NEW r \in Requests, NEW at \in {"wait", "check", "load"}, Go(r, at),
             UNCHANGED <<kind, data, cached, floor, draftVars>>,
             holder' = holder \/ (holder = Missing /\ holder' = r), at # "wait" => holder' = r
      PROVE  CacheInv'
    <2> DEFINE q == [request[r] EXCEPT !.at = at]
    <2>1. q \in RequestRecords /\ Stands(q) /\ q.at = at
        BY <1>4 DEF CacheTypes, RequestRecords, Stands
    <2>2. \A s \in Requests \ {r} : holder = s => holder' = s
        BY <1>4 DEF CachesAssumption
    <2> QED BY <1>4, <2>1, <2>2, RequestStep DEF Go, CacheTypes
<1>5. ASSUME NEW r \in Requests, TryLock(r) PROVE CacheInv'
    <2>1. CASE holder = Missing
        BY <1>4, <1>5, <2>1 DEF TryLock
    <2>2. CASE holder # Missing /\ request[r].stale # Missing
        BY <1>3, <1>5, <2>2 DEF TryLock, Stands, CacheTypes, RequestRecords
    <2>3. CASE holder # Missing /\ request[r].stale = Missing
        BY <1>4, <1>5, <2>3 DEF TryLock
    <2> QED BY <2>1, <2>2, <2>3
<1>6. ASSUME NEW r \in Requests, WaitForLock(r) PROVE CacheInv'
    <2>1. CASE kind = "homepage" /\ cached.value # Missing
        BY <1>3, <1>6, <2>1 DEF WaitForLock, Stands, CacheTypes, RequestRecords
    <2>2. CASE ~(kind = "homepage" /\ cached.value # Missing)
        BY <1>4, <1>6, <2>2 DEF WaitForLock
    <2> QED BY <2>1, <2>2
<1>7. ASSUME NEW r \in Requests, CheckAgain(r) PROVE CacheInv'
    <2>1. CASE cached.fresh
        BY <1>3, <1>7, <2>1 DEF CheckAgain, Stands, CacheTypes, RequestRecords
    <2>2. CASE ~cached.fresh
        <3> DEFINE q == [request[r] EXCEPT !.at = "load"]
        <3>1. q \in RequestRecords /\ Stands(q) /\ (IsLocked(kind) => holder = r)
            BY <1>7 DEF CheckAgain, At, HasLock, CacheTypes, RequestRecords, Stands
        <3> QED BY <1>7, <2>2, <3>1, RequestStep DEF CheckAgain, Go, CacheTypes
    <2> QED BY <2>1, <2>2
<1>8. ASSUME NEW r \in Requests, Load(r) PROVE CacheInv'
    <2> DEFINE q == [request[r] EXCEPT !.at = "write", !.value = data]
    <2>1. q \in RequestRecords /\ Stands(q) /\ (IsLocked(kind) => holder = r)
        BY <1>8 DEF Load, At, HasLock, CacheTypes, RequestRecords, Stands
    <2> QED BY <1>8, <2>1, RequestStep DEF Load, valueVars, CacheTypes
<1>9. ASSUME NEW r \in Requests, LoadFails(r) PROVE CacheInv'
    BY <1>3, <1>9 DEF LoadFails, Stands, CacheTypes, RequestRecords
<1>10. ASSUME NEW r \in Requests, Write(r) PROVE CacheInv'
    <2>1. request[r].value \in Nat /\ request[r].value >= floor /\ request[r].value >= request[r].floor
        BY <1>10 DEF Write, At, Stands, CacheTypes, RequestRecords
    <2>2. /\ cached' \in [value : Nat \cup {Missing}, fresh : BOOLEAN]
          /\ cached'.value >= floor
        BY <1>10, <2>1 DEF Write
    <2> QED BY <1>3, <1>10, <2>1, <2>2 DEF Write
<1>11. Waiting \in RequestRecords /\ Stands(Waiting) /\ Waiting.at = "idle"
    BY DEF Waiting, RequestRecords, Stands, CacheTypes
<1>12. ASSUME NEW r \in Requests, Leave(r) PROVE CacheInv'
    BY <1>11, <1>12, RequestStep DEF Leave, valueVars, CacheTypes
<1>13. ASSUME NEW r \in Requests, InsertCount(r) PROVE CacheInv'
    <2>1. request' = [request EXCEPT ![r] = Waiting] /\ UNCHANGED <<valueVars, drafts, adjusting, drifted>>
        BY <1>13 DEF InsertCount
    <2>2. counts' \in [Members -> Nat \cup {Missing}]
        BY <1>13 DEF InsertCount, CacheTypes, RequestRecords
    <2>3. CacheTypes'
        BY <1>11, <2>1, <2>2 DEF CacheTypes, valueVars
    <2>4. \A s \in Requests : HasLock(s)' /\ Stands(request[s])'
        BY <1>11, <2>1 DEF HasLock, IsLocked, Stands, CacheTypes, valueVars
    <2> QED BY <2>1, <2>3, <2>4 DEF valueVars, IsInvalidated
<1>14. ASSUME NEW r \in Requests, Adjust(r) PROVE CacheInv'
    <2>1. adjusting[r] \in Adjustments
        BY <1>14 DEF Adjust, CacheTypes
    <2>2. counts' \in [Members -> Nat \cup {Missing}] /\ drifted' \subseteq Members
        BY <1>14, <2>1 DEF Adjust, CacheTypes, Adjustments
    <2> QED BY <1>14, <2>2, DraftStep DEF Adjust, CacheTypes
<1>15. ASSUME NEW r \in Requests, NEW u \in Members, CountDrafts(r, u) PROVE CacheInv'
    <2>1. PICK fail \in BOOLEAN : request' = [request EXCEPT ![r] =
              [Waiting EXCEPT !.at = "count", !.member = u, !.value = IF fail THEN 0 ELSE drafts[u]]]
        BY <1>15 DEF CountDrafts
    <2> DEFINE value == IF fail THEN 0 ELSE drafts[u]
               q == [Waiting EXCEPT !.at = "count", !.member = u, !.value = value]
    <2>2. q \in RequestRecords /\ Stands(q) /\ q.at = "count"
        <3>1. value \in Nat
            BY DEF CacheTypes
        <3> HIDE DEF value
        <3>2. q \in RequestRecords
            BY <3>1 DEF RequestRecords, Waiting
        <3>3. q.at = "count" /\ q.floor = 0 /\ q.stale = Missing
            BY DEF Waiting
        <3> QED BY <3>2, <3>3 DEF Stands, CacheTypes
    <2>3. drifted' \subseteq Members /\ UNCHANGED <<valueVars, drafts, counts, adjusting>>
        BY <1>15 DEF CountDrafts, CacheTypes
    <2>4. CacheTypes'
        BY <2>1, <2>2, <2>3 DEF CacheTypes, valueVars
    <2>5. \A s \in Requests : HasLock(s)' /\ Stands(request[s])'
        BY <2>1, <2>2, <2>3 DEF HasLock, IsLocked, Stands, CacheTypes, valueVars
    <2> QED BY <2>3, <2>4, <2>5 DEF valueVars, IsInvalidated
<1>16. ASSUME NEW r \in Requests, NEW u \in Members, NEW by \in {-1, 1}, ChangeDrafts(r, u, by),
              adjusting' = [adjusting EXCEPT ![r] = [member |-> u, by |-> by]]
       PROVE  CacheInv'
    <2>1. drafts' \in [Members -> Nat] /\ drifted' \subseteq Members
        BY <1>16 DEF ChangeDrafts, CacheTypes
    <2>2. adjusting' \in [Requests -> Adjustments \cup {Missing}]
        BY <1>16 DEF CacheTypes, Adjustments
    <2> QED BY <1>16, <2>1, <2>2, DraftStep DEF ChangeDrafts, CacheTypes
<1>17. ASSUME ChangeData PROVE CacheInv'
    BY <1>17 DEF ChangeData, CacheTypes, draftVars, HasLock, Stands, IsLocked, IsInvalidated
<1>18. ASSUME Expire PROVE CacheInv'
    BY <1>18 DEF Expire, CacheTypes, draftVars, HasLock, Stands, IsLocked, IsInvalidated
<1>19. ASSUME Invalidate PROVE CacheInv'
    <2>1. \A r \in Requests : request[r].at # "write"
        BY <1>19 DEF Invalidate, HasLock, IsLocked, IsInvalidated, CachesAssumption
    <2>2. CacheTypes'
        BY <1>19 DEF Invalidate, CacheTypes, Empty, draftVars
    <2>3. \A r \in Requests : HasLock(r)' /\ Stands(request[r])'
        BY <1>19, <2>1 DEF Invalidate, HasLock, IsLocked, Stands, CacheTypes, RequestRecords
    <2> QED BY <1>19, <2>2, <2>3 DEF Invalidate, Empty, IsInvalidated
<1>20. ASSUME NEW u \in Members, RepairDrafts(u) PROVE CacheInv'
    <2>1. drafts' \in [Members -> Nat] /\ drifted' \subseteq Members
        BY <1>20 DEF RepairDrafts, CacheTypes
    <2> QED BY <1>20, <2>1, DraftStep DEF RepairDrafts, CacheTypes
<1>21. ASSUME NEW u \in Members, ForgetCount(u) PROVE CacheInv'
    <2>1. counts' \in [Members -> Nat \cup {Missing}] /\ drifted' \subseteq Members
        BY <1>21 DEF ForgetCount, CacheTypes
    <2> QED BY <1>21, <2>1, DraftStep DEF ForgetCount, CacheTypes
<1>22. CASE UNCHANGED cacheVars
    BY <1>22 DEF cacheVars, CacheTypes, HasLock, Stands, IsLocked, IsInvalidated
<1> QED
    BY <1>1, <1>2, <1>5, <1>6, <1>7, <1>8, <1>9, <1>10, <1>12, <1>13, <1>14, <1>15, <1>16, <1>17,
       <1>18, <1>19, <1>20, <1>21, <1>22 DEF CachesNext, ReturnToDraft, SubmitDraft

\* What every request may rely on.
THEOREM CachesInvariance == ASSUME CachesAssumption PROVE CachesSpec => []CacheInv
    BY CacheInit, CacheNext, PTL DEF CachesSpec

\* A page is never older than the last change that must show.
THEOREM ServedIsFresh == ASSUME CachesAssumption PROVE CachesSpec => []FreshAfterInvalidation
<1>1. CacheInv => FreshAfterInvalidation
    BY DEF CacheInv, Stands, FreshAfterInvalidation
<1> QED BY <1>1, CachesInvariance, PTL

-----------------------------------------------------------------------------
(* The number of drafts: what is cached and what is yet to be adjusted      *)
(* make the number in the database.                                        *)

\* The requests that have yet to raise or to lower the number of u.
Pending(u, by) ==
    {r \in Requests : adjusting[r] # Missing /\ adjusting[r].member = u /\ adjusting[r].by = by}

Outstanding(u) == Cardinality(Pending(u, 1)) - Cardinality(Pending(u, -1))

\* A count that is on its way to the cache is the number of now.
FillsAreExact(u) ==
    \A r \in Requests : request[r].at = "count" /\ request[r].member = u =>
        request[r].value = drafts[u] /\ ~Adjusting(u)

NumberStands(u) ==
    /\ counts[u] # Missing => counts[u] + Outstanding(u) = drafts[u]
    /\ FillsAreExact(u)

DraftInv ==
    /\ CacheInv
    /\ \A u \in Members \ drifted : NumberStands(u)

LEMMA PendingIsFinite ==
    ASSUME CachesAssumption, NEW u, NEW by
    PROVE  IsFiniteSet(Pending(u, by)) /\ Cardinality(Pending(u, by)) \in Nat
    BY FS_Subset, FS_CardinalityType DEF Pending, CachesAssumption

LEMMA NothingPending ==
    ASSUME CachesAssumption, NEW u, ~Adjusting(u) PROVE Outstanding(u) = 0
<1>1. Pending(u, 1) = {} /\ Pending(u, -1) = {}
    BY DEF Pending, Adjusting
<1> QED BY <1>1, FS_EmptySet DEF Outstanding

\* An adjustment that begins.
LEMMA OneMorePending ==
    ASSUME CachesAssumption, CacheInv, NEW r \in Requests, NEW u \in Members, NEW by \in {-1, 1},
           adjusting[r] = Missing, adjusting' = [adjusting EXCEPT ![r] = [member |-> u, by |-> by]]
    PROVE  /\ Outstanding(u)' = Outstanding(u) + by
           /\ \A v \in Members \ {u} : Outstanding(v)' = Outstanding(v) /\ Adjusting(v)' = Adjusting(v)
<1>1. [member |-> u, by |-> by] # Missing
    BY DEF CachesAssumption
<1>2. /\ adjusting'[r] = [member |-> u, by |-> by]
      /\ \A s \in Requests \ {r} : adjusting'[s] = adjusting[s]
    BY DEF CacheInv, CacheTypes
<1>3. ASSUME NEW v \in Members, NEW b \in {-1, 1}
      PROVE  Pending(v, b)' = IF v = u /\ b = by THEN Pending(v, b) \cup {r} ELSE Pending(v, b)
    BY <1>1, <1>2 DEF Pending
<1>4. r \notin Pending(u, by)
    BY DEF Pending
<1>5. Cardinality(Pending(u, by))' = Cardinality(Pending(u, by)) + 1 /\ Pending(u, -by)' = Pending(u, -by)
    BY <1>3, <1>4, PendingIsFinite, FS_AddElement
<1>6. Outstanding(u)' = Outstanding(u) + by
    BY <1>5, PendingIsFinite DEF Outstanding
<1>7. \A v \in Members \ {u} : Outstanding(v)' = Outstanding(v)
    BY <1>3 DEF Outstanding
<1>8. \A v \in Members \ {u} : Adjusting(v)' = Adjusting(v)
    BY <1>1, <1>2 DEF Adjusting
<1> QED BY <1>6, <1>7, <1>8

\* An adjustment that is made.
LEMMA OneFewerPending ==
    ASSUME CachesAssumption, CacheInv, NEW r \in Requests, NEW u \in Members, NEW by \in {-1, 1},
           adjusting[r] # Missing, adjusting[r].member = u, adjusting[r].by = by,
           adjusting' = [adjusting EXCEPT ![r] = Missing]
    PROVE  /\ Outstanding(u)' = Outstanding(u) - by
           /\ \A v \in Members \ {u} : Outstanding(v)' = Outstanding(v) /\ (Adjusting(v)' = Adjusting(v))
<1>2. adjusting'[r] = Missing /\ \A s \in Requests \ {r} : adjusting'[s] = adjusting[s]
    BY DEF CacheInv, CacheTypes
<1>3. ASSUME NEW v \in Members, NEW b \in {-1, 1}
      PROVE  Pending(v, b)' = IF v = u /\ b = by THEN Pending(v, b) \ {r} ELSE Pending(v, b)
    BY <1>2 DEF Pending
<1>4. r \in Pending(u, by)
    BY DEF Pending
<1>5. Cardinality(Pending(u, by))' = Cardinality(Pending(u, by)) - 1 /\ Pending(u, -by)' = Pending(u, -by)
    BY <1>3, <1>4, PendingIsFinite, FS_RemoveElement
<1>6. Outstanding(u)' = Outstanding(u) - by
    BY <1>5, PendingIsFinite DEF Outstanding
<1>7. \A v \in Members \ {u} : Outstanding(v)' = Outstanding(v)
    BY <1>3 DEF Outstanding
<1>8. \A v \in Members \ {u} : Adjusting(v)' = Adjusting(v)
    BY <1>2 DEF Adjusting
<1> QED BY <1>6, <1>7, <1>8

\* A step that changes no number and fills none.
LEMMA NumbersKept ==
    ASSUME DraftInv, UNCHANGED draftVars,
           \A r \in Requests : request'[r].at = "count" => request'[r] = request[r]
    PROVE  \A u \in Members \ drifted' : NumberStands(u)'
<1> SUFFICES ASSUME NEW u \in Members \ drifted PROVE NumberStands(u)'
    BY DEF draftVars
<1>1. NumberStands(u)
    BY DEF DraftInv
<1>2. Outstanding(u)' = Outstanding(u)
    BY DEF draftVars, Outstanding, Pending
<1>3. FillsAreExact(u)'
    BY <1>1 DEF NumberStands, FillsAreExact, draftVars, Adjusting
<1> QED BY <1>1, <1>2, <1>3 DEF NumberStands, draftVars

LEMMA DraftInit == ASSUME CachesAssumption PROVE CachesInit => DraftInv
<1> SUFFICES ASSUME CachesInit, NEW u \in Members PROVE DraftInv
    BY CacheInit DEF DraftInv
<1> QED BY CacheInit DEF DraftInv, CachesInit, NumberStands, FillsAreExact, Waiting

LEMMA DraftNext ==
    ASSUME CachesAssumption, DraftInv, [CachesNext]_cacheVars PROVE DraftInv'
<1>0. CacheInv /\ CacheInv'
    BY CacheNext DEF DraftInv
<1> SUFFICES ASSUME NEW u \in Members, u \notin drifted' PROVE NumberStands(u)'
    BY <1>0 DEF DraftInv
<1>1. u \notin drifted => NumberStands(u)
    BY DEF DraftInv
<1> USE <1>0
<1>2. ASSUME UNCHANGED draftVars, \A r \in Requests : request'[r].at = "count" => request'[r] = request[r]
      PROVE  NumberStands(u)'
    BY <1>2, NumbersKept
<1>3. ASSUME NEW r \in Requests,
             Look(r) \/ Remember(r) \/ TryLock(r) \/ WaitForLock(r) \/ CheckAgain(r)
             \/ Load(r) \/ LoadFails(r) \/ Write(r) \/ Leave(r)
      PROVE  NumberStands(u)'
    <2>1. UNCHANGED draftVars
        BY <1>3 DEF Look, Remember, TryLock, WaitForLock, CheckAgain, Load, LoadFails, Write, Leave
    <2>2. ASSUME NEW s \in Requests, request'[s].at = "count" PROVE request'[s] = request[s]
        <3>1. request[r] \in RequestRecords /\ request \in [Requests -> RequestRecords]
            BY DEF CacheInv, CacheTypes
        <3>2. (\E q : request' = [request EXCEPT ![r] = q]) => (s # r => request'[s] = request[s])
            BY <3>1
        <3>3. CASE Look(r)
            <4>1. request'[r].at # "count"
                BY <3>1, <3>3 DEF Look, Waiting
            <4> QED BY <2>2, <3>2, <3>3, <4>1 DEF Look
        <3>4. CASE Remember(r)
            <4>1. request'[r].at # "count"
                BY <3>1, <3>4 DEF Remember, RequestRecords
            <4> QED BY <2>2, <3>2, <3>4, <4>1 DEF Remember
        <3>5. ASSUME NEW value, Serve(r, value) PROVE request'[s] = request[s]
            <4>1. request'[r].at # "count"
                BY <3>1, <3>5 DEF Serve, RequestRecords
            <4> QED BY <2>2, <3>2, <3>5, <4>1 DEF Serve
        <3>6. ASSUME NEW at, at # "count", Go(r, at) PROVE request'[s] = request[s]
            <4>1. request'[r].at # "count" /\ (s # r => request'[s] = request[s])
                BY <3>1, <3>6 DEF Go, RequestRecords
            <4> QED BY <2>2, <4>1
        <3>7. CASE Load(r)
            <4>1. request'[r].at # "count"
                BY <3>1, <3>7 DEF Load, RequestRecords
            <4> QED BY <2>2, <3>2, <3>7, <4>1 DEF Load
        <3>8. CASE Leave(r)
            <4>1. request'[r].at # "count"
                BY <3>1, <3>8 DEF Leave, Waiting
            <4> QED BY <2>2, <3>2, <3>8, <4>1 DEF Leave
        <3>9. CASE TryLock(r) \/ WaitForLock(r) \/ CheckAgain(r) \/ LoadFails(r) \/ Write(r)
            BY <3>5, <3>6, <3>9 DEF TryLock, WaitForLock, CheckAgain, LoadFails, Write
        <3> QED BY <1>3, <3>3, <3>4, <3>7, <3>8, <3>9
    <2> QED BY <1>2, <2>1, <2>2
<1>4. ASSUME NEW r \in Requests, InsertCount(r) PROVE NumberStands(u)'
    <2>1. /\ u \notin drifted /\ Outstanding(u)' = Outstanding(u)
          /\ Adjusting(u)' = Adjusting(u) /\ drafts' = drafts
        BY <1>4 DEF InsertCount, Outstanding, Pending, Adjusting
    <2>2. \A s \in Requests : request'[s].at = "count" => request'[s] = request[s]
        BY <1>4 DEF InsertCount, Waiting, CacheInv, CacheTypes
    <2>3. CASE request[r].member = u
        <3>1. request[r].value = drafts[u] /\ ~Adjusting(u)
            BY <1>1, <1>4, <2>1, <2>3 DEF InsertCount, At, NumberStands, FillsAreExact
        <3>2. Outstanding(u) = 0
            BY <3>1, NothingPending
        <3>3. counts'[u] = drafts[u]
            BY <1>4, <2>3, <3>1 DEF InsertCount, CacheInv, CacheTypes
        <3>4. drafts[u] \in Nat
            BY DEF CacheInv, CacheTypes
        <3> QED BY <1>1, <2>1, <2>2, <3>2, <3>3, <3>4 DEF NumberStands, FillsAreExact
    <2>4. CASE request[r].member # u
        <3>1. counts'[u] = counts[u]
            BY <1>4, <2>4 DEF InsertCount, CacheInv, CacheTypes
        <3> QED BY <1>1, <2>1, <2>2, <3>1 DEF NumberStands, FillsAreExact
    <2> QED BY <2>3, <2>4
<1>5. ASSUME NEW r \in Requests, Adjust(r) PROVE NumberStands(u)'
    <2> PICK v \in Members, by \in {-1, 1} : adjusting[r].member = v /\ adjusting[r].by = by
        BY <1>5 DEF Adjust, CacheInv, CacheTypes, Adjustments
    <2>1. /\ Outstanding(v)' = Outstanding(v) - by
          /\ \A w \in Members \ {v} : Outstanding(w)' = Outstanding(w) /\ (Adjusting(w)' = Adjusting(w))
        BY <1>5, OneFewerPending DEF Adjust
    <2>2. UNCHANGED <<request, drafts>> /\ u \notin drifted
        BY <1>5 DEF Adjust
    <2>3. CASE u = v
        <3>1. Adjusting(u)
            BY <1>5, <2>3 DEF Adjusting, Adjust
        <3>2. FillsAreExact(u)'
            BY <1>1, <2>2, <3>1 DEF NumberStands, FillsAreExact
        <3>3. ASSUME counts'[u] # Missing PROVE counts'[u] + Outstanding(u)' = drafts[u]
            <4>1. counts[u] # Missing /\ counts[u] + by >= 0 /\ counts'[u] = counts[u] + by
                BY <1>5, <2>3, <3>3 DEF Adjust, CacheInv, CacheTypes
            <4>2. counts[u] + Outstanding(u) = drafts[u] /\ counts[u] \in Nat
                BY <1>1, <2>2, <4>1 DEF NumberStands, CacheInv, CacheTypes
            <4>3. Outstanding(u) \in Int
                BY PendingIsFinite DEF Outstanding
            <4> QED BY <2>1, <2>3, <4>1, <4>2, <4>3
        <3> QED BY <2>2, <3>2, <3>3 DEF NumberStands
    <2>4. CASE u # v
        <3>1. counts'[u] = counts[u]
            BY <1>5, <2>4 DEF Adjust, CacheInv, CacheTypes
        <3> QED BY <1>1, <2>1, <2>2, <2>4, <3>1 DEF NumberStands, FillsAreExact
    <2> QED BY <2>3, <2>4
<1>6. ASSUME NEW r \in Requests, NEW v \in Members, CountDrafts(r, v) PROVE NumberStands(u)'
    <2>1. UNCHANGED <<drafts, counts, adjusting>> /\ u \notin drifted
        BY <1>6 DEF CountDrafts
    <2>2. Outstanding(u)' = Outstanding(u) /\ Adjusting(u)' = Adjusting(u)
        BY <2>1 DEF Outstanding, Pending, Adjusting
    <2>3. \A s \in Requests \ {r} : request'[s] = request[s]
        BY <1>6 DEF CountDrafts, CacheInv, CacheTypes
    <2>4. /\ request'[r].member = v
          /\ v = u => request'[r].value = drafts[u] /\ ~Adjusting(u)
        BY <1>6 DEF CountDrafts, Waiting, CacheInv, CacheTypes
    <2> QED BY <1>1, <2>1, <2>2, <2>3, <2>4 DEF NumberStands, FillsAreExact
<1>7. ASSUME NEW r \in Requests, NEW v \in Members, NEW by \in {-1, 1}, ChangeDrafts(r, v, by),
             adjusting' = [adjusting EXCEPT ![r] = [member |-> v, by |-> by]]
      PROVE  NumberStands(u)'
    <2>1. /\ Outstanding(v)' = Outstanding(v) + by
          /\ \A w \in Members \ {v} : Outstanding(w)' = Outstanding(w) /\ (Adjusting(w)' = Adjusting(w))
        BY <1>7, OneMorePending DEF ChangeDrafts
    <2>2. /\ UNCHANGED <<request, counts>> /\ u \notin drifted
          /\ drafts' = [drafts EXCEPT ![v] = @ + by]
          /\ u = v => ~Filling(u)
        BY <1>7 DEF ChangeDrafts
    <2>3. CASE u = v
        <3>1. FillsAreExact(u)'
            BY <2>2, <2>3 DEF FillsAreExact, Filling
        <3>2. drafts'[u] = drafts[u] + by /\ drafts[u] \in Nat /\ counts[u] \in Nat \cup {Missing}
            BY <2>2, <2>3 DEF CacheInv, CacheTypes
        <3>3. Outstanding(u) \in Int
            BY PendingIsFinite DEF Outstanding
        <3>4. counts[u] # Missing => counts[u] + Outstanding(u)' = drafts'[u]
            BY <1>1, <2>1, <2>2, <2>3, <3>2, <3>3 DEF NumberStands
        <3> QED BY <2>2, <3>1, <3>4 DEF NumberStands
    <2>4. CASE u # v
        <3>1. drafts'[u] = drafts[u]
            BY <2>2, <2>4 DEF CacheInv, CacheTypes
        <3> QED BY <1>1, <2>1, <2>2, <2>4, <3>1 DEF NumberStands, FillsAreExact
    <2> QED BY <2>3, <2>4
<1>8. ASSUME ChangeData \/ Expire \/ Invalidate PROVE NumberStands(u)'
    BY <1>2, <1>8 DEF ChangeData, Expire, Invalidate
<1>9. ASSUME NEW v \in Members, RepairDrafts(v) PROVE NumberStands(u)'
    <2>1. u # v /\ u \notin drifted /\ drafts'[u] = drafts[u] /\ UNCHANGED <<request, counts, adjusting>>
        BY <1>9 DEF RepairDrafts, CacheInv, CacheTypes
    <2>2. Outstanding(u)' = Outstanding(u) /\ Adjusting(u)' = Adjusting(u)
        BY <2>1 DEF Outstanding, Pending, Adjusting
    <2> QED BY <1>1, <2>1, <2>2 DEF NumberStands, FillsAreExact
<1>10. ASSUME NEW v \in Members, ForgetCount(v) PROVE NumberStands(u)'
    <2>1. UNCHANGED <<request, drafts, adjusting>>
        BY <1>10 DEF ForgetCount
    <2>2. Outstanding(u)' = Outstanding(u) /\ Adjusting(u)' = Adjusting(u)
        BY <2>1 DEF Outstanding, Pending, Adjusting
    <2>3. CASE u = v
        <3>1. counts'[u] = Missing
            BY <1>10, <2>3 DEF ForgetCount, CacheInv, CacheTypes
        <3>2. u \notin drifted \/ ~(Filling(u) \/ Adjusting(u))
            BY <1>10, <2>3 DEF ForgetCount
        <3>3. FillsAreExact(u)'
            BY <1>1, <2>1, <2>2, <3>2 DEF NumberStands, FillsAreExact, Filling
        <3> QED BY <3>1, <3>3 DEF NumberStands
    <2>4. CASE u # v
        <3>1. counts'[u] = counts[u] /\ u \notin drifted
            BY <1>10, <2>4 DEF ForgetCount, CacheInv, CacheTypes
        <3> QED BY <1>1, <2>1, <2>2, <3>1 DEF NumberStands, FillsAreExact
    <2> QED BY <2>3, <2>4
<1>11. CASE UNCHANGED cacheVars
    BY <1>2, <1>11 DEF cacheVars, draftVars
<1> QED
    BY <1>3, <1>4, <1>5, <1>6, <1>7, <1>8, <1>9, <1>10, <1>11 DEF CachesNext, ReturnToDraft, SubmitDraft

\* The number that is shown is the number of drafts, however the requests that
\* count them and those that change them overlap, but for the drifts that
\* DraftCountIsExact names.
THEOREM DraftCountsMatch == ASSUME CachesAssumption PROVE CachesSpec => []DraftCountIsExact
<1>1. CachesSpec => []DraftInv
    BY DraftInit, DraftNext, PTL DEF CachesSpec
<1>2. DraftInv => DraftCountIsExact
    <2> SUFFICES ASSUME DraftInv, NEW u \in Members, counts[u] # Missing, u \notin drifted, ~Adjusting(u)
                 PROVE  counts[u] = drafts[u]
        BY DEF DraftCountIsExact
    <2>1. Outstanding(u) = 0
        BY NothingPending
    <2>2. counts[u] + Outstanding(u) = drafts[u] /\ counts[u] \in Nat
        BY DEF DraftInv, NumberStands, CacheInv, CacheTypes
    <2> QED BY <2>1, <2>2
<1> QED BY <1>1, <1>2, PTL

-----------------------------------------------------------------------------
(* The disc list: a total is kept under a key.                             *)

KeysAgree(p, us, q, vs) ==
    /\ StatusFilter(p) = StatusFilter(q) /\ p.system = q.system /\ p.letter = q.letter
    /\ p.region = q.region /\ p.language = q.language /\ p.category = q.category
    /\ DumperName(p, us) = DumperName(q, vs) /\ p.edc = q.edc /\ p.offset = q.offset
    /\ LowerWords(p) = LowerWords(q)
    /\ TextKey(p.title, p.titleExact) = TextKey(q.title, q.titleExact)
    /\ ExactKey(p.title, p.titleExact) = ExactKey(q.title, q.titleExact)
    /\ TextKey(p.foreign, FALSE) = TextKey(q.foreign, FALSE)
    /\ (IF p.serialExact THEN p.serial ELSE Compact(p.serial))
          = (IF q.serialExact THEN q.serial ELSE Compact(q.serial))
    /\ ExactKey(p.serial, p.serialExact) = ExactKey(q.serial, q.serialExact)
    /\ LowerCase(p.hash) = LowerCase(q.hash)
    /\ <<p.tracksMin, p.tracksMax>> = <<q.tracksMin, q.tracksMax>>
    /\ <<p.errorsMin, p.errorsMax>> = <<q.errorsMin, q.errorsMax>>
    /\ TextKey(p.comments, FALSE) = TextKey(q.comments, FALSE)
    /\ TextKey(p.protection, FALSE) = TextKey(q.protection, FALSE)
    /\ (~Blank(p.protection) /\ p.viewer # "visitor") = (~Blank(q.protection) /\ q.viewer # "visitor")
    /\ TextKey(p.mastering, FALSE) = TextKey(q.mastering, FALSE)

\* Records are told apart by each of their fields.
LEMMA SameKeyFields ==
    ASSUME NEW p, NEW q, NEW us, NEW vs, CountKey(p, us) = CountKey(q, vs)
    PROVE  KeysAgree(p, us, q, vs)
    BY Zenon DEF CountKey, KeysAgree

\* A text that has no character but blanks, and what is left of another.
LEMMA LowerCaseOfText ==
    ASSUME NEW text
    PROVE  /\ LowerCase(text) = {} <=> text = {}
           /\ ~Blank(text) => LowerCase(text) # {} /\ text # {}
           /\ ~Blank(text) => Compact(text) # {}
           /\ " " \notin Compact(text)
<1>1. LowerCase(text) = {} <=> text = {}
    <2>1. ASSUME LowerCase(text) = {}, text # {} PROVE FALSE
        <3>1. PICK c \in text : TRUE
            BY <2>1
        <3>2. (IF c = "A" THEN "a" ELSE c) \in LowerCase(text)
            BY <3>1 DEF LowerCase
        <3> QED BY <2>1, <3>2
    <2>2. text = {} => LowerCase(text) = {}
        BY DEF LowerCase
    <2> QED BY <2>1, <2>2
<1>2. ASSUME ~Blank(text) PROVE text # {} /\ Compact(text) # {}
    <2>1. PICK c \in text : c # " "
        BY <1>2 DEF Blank
    <2>2. (IF c = "A" THEN "a" ELSE c) \in LowerCase(text)
        BY <2>1 DEF LowerCase
    <2>3. (IF c = "A" THEN "a" ELSE c) # " "
        BY <2>1
    <2>4. (IF c = "A" THEN "a" ELSE c) \in Compact(text)
        BY <2>2, <2>3 DEF Compact
    <2> QED BY <2>1, <2>4
<1>3. " " \notin Compact(text)
    BY DEF Compact
<1> QED BY <1>1, <1>2, <1>3

\* Two texts of one key are blank together, and found by the same texts.
LEMMA SameTextKey ==
    ASSUME NEW s, NEW t, NEW e \in BOOLEAN, NEW f \in BOOLEAN,
           TextKey(s, e) = TextKey(t, f), ExactKey(s, e) = ExactKey(t, f)
    PROVE  /\ Blank(s) <=> Blank(t)
           /\ \A text : MatchesText(text, s, e) <=> MatchesText(text, t, f)
<1>1. TextKey(s, e) = {} <=> Blank(s)
    BY LowerCaseOfText, Zenon DEF TextKey
<1>2. TextKey(t, f) = {} <=> Blank(t)
    BY LowerCaseOfText, Zenon DEF TextKey
<1>3. Blank(s) <=> Blank(t)
    BY <1>1, <1>2
<1>4. ASSUME NEW text PROVE MatchesText(text, s, e) <=> MatchesText(text, t, f)
    <2>1. CASE Blank(s)
        BY <1>3, <2>1 DEF MatchesText
    <2>2. CASE ~Blank(s) /\ e
        <3>1. f = TRUE /\ s = t
            BY <1>3, <2>2 DEF ExactKey, TextKey
        <3> QED BY <2>2, <3>1 DEF MatchesText
    <2>3. CASE ~Blank(s) /\ ~e
        <3>1. f = FALSE /\ LowerCase(s) = LowerCase(t)
            BY <1>3, <2>3 DEF ExactKey, TextKey
        <3> QED BY <1>3, <2>3, <3>1 DEF MatchesText, HasText
    <2> QED BY <2>1, <2>2, <2>3
<1> QED BY <1>3, <1>4

\* A serial is compared as it is or without its blanks: the keys of the two
\* kinds are told apart.
LEMMA SameSerialKey ==
    ASSUME NEW p, NEW q, NEW us, NEW vs, IsQuery(p), IsQuery(q), CountKey(p, us) = CountKey(q, vs), NEW d
    PROVE  MatchesSerial(p, d) <=> MatchesSerial(q, d)
<1> DEFINE Key(r) == IF r.serialExact THEN r.serial ELSE Compact(r.serial)
<1>0. KeysAgree(p, us, q, vs)
    BY SameKeyFields
<1>1. Key(p) = Key(q) /\ ExactKey(p.serial, p.serialExact) = ExactKey(q.serial, q.serialExact)
    BY <1>0 DEF KeysAgree
<1>2. p.serialExact \in BOOLEAN /\ q.serialExact \in BOOLEAN
    BY DEF IsQuery
<1>3. p.system = q.system
    BY <1>0 DEF KeysAgree
<1>4. CASE ExactKey(p.serial, p.serialExact)
    <2>1. p.serialExact = TRUE /\ q.serialExact = TRUE /\ ~Blank(p.serial) /\ ~Blank(q.serial)
        BY <1>1, <1>2, <1>4 DEF ExactKey
    <2>2. p.serial = q.serial
        BY <1>1, <2>1
    <2> QED BY <2>1, <2>2 DEF MatchesSerial
<1>5. CASE ~ExactKey(p.serial, p.serialExact)
    <2>1. Blank(p.serial) \/ p.serialExact = FALSE
        BY <1>2, <1>5 DEF ExactKey
    <2>2. Blank(q.serial) \/ q.serialExact = FALSE
        BY <1>1, <1>2, <1>5 DEF ExactKey
    <2>3. ASSUME NEW s, NEW t, ~Blank(s), Blank(t) PROVE Compact(s) # Compact(t) /\ Compact(s) # t
        <3>1. Compact(s) # {} /\ " " \notin Compact(s)
            BY <2>3, LowerCaseOfText
        <3>2. Compact(t) \subseteq {" "}
            BY <2>3 DEF Blank, Compact, LowerCase
        <3> QED BY <2>3, <3>1, <3>2 DEF Blank
    <2>4. Blank(p.serial) <=> Blank(q.serial)
        BY <1>1, <1>2, <2>1, <2>2, <2>3
    <2>5. CASE Blank(p.serial)
        BY <2>4, <2>5 DEF MatchesSerial
    <2>6. CASE ~Blank(p.serial)
        <3>1. p.serialExact = FALSE /\ q.serialExact = FALSE /\ Compact(p.serial) = Compact(q.serial)
            BY <1>1, <2>1, <2>2, <2>4, <2>6
        <3> QED BY <1>3, <2>4, <2>6, <3>1 DEF MatchesSerial
    <2> QED BY <2>5, <2>6
<1> QED BY <1>4, <1>5

\* The name in the key is the requested one, but for its case.
LEMMA DumperNameIsRequested ==
    ASSUME NEW q, NEW us
    PROVE  LowerCase(DumperName(q, us)) = LowerCase(q.dumper)
<1>1. CASE q.dumper = {} \/ Dumper(q, us) = {}
    BY <1>1 DEF DumperName
<1>2. CASE ~(q.dumper = {} \/ Dumper(q, us) = {})
    <2> DEFINE u == CHOOSE u \in Dumper(q, us) : TRUE
    <2>1. u \in Dumper(q, us)
        BY <1>2
    <2>2. DumperName(q, us) = us[u]
        BY <1>2, Zenon DEF DumperName
    <2> HIDE DEF u
    <2>3. LowerCase(us[u]) = LowerCase(q.dumper)
        BY <2>1 DEF Dumper
    <2> QED BY <2>2, <2>3
<1> QED BY <1>1, <1>2

\* Queries that share a total find the same discs by any reading of the hashes,
\* the users and the discs, if they are cut into terms alike: whatever the key
\* leaves out (the case of a text or a name, the blanks of a serial, a status
\* that the viewer may not ask for, a filter that filters nothing) is nothing
\* to the filters, but for where a quick search was cut that has the character
\* by which the key joins its terms.
THEOREM SameKeySameDiscs ==
    ASSUME NEW p, NEW q, NEW us, NEW vs, IsQuery(p), IsQuery(q),
           CountKey(p, us) = CountKey(q, vs), p.glued = q.glued, NEW c
    PROVE  MatchesQuery(p, c) = MatchesQuery(q, c)
<1> SUFFICES ASSUME NEW id \in DOMAIN c.discs, NEW d, d = c.discs[id]
             PROVE  /\ MatchesSystem(p, d) <=> MatchesSystem(q, d)
                    /\ MatchesCategory(p, d) <=> MatchesCategory(q, d)
                    /\ MatchesRegionAndLanguage(p, d) <=> MatchesRegionAndLanguage(q, d)
                    /\ MatchesLetter(p, d) <=> MatchesLetter(q, d)
                    /\ MatchesStatus(p, d) <=> MatchesStatus(q, d)
                    /\ MatchesTerms(p, id, c) <=> MatchesTerms(q, id, c)
                    /\ MatchesTitles(p, d) <=> MatchesTitles(q, d)
                    /\ MatchesSerial(p, d) <=> MatchesSerial(q, d)
                    /\ MatchesHash(p, d) <=> MatchesHash(q, d)
                    /\ MatchesTracks(p, d) <=> MatchesTracks(q, d)
                    /\ MatchesErrors(p, d) <=> MatchesErrors(q, d)
                    /\ MatchesEdc(p, d) <=> MatchesEdc(q, d)
                    /\ MatchesProtection(p, d) <=> MatchesProtection(q, d)
                    /\ MatchesText(d.comments, p.comments, FALSE) <=> MatchesText(d.comments, q.comments, FALSE)
                    /\ MatchesRings(p, d) <=> MatchesRings(q, d)
                    /\ MatchesDumper(p, d, c.users) <=> MatchesDumper(q, d, c.users)
    BY Zenon DEF MatchesQuery
<1>a. KeysAgree(p, us, q, vs)
    BY SameKeyFields
<1>0. /\ p.system = q.system /\ p.letter = q.letter /\ p.region = q.region /\ p.language = q.language
      /\ p.category = q.category /\ p.edc = q.edc /\ p.offset = q.offset
      /\ StatusFilter(p) = StatusFilter(q)
    BY <1>a DEF KeysAgree
<1>1. /\ p.titleExact \in BOOLEAN /\ q.titleExact \in BOOLEAN /\ FALSE \in BOOLEAN
    BY DEF IsQuery
<1>2. MatchesSystem(p, d) <=> MatchesSystem(q, d)
    BY <1>0 DEF MatchesSystem
<1>3. MatchesCategory(p, d) <=> MatchesCategory(q, d)
    BY <1>0 DEF MatchesCategory
<1>4. MatchesRegionAndLanguage(p, d) <=> MatchesRegionAndLanguage(q, d)
    BY <1>0 DEF MatchesRegionAndLanguage
<1>5. MatchesLetter(p, d) <=> MatchesLetter(q, d)
    BY <1>0 DEF MatchesLetter
<1>6. MatchesStatus(p, d) <=> MatchesStatus(q, d)
    BY <1>0 DEF MatchesStatus
<1>7. MatchesTerms(p, id, c) <=> MatchesTerms(q, id, c)
    <2>1. LowerWords(p) = LowerWords(q)
        BY <1>a DEF KeysAgree
    <2>2. FirstWords(p) = FirstWords(q)
        BY <2>1 DEF FirstWords
    <2>3. \A i : Term(p, i) = Term(q, i)
        BY <2>1, Zenon DEF Term
    <2> QED BY <2>2, <2>3, Zenon DEF MatchesTerms
<1>8. MatchesTitles(p, d) <=> MatchesTitles(q, d)
    <2>1. MatchesText(d.title, p.title, p.titleExact) <=> MatchesText(d.title, q.title, q.titleExact)
        <3>1. /\ TextKey(p.title, p.titleExact) = TextKey(q.title, q.titleExact)
              /\ ExactKey(p.title, p.titleExact) = ExactKey(q.title, q.titleExact)
            BY <1>a DEF KeysAgree
        <3> QED BY <1>1, <3>1, SameTextKey
    <2>2. /\ Blank(p.foreign) <=> Blank(q.foreign)
          /\ MatchesText(d.foreign, p.foreign, FALSE) <=> MatchesText(d.foreign, q.foreign, FALSE)
        <3>1. TextKey(p.foreign, FALSE) = TextKey(q.foreign, FALSE)
            BY <1>a DEF KeysAgree
        <3>2. ExactKey(p.foreign, FALSE) = ExactKey(q.foreign, FALSE)
            BY DEF ExactKey
        <3> QED BY <1>1, <3>1, <3>2, SameTextKey
    <2> QED BY <2>1, <2>2 DEF MatchesTitles
<1>9. MatchesSerial(p, d) <=> MatchesSerial(q, d)
    BY SameSerialKey
<1>10. MatchesHash(p, d) <=> MatchesHash(q, d)
    <2>1. LowerCase(p.hash) = LowerCase(q.hash)
        BY <1>a DEF KeysAgree
    <2>2. p.hash = {} <=> q.hash = {}
        BY <2>1, LowerCaseOfText
    <2> QED BY <2>1, <2>2 DEF MatchesHash
<1>11. /\ MatchesTracks(p, d) <=> MatchesTracks(q, d)
       /\ MatchesErrors(p, d) <=> MatchesErrors(q, d)
    <2>1. /\ <<p.tracksMin, p.tracksMax>> = <<q.tracksMin, q.tracksMax>>
          /\ <<p.errorsMin, p.errorsMax>> = <<q.errorsMin, q.errorsMax>>
        BY <1>a DEF KeysAgree
    <2>2. /\ p.tracksMin = q.tracksMin /\ p.tracksMax = q.tracksMax
          /\ p.errorsMin = q.errorsMin /\ p.errorsMax = q.errorsMax
        BY <2>1
    <2> QED BY <1>0, <2>2 DEF MatchesTracks, MatchesErrors
<1>12. MatchesEdc(p, d) <=> MatchesEdc(q, d)
    BY <1>0 DEF MatchesEdc
<1>13. MatchesProtection(p, d) <=> MatchesProtection(q, d)
    <2>1. TextKey(p.protection, FALSE) = TextKey(q.protection, FALSE)
        BY <1>a DEF KeysAgree
    <2>2. ExactKey(p.protection, FALSE) = ExactKey(q.protection, FALSE)
        BY DEF ExactKey
    <2>3. /\ Blank(p.protection) <=> Blank(q.protection)
          /\ MatchesText(d.protection, p.protection, FALSE) <=> MatchesText(d.protection, q.protection, FALSE)
        BY <1>1, <2>1, <2>2, SameTextKey
    <2>4. ~Blank(p.protection) => (p.viewer # "visitor" <=> q.viewer # "visitor")
        <3>1. (~Blank(p.protection) /\ p.viewer # "visitor") = (~Blank(q.protection) /\ q.viewer # "visitor")
            BY <1>a DEF KeysAgree
        <3> QED BY <2>3, <3>1
    <2>5. ~Blank(p.protection) => (HasText(d.protection, p.protection) <=> HasText(d.protection, q.protection))
        BY <2>3 DEF MatchesText
    <2> QED BY <2>3, <2>4, <2>5 DEF MatchesProtection
<1>14. MatchesText(d.comments, p.comments, FALSE) <=> MatchesText(d.comments, q.comments, FALSE)
    <2>1. TextKey(p.comments, FALSE) = TextKey(q.comments, FALSE)
        BY <1>a DEF KeysAgree
    <2>2. ExactKey(p.comments, FALSE) = ExactKey(q.comments, FALSE)
        BY DEF ExactKey
    <2> QED BY <1>1, <2>1, <2>2, SameTextKey
<1>15. MatchesRings(p, d) <=> MatchesRings(q, d)
    <2>1. TextKey(p.mastering, FALSE) = TextKey(q.mastering, FALSE)
        BY <1>a DEF KeysAgree
    <2>2. ExactKey(p.mastering, FALSE) = ExactKey(q.mastering, FALSE)
        BY DEF ExactKey
    <2>3. Blank(p.mastering) <=> Blank(q.mastering)
        BY <1>1, <2>1, <2>2, SameTextKey
    <2>4. ASSUME NEW t PROVE MatchesText(t, p.mastering, FALSE) <=> MatchesText(t, q.mastering, FALSE)
        BY <1>1, <2>1, <2>2, SameTextKey
    <2>5. ~Blank(p.mastering) => \A t : HasText(t, p.mastering) <=> HasText(t, q.mastering)
        BY <2>3, <2>4 DEF MatchesText
    <2> QED BY <1>0, <2>3, <2>5 DEF MatchesRings
<1>16. MatchesDumper(p, d, c.users) <=> MatchesDumper(q, d, c.users)
    <2>1. LowerCase(p.dumper) = LowerCase(q.dumper)
        <3>1. DumperName(p, us) = DumperName(q, vs)
            BY <1>a DEF KeysAgree
        <3> QED BY <3>1, DumperNameIsRequested
    <2>2. p.dumper = {} <=> q.dumper = {}
        BY <2>1, LowerCaseOfText
    <2>3. Dumper(p, c.users) = Dumper(q, c.users)
        BY <2>1, Zenon DEF Dumper
    <2> QED BY <2>2, <2>3, Zenon DEF MatchesDumper
<1> QED
    BY <1>2, <1>3, <1>4, <1>5, <1>6, <1>7, <1>8, <1>9, <1>10, <1>11, <1>12, <1>13, <1>14, <1>15, <1>16, Zenon

\* A request keeps a query, and its total is of that query once it is counted;
\* a total that is kept is of every query that shares its key and its cuts.
TotalOf(q, c) == Cardinality(MatchesQuery(q, c))

ReaderStands(a) ==
    /\ DOMAIN a = {"at", "q", "hashes", "users", "total", "from", "locked"}
    /\ a.at # "idle" => IsQuery(a.q)
    /\ a.at = "counted" => a.from.glued = a.q.glued
    /\ a.at \in {"counted", "rows"} /\ a.from.glued = a.q.glued => a.total = TotalOf(a.q, a.from)

TotalStands(k) ==
    \A q, us : IsQuery(q) /\ CountKey(q, us) = k /\ totals[k].from.glued = q.glued =>
                   totals[k].total = TotalOf(q, totals[k].from)

ListInv ==
    /\ reader = [r \in Readers |-> reader[r]]
    /\ \A r \in Readers : ReaderStands(reader[r])
    /\ \A k \in DOMAIN totals : TotalStands(k)

LEMMA ListInitially == ListInit => ListInv
<1> SUFFICES ASSUME ListInit PROVE ListInv
    OBVIOUS
<1>1. reader = [r \in Readers |-> NoRequest] /\ DOMAIN totals = {}
    BY DEF ListInit
<1>2. ReaderStands(NoRequest)
    BY DEF ReaderStands, NoRequest
<1> QED BY <1>1, <1>2 DEF ListInv

\* A step of one request leaves the others as they stand.
LEMMA OneReader ==
    ASSUME ListInv, NEW r \in Readers, NEW a, ReaderStands(a), reader' = [reader EXCEPT ![r] = a]
    PROVE  /\ reader' = [s \in Readers |-> reader'[s]]
           /\ \A s \in Readers : ReaderStands(reader'[s])
<1>1. reader = [s \in Readers |-> reader[s]]
    BY DEF ListInv
<1>2. DOMAIN reader = Readers
    BY <1>1
<1>3. reader' = [s \in Readers |-> IF s = r THEN a ELSE reader[s]]
    BY <1>2
<1> QED BY <1>3 DEF ListInv

LEMMA TakenTotal ==
    ASSUME ListInv, NEW r \in Readers, reader[r].at # "idle", KeyOf(r) \in DOMAIN totals, TakeTotal(r)
    PROVE  /\ reader' = [s \in Readers |-> reader'[s]]
           /\ \A s \in Readers : ReaderStands(reader'[s])
<1> DEFINE kept == totals[KeyOf(r)]
           a == [reader[r] EXCEPT !.at = "rows", !.total = kept.total, !.from = kept.from]
<1>1. ReaderStands(reader[r]) /\ IsQuery(reader[r].q) /\ DOMAIN reader = Readers
    BY DEF ListInv, ReaderStands
<1>2. TotalStands(KeyOf(r))
    BY DEF ListInv
<1>3. kept.from.glued = reader[r].q.glued => kept.total = TotalOf(reader[r].q, kept.from)
    BY <1>1, <1>2 DEF TotalStands, KeyOf
<1>4. reader' = [reader EXCEPT ![r] = a]
    BY <1>1 DEF TakeTotal
<1> HIDE DEF kept
<1>5. ReaderStands(a)
    BY <1>1, <1>3 DEF ReaderStands
<1> HIDE DEF a
<1> QED BY <1>4, <1>5, OneReader

\* A request that begins, or begins again, has a query and nothing else.
LEMMA HashesRead ==
    ASSUME ListInv, NEW r \in Readers, NEW q, IsQuery(q), ReadHashes(r, q)
    PROVE  /\ reader' = [s \in Readers |-> reader'[s]]
           /\ \A s \in Readers : ReaderStands(reader'[s])
<1> DEFINE hashes == IF q.words = <<>> THEN <<>>
                     ELSE [id \in DOMAIN catalogue.discs |-> catalogue.discs[id].hashes]
           a == [NoRequest EXCEPT !.at = "hashed", !.q = q, !.hashes = hashes]
<1>1. reader' = [reader EXCEPT ![r] = a]
    BY DEF ReadHashes
<1> HIDE DEF hashes
<1>2. ReaderStands(a)
    BY DEF ReaderStands, NoRequest
<1> HIDE DEF a
<1> QED BY <1>1, <1>2, OneReader

LEMMA ListStep == ASSUME ListAssumption, ListInv, [ListNext]_listVars PROVE ListInv'
<1>1. /\ reader = [r \in Readers |-> reader[r]]
      /\ \A r \in Readers : ReaderStands(reader[r])
      /\ \A k \in DOMAIN totals : TotalStands(k)
      /\ DOMAIN reader = Readers
    BY DEF ListInv
<1>2. ASSUME totals' = totals,
             reader' = [r \in Readers |-> reader'[r]] /\ \A r \in Readers : ReaderStands(reader'[r])
      PROVE  ListInv'
    BY <1>1, <1>2 DEF ListInv, TotalStands
<1>3. ASSUME NEW r \in Readers, NEW q \in Queries[r], Ask(r, q) PROVE ListInv'
    <2>1. IsQuery(q) /\ totals' = totals /\ ReadHashes(r, q)
        BY <1>3 DEF ListAssumption, Ask
    <2> QED BY <1>2, <2>1, HashesRead
<1>4. ASSUME NEW r \in Readers, AskAgain(r) PROVE ListInv'
    <2>1. reader[r].at = "redirected" /\ totals' = totals /\ ReadHashes(r, reader[r].q)
        BY <1>4 DEF AskAgain
    <2>2. IsQuery(reader[r].q)
        BY <1>1, <2>1 DEF ReaderStands
    <2> QED BY <1>2, <2>1, <2>2, HashesRead
<1>5. ASSUME NEW r \in Readers, NEW a, ReaderStands(a), reader' = [reader EXCEPT ![r] = a], totals' = totals
      PROVE  ListInv'
    BY <1>2, <1>5, OneReader
<1>6. ASSUME NEW r \in Readers, LookUpDumper(r) PROVE ListInv'
    <2> DEFINE found == IF reader[r].q.dumper = {} THEN <<>> ELSE catalogue.users
               a == [reader[r] EXCEPT !.at = "named", !.users = found]
    <2>1. reader[r].at = "hashed" /\ totals' = totals /\ reader' = [reader EXCEPT ![r] = a]
        BY <1>1, <1>6 DEF LookUpDumper
    <2> HIDE DEF found
    <2>2. ReaderStands(a)
        BY <1>1, <2>1 DEF ReaderStands
    <2> HIDE DEF a
    <2> QED BY <1>5, <2>1, <2>2
\* A total is looked for: it is taken, or the request goes on without one.
<1>7. ASSUME NEW r \in Readers, NEW at \in {"waiting", "counting"}, reader[r].at # "idle", totals' = totals,
             IF KeyOf(r) \in DOMAIN totals THEN TakeTotal(r) ELSE reader' = [reader EXCEPT ![r].at = at]
      PROVE  ListInv'
    <2>1. CASE KeyOf(r) \in DOMAIN totals
        <3>1. TakeTotal(r)
            BY <1>7, <2>1
        <3> QED BY <1>2, <1>7, <2>1, <3>1, TakenTotal
    <2>2. CASE KeyOf(r) \notin DOMAIN totals
        <3> DEFINE a == [reader[r] EXCEPT !.at = at]
        <3>1. reader' = [reader EXCEPT ![r] = a]
            BY <1>1, <1>7, <2>2
        <3>2. ReaderStands(a)
            BY <1>1, <1>7 DEF ReaderStands
        <3> HIDE DEF a
        <3> QED BY <1>5, <1>7, <3>1, <3>2
    <2> QED BY <2>1, <2>2
<1>8. ASSUME NEW r \in Readers, GetTotal(r) PROVE ListInv'
    <2>1. /\ reader[r].at # "idle" /\ totals' = totals
          /\ IF KeyOf(r) \in DOMAIN totals THEN TakeTotal(r) ELSE reader' = [reader EXCEPT ![r].at = "waiting"]
        BY <1>8 DEF GetTotal
    <2> QED BY <1>7, <2>1
<1>9. ASSUME NEW r \in Readers, GetTotalAgain(r) PROVE ListInv'
    <2>1. /\ reader[r].at # "idle" /\ totals' = totals
          /\ IF KeyOf(r) \in DOMAIN totals THEN TakeTotal(r) ELSE reader' = [reader EXCEPT ![r].at = "counting"]
        BY <1>9 DEF GetTotalAgain
    <2> QED BY <1>7, <2>1
<1>10. ASSUME NEW r \in Readers, LockKey(r) PROVE ListInv'
    <2> DEFINE a == [reader[r] EXCEPT !.at = "locked", !.locked = TRUE]
    <2>1. reader[r].at = "waiting" /\ totals' = totals /\ reader' = [reader EXCEPT ![r] = a]
        BY <1>1, <1>10 DEF LockKey
    <2>2. ReaderStands(a)
        BY <1>1, <2>1 DEF ReaderStands
    <2> HIDE DEF a
    <2> QED BY <1>5, <2>1, <2>2
<1>11. ASSUME NEW r \in Readers, Count(r) PROVE ListInv'
    <2> DEFINE m == ReadingOf(r)
               a == [reader[r] EXCEPT !.at = "counted", !.from = m, !.total = TotalOf(reader[r].q, m)]
    <2>1. reader[r].at = "counting" /\ totals' = totals /\ reader' = [reader EXCEPT ![r] = a]
        BY <1>1, <1>11 DEF Count, TotalOf
    <2>2. m.glued = reader[r].q.glued
        BY DEF ReadingOf
    <2> HIDE DEF m
    <2>3. ReaderStands(a)
        BY <1>1, <2>1, <2>2 DEF ReaderStands
    <2> HIDE DEF a
    <2> QED BY <1>5, <2>1, <2>3
<1>12. ASSUME NEW r \in Readers, InsertTotal(r) PROVE ListInv'
    <2> DEFINE key == KeyOf(r)
               a == [reader[r] EXCEPT !.at = "rows"]
    <2>1. /\ reader[r].at = "counted" /\ IsQuery(reader[r].q) /\ reader[r].from.glued = reader[r].q.glued
          /\ reader[r].total = TotalOf(reader[r].q, reader[r].from)
        BY <1>1, <1>12 DEF ReaderStands, InsertTotal
    <2>2. reader' = [reader EXCEPT ![r] = a]
        BY <1>1, <1>12 DEF InsertTotal
    <2>3. ReaderStands(a)
        BY <1>1, <2>1 DEF ReaderStands
    <2>4. totals' = [k \in DOMAIN totals \cup {key} |->
                        IF k = key THEN [total |-> reader[r].total, from |-> reader[r].from] ELSE totals[k]]
        BY <1>12 DEF InsertTotal
    <2>5. ASSUME NEW q, NEW us, IsQuery(q), CountKey(q, us) = key, reader[r].from.glued = q.glued
          PROVE  reader[r].total = TotalOf(q, reader[r].from)
        <3> DEFINE own == reader[r].q
                   found == reader[r].users
                   m == reader[r].from
        <3>1. IsQuery(q) /\ IsQuery(own) /\ CountKey(q, us) = CountKey(own, found) /\ q.glued = own.glued
            BY <2>1, <2>5 DEF KeyOf
        <3>2. reader[r].total = TotalOf(own, m)
            BY <2>1
        <3> HIDE DEF own, found, m
        <3>3. MatchesQuery(q, m) = MatchesQuery(own, m)
            BY <3>1, SameKeySameDiscs
        <3>4. reader[r].total = TotalOf(q, m)
            BY <3>2, <3>3 DEF TotalOf
        <3> QED BY <3>4 DEF m
    <2> HIDE DEF key
    <2>6. totals'[key].total = reader[r].total /\ totals'[key].from = reader[r].from
        BY <2>4
    <2>7. \A q, us : IsQuery(q) /\ CountKey(q, us) = key /\ totals'[key].from.glued = q.glued =>
                         totals'[key].total = TotalOf(q, totals'[key].from)
        BY <2>5, <2>6
    <2>8. ASSUME NEW k \in DOMAIN totals' PROVE TotalStands(k)'
        <3>1. CASE k = key
            BY <2>7, <3>1 DEF TotalStands
        <3>2. CASE k # key
            <4>1. k \in DOMAIN totals /\ totals'[k] = totals[k]
                BY <2>4, <3>2
            <4> QED BY <1>1, <4>1 DEF TotalStands
        <3> QED BY <3>1, <3>2
    <2>9. \A k \in DOMAIN totals' : TotalStands(k)'
        BY <2>8
    <2> HIDE DEF a
    <2>10. reader' = [s \in Readers |-> reader'[s]] /\ \A s \in Readers : ReaderStands(reader'[s])
        BY <2>2, <2>3, OneReader
    <2> QED BY <2>9, <2>10 DEF ListInv
<1>13. ASSUME NEW r \in Readers, Answer(r) PROVE ListInv'
    <2> DEFINE last == LastPage(reader[r].total)
               name == DumperName(reader[r].q, reader[r].users)
               query == [reader[r].q EXCEPT !.page = last, !.dumper = name]
               turned == [NoRequest EXCEPT !.at = "redirected", !.q = query]
    <2>1. reader[r].at = "rows" /\ totals' = totals
        BY <1>13 DEF Answer
    <2>2. reader' = [reader EXCEPT ![r] = turned] \/ reader' = [reader EXCEPT ![r] = NoRequest]
        BY <1>13 DEF Answer
    <2> HIDE DEF last, name
    <2>3. IsQuery(reader[r].q)
        BY <1>1, <2>1 DEF ReaderStands
    <2>4. IsQuery(query)
        BY <2>3 DEF IsQuery, QueryFields
    <2> HIDE DEF query
    <2>5. ReaderStands(turned)
        BY <2>4 DEF ReaderStands, NoRequest
    <2>6. ReaderStands(NoRequest)
        BY DEF ReaderStands, NoRequest
    <2> HIDE DEF turned
    <2> QED BY <1>5, <2>1, <2>2, <2>5, <2>6
<1>14. CASE ChangeCatalogue
    BY <1>1, <1>2, <1>14 DEF ChangeCatalogue
<1>15. CASE ExpireTotal
    <2>1. PICK key \in DOMAIN totals : totals' = [k \in DOMAIN totals \ {key} |-> totals[k]]
        BY <1>15 DEF ExpireTotal
    <2>2. reader' = reader
        BY <1>15 DEF ExpireTotal
    <2>3. ASSUME NEW k \in DOMAIN totals' PROVE TotalStands(k)'
        <3>1. k \in DOMAIN totals /\ totals'[k] = totals[k]
            BY <2>1
        <3> QED BY <1>1, <3>1 DEF TotalStands
    <2> QED BY <1>1, <2>2, <2>3 DEF ListInv
<1>16. CASE InvalidateTotals
    <2>1. DOMAIN totals' = {} /\ reader' = reader
        BY <1>16 DEF InvalidateTotals
    <2> QED BY <1>1, <2>1 DEF ListInv
<1>17. CASE UNCHANGED listVars
    BY <1>1, <1>2, <1>17 DEF listVars
<1> QED
    BY <1>3, <1>4, <1>6, <1>8, <1>9, <1>10, <1>11, <1>12, <1>13, <1>14, <1>15, <1>16, <1>17
    DEF ListNext

\* The total a request goes by is the number of discs that its query finds by
\* what the counting request read, at three moments, of hashes, users and discs,
\* whichever query and whichever request counted it, and however they overlap;
\* but for a quick search that shares its key with one cut elsewhere.
THEOREM TotalsAreShared == ASSUME ListAssumption PROVE ListSpec => []TotalIsOfTheQuery
<1>1. ListSpec => []ListInv
    BY ListInitially, ListStep, PTL DEF ListSpec
<1>2. ListInv => TotalIsOfTheQuery
    BY DEF ListInv, ReaderStands, TotalOf, TotalIsOfTheQuery
<1> QED BY <1>1, <1>2, PTL

-----------------------------------------------------------------------------
(* The lists of submissions: what became of each submission and each disc. *)

EntryRecords(discs) ==
    [type : {"Disc", "Edit"}, status : {"Legacy", "Pending", "Draft", "Rejected", "Approved"},
     target : {NoTarget} \cup discs, submitter : Dumpers \cup Viewers, decided : Nat]

\* What needs no target makes a disc; what can become a Draft is no edit.
EntryStands(e) ==
    /\ e \in EntryRecords(DOMAIN catalog)
    /\ e.status = "Draft" \/ e.target = NoTarget => e.type = "Disc"

\* The submission a disc was made from stays with it, and is older than what
\* came for the disc later.
CreatorStands(d) ==
    /\ d \in DOMAIN catalog /\ creator[d] \in DOMAIN entries
    /\ entries[creator[d]].type = "Disc" /\ entries[creator[d]].target = d /\ IsPublic(entries[creator[d]])
    /\ \A s \in DOMAIN entries \ moved : entries[s].target = d => s >= creator[d]

EntriesInv ==
    /\ \E n \in Nat : DOMAIN catalog = 1 .. n
    /\ \E n \in Nat : DOMAIN entries = 1 .. n /\ Len(entries) = n /\ entries = [s \in 1 .. n |-> entries[s]]
    /\ \A s \in DOMAIN entries : EntryStands(entries[s])
    /\ \A d \in DOMAIN creator : CreatorStands(d)

LEMMA EntriesInitially == ASSUME QueueListAssumption PROVE QueueListInit => EntriesInv
<1> SUFFICES ASSUME QueueListInit PROVE EntriesInv
    OBVIOUS
<1>1. entries = InitEntries /\ catalog = InitCatalog /\ DOMAIN creator = {}
    BY DEF QueueListInit
<1>2. InitEntries \in Seq(LegacyEntries) /\ InitCatalog \in Seq({"Active", "Disabled"}) /\ NoTarget \notin Nat
    BY DEF QueueListAssumption
<1>3. \E n \in Nat : DOMAIN catalog = 1 .. n
    BY <1>1, <1>2
<1>4. Len(entries) \in Nat /\ DOMAIN entries = 1 .. Len(entries) /\ entries = [s \in 1 .. Len(entries) |-> entries[s]]
    BY <1>1, <1>2
<1>5. ASSUME NEW s \in DOMAIN entries PROVE EntryStands(entries[s])
    <2>1. entries[s] \in LegacyEntries
        BY <1>1, <1>2
    <2>2. entries[s].target # NoTarget
        BY <1>1, <1>2, <1>3, <2>1 DEF LegacyEntries
    <2> QED BY <1>1, <2>1, <2>2 DEF LegacyEntries, EntryStands, EntryRecords
<1> QED BY <1>1, <1>3, <1>4, <1>5 DEF EntriesInv

\* What is numbered from 1 has as many numbers as its length.
LEMMA LengthOfNumbered ==
    ASSUME NEW n \in Nat, NEW f, f = [i \in 1 .. n |-> f[i]]
    PROVE  Len(f) = n
<1> DEFINE S == {f[i] : i \in 1 .. n}
<1>0. f \in [1 .. n -> S]
    OBVIOUS
<1>1. f \in Seq(S)
    <2> HIDE DEF S
    <2> QED BY <1>0
<1> HIDE DEF S
<1>2. Len(f) \in Nat /\ DOMAIN f = 1 .. Len(f)
    BY <1>1
<1> QED BY <1>2

\* What is done to a submission that is not public, and to no disc's number.
LEMMA OneEntry ==
    ASSUME QueueListAssumption, EntriesInv, NEW s \in DOMAIN entries, ~IsPublic(entries[s]), NEW e,
           e \in EntryRecords(DOMAIN catalog), e.type = entries[s].type,
           e.status = "Draft" \/ e.target = NoTarget => e.type = "Disc",
           entries' = [entries EXCEPT ![s] = e], DOMAIN catalog' = DOMAIN catalog, creator' = creator,
           moved \subseteq moved', e.target = entries[s].target \/ s \in moved'
    PROVE  EntriesInv'
<1>1. PICK n \in Nat : DOMAIN entries = 1 .. n /\ Len(entries) = n /\ entries = [r \in 1 .. n |-> entries[r]]
    BY DEF EntriesInv
<1>2. entries' = [r \in 1 .. n |-> IF r = s THEN e ELSE entries[r]]
    BY <1>1
<1>3. DOMAIN entries' = 1 .. n /\ Len(entries') = n /\ entries' = [r \in 1 .. n |-> entries'[r]]
    <2>1. entries' = [r \in 1 .. n |-> entries'[r]]
        BY <1>2
    <2> QED BY <1>2, <2>1, LengthOfNumbered
<1>4. ASSUME NEW r \in DOMAIN entries' PROVE EntryStands(entries[r])' 
    <2>1. entries'[r] = IF r = s THEN e ELSE entries[r]
        BY <1>2, <1>3
    <2>2. r # s => EntryStands(entries[r])
        BY <1>1, <1>3 DEF EntriesInv
    <2> QED BY <2>1, <2>2 DEF EntryStands
<1>5. ASSUME NEW d \in DOMAIN creator' PROVE CreatorStands(d)'
    <2>1. CreatorStands(d)
        BY DEF EntriesInv
    <2>2. creator[d] # s
        BY <2>1 DEF CreatorStands
    <2>3. entries'[creator[d]] = entries[creator[d]]
        BY <1>1, <1>2, <2>1, <2>2 DEF CreatorStands
    <2>4. ASSUME NEW r \in DOMAIN entries' \ moved', entries'[r].target = d PROVE r >= creator[d]
        <3>1. entries[r].target = d /\ r \in DOMAIN entries \ moved
            BY <1>1, <1>2, <2>4
        <3> QED BY <2>1, <3>1 DEF CreatorStands
    <2>5. creator[d] \in DOMAIN entries' /\ d \in DOMAIN catalog'
        BY <1>1, <1>3, <2>1 DEF CreatorStands
    <2> QED BY <2>1, <2>3, <2>4, <2>5 DEF CreatorStands, IsPublic
<1> QED BY <1>1, <1>3, <1>4, <1>5 DEF EntriesInv

\* The number of the next disc is nobody's.
LEMMA NextDisc ==
    ASSUME NEW n \in Nat, DOMAIN catalog = 1 .. n
    PROVE  Cardinality(DOMAIN catalog) + 1 = n + 1 /\ n + 1 \notin DOMAIN catalog
<1>1. Cardinality(1 .. n) = n
    BY FS_Interval
<1> QED BY <1>1

LEMMA DecidedIsANumber == ASSUME EntriesInv PROVE Decided \in Nat
<1>1. PICK n \in Nat : DOMAIN entries = 1 .. n
    BY DEF EntriesInv
<1>2. IsFiniteSet(1 .. n)
    BY FS_Interval
<1>3. IsFiniteSet({s \in DOMAIN entries : entries[s].decided > 0})
    BY <1>1, <1>2, FS_Subset
<1> QED BY <1>3, FS_CardinalityType DEF Decided

LEMMA EntriesSubmit ==
    ASSUME QueueListAssumption, EntriesInv, NEW u \in Dumpers, NEW type \in {"Disc", "Edit"},
           NEW target \in {NoTarget} \cup DOMAIN catalog, SubmitEntry(u, type, target)
    PROVE  EntriesInv'
<1> DEFINE e == [type |-> type, status |-> "Pending", target |-> target, submitter |-> u, decided |-> 0]
<1>1. PICK n \in Nat : DOMAIN entries = 1 .. n /\ Len(entries) = n /\ entries = [r \in 1 .. n |-> entries[r]]
    BY DEF EntriesInv
<1>2. entries' = Append(entries, e) /\ UNCHANGED <<catalog, creator, moved>>
    BY DEF SubmitEntry
<1>3. entries' = [r \in 1 .. n + 1 |-> IF r = n + 1 THEN e ELSE entries[r]]
    BY <1>1, <1>2 DEF Append
<1>4. EntryStands(e)
    <2>1. type # "Disc" => target # NoTarget
        BY DEF SubmitEntry
    <2> QED BY <2>1 DEF EntryStands, EntryRecords
<1> HIDE DEF e
<1>5. DOMAIN entries' = 1 .. n + 1 /\ Len(entries') = n + 1 /\ entries' = [r \in 1 .. n + 1 |-> entries'[r]]
    <2>1. entries' = [r \in 1 .. n + 1 |-> entries'[r]]
        BY <1>3
    <2> QED BY <1>3, <2>1, LengthOfNumbered
<1>6. ASSUME NEW r \in DOMAIN entries' PROVE EntryStands(entries[r])'
    <2>1. entries'[r] = IF r = n + 1 THEN e ELSE entries[r]
        BY <1>3, <1>5
    <2>2. r # n + 1 => EntryStands(entries[r])
        BY <1>1, <1>5 DEF EntriesInv
    <2> QED BY <1>2, <1>4, <2>1, <2>2 DEF EntryStands
<1>7. ASSUME NEW d \in DOMAIN creator' PROVE CreatorStands(d)'
    <2>1. CreatorStands(d)
        BY <1>2 DEF EntriesInv
    <2>2. creator[d] \in 1 .. n /\ entries'[creator[d]] = entries[creator[d]]
        BY <1>1, <1>3, <2>1 DEF CreatorStands
    <2>3. ASSUME NEW r \in DOMAIN entries' \ moved, entries'[r].target = d PROVE r >= creator[d]
        <3>1. CASE r = n + 1
            BY <2>2, <3>1
        <3>2. CASE r # n + 1
            <4>1. r \in DOMAIN entries \ moved /\ entries[r].target = d
                BY <1>1, <1>3, <1>5, <2>3, <3>2
            <4> QED BY <2>1, <4>1 DEF CreatorStands
        <3> QED BY <3>1, <3>2
    <2> QED BY <1>2, <1>5, <2>1, <2>2, <2>3 DEF CreatorStands, IsPublic
<1>8. n + 1 \in Nat /\ \E m \in Nat : DOMAIN catalog' = 1 .. m
    BY <1>2 DEF EntriesInv
<1> QED BY <1>2, <1>5, <1>6, <1>7, <1>8 DEF EntriesInv

LEMMA EntriesApprove ==
    ASSUME QueueListAssumption, EntriesInv, NEW s \in DOMAIN entries, NEW status, ApproveEntry(s, status)
    PROVE  EntriesInv'
<1>1. PICK n \in Nat : DOMAIN entries = 1 .. n /\ Len(entries) = n /\ entries = [r \in 1 .. n |-> entries[r]]
    BY DEF EntriesInv
<1>2. PICK m \in Nat : DOMAIN catalog = 1 .. m
    BY DEF EntriesInv
<1>3. Cardinality(DOMAIN catalog) + 1 = m + 1 /\ m + 1 \notin DOMAIN catalog
    BY <1>2, NextDisc
<1> DEFINE new == m + 1
           target == IF entries[s].target = NoTarget THEN new ELSE entries[s].target
           e == [entries[s] EXCEPT !.status = "Approved", !.target = target, !.decided = Decided + 1]
<1>4. EntryStands(entries[s]) /\ entries[s].status = "Pending" /\ ~IsPublic(entries[s])
    BY DEF EntriesInv, ApproveEntry, IsPublic
<1>5. /\ catalog' = [d \in DOMAIN catalog \cup {target} |-> IF d = target THEN status ELSE catalog[d]]
      /\ entries' = [entries EXCEPT ![s].status = "Approved", ![s].target = target, ![s].decided = Decided + 1]
      /\ creator' = IF target = new THEN [d \in DOMAIN creator \cup {new} |-> IF d = new THEN s ELSE creator[d]]
                     ELSE creator
      /\ moved' = moved
    BY <1>3 DEF ApproveEntry
<1>6. entries' = [entries EXCEPT ![s] = e]
    BY <1>1, <1>4, <1>5 DEF EntryStands, EntryRecords
<1>7. e.type = entries[s].type /\ e.status = "Approved" /\ e.target = target /\ e \in EntryRecords(DOMAIN catalog')
    <2>1. Decided + 1 \in Nat
        BY DecidedIsANumber
    <2>2. target \in DOMAIN catalog'
        BY <1>5
    <2> HIDE DEF target
    <2> QED BY <1>4, <2>1, <2>2 DEF EntryStands, EntryRecords
<1> HIDE DEF e
<1>8. CASE entries[s].target # NoTarget
    <2>1. target = entries[s].target /\ target \in DOMAIN catalog /\ target # new
        BY <1>3, <1>4, <1>8 DEF EntryStands, EntryRecords
    <2> HIDE DEF target
    <2>2. DOMAIN catalog' = DOMAIN catalog /\ creator' = creator
        BY <1>5, <2>1
    <2>3. e.status = "Draft" \/ e.target = NoTarget => e.type = "Disc"
        BY <1>7, <1>8, <2>1
    <2>4. e.target = entries[s].target
        BY <1>7, <2>1
    <2> QED BY <1>4, <1>5, <1>6, <1>7, <2>2, <2>3, <2>4, OneEntry
<1>9. CASE entries[s].target = NoTarget
    <2>1. target = new /\ entries[s].type = "Disc" /\ new \in Nat /\ new # NoTarget
        BY <1>4, <1>9 DEF EntryStands, QueueListAssumption
    <2> HIDE DEF target
    <2>2. entries' = [r \in 1 .. n |-> IF r = s THEN e ELSE entries[r]]
        BY <1>1, <1>6
    <2>3. DOMAIN entries' = 1 .. n /\ Len(entries') = n /\ entries' = [r \in 1 .. n |-> entries'[r]]
        <3>1. entries' = [r \in 1 .. n |-> entries'[r]]
            BY <2>2
        <3> QED BY <2>2, <3>1, LengthOfNumbered
    <2>4. DOMAIN catalog' = 1 .. new /\ DOMAIN catalog \subseteq DOMAIN catalog'
        BY <1>2, <1>5, <2>1
    <2>5. creator' = [d \in DOMAIN creator \cup {new} |-> IF d = new THEN s ELSE creator[d]]
        BY <1>5, <2>1
    <2>6. ASSUME NEW r \in DOMAIN entries' PROVE EntryStands(entries[r])'
        <3>1. entries'[r] = IF r = s THEN e ELSE entries[r]
            BY <2>2, <2>3
        <3>2. r # s => EntryStands(entries[r])
            BY <1>1, <2>3 DEF EntriesInv
        <3>3. CASE r = s
            <4>1. entries'[r] = e /\ e.status # "Draft" /\ e.target # NoTarget
                BY <1>7, <2>1, <3>1, <3>3
            <4> QED BY <1>7, <4>1 DEF EntryStands
        <3>4. CASE r # s
            BY <2>4, <3>1, <3>2, <3>4 DEF EntryStands, EntryRecords
        <3> QED BY <3>3, <3>4
    <2>7. ASSUME NEW r \in DOMAIN entries', entries'[r].target = new PROVE r = s
        <3>1. r # s => entries'[r].target \in {NoTarget} \cup DOMAIN catalog
            BY <1>1, <2>2, <2>3 DEF EntriesInv, EntryStands, EntryRecords
        <3> QED BY <1>3, <2>1, <2>7, <3>1
    <2>8. CreatorStands(new)'
        <3>1. creator'[new] = s /\ entries'[s] = e /\ s \in DOMAIN entries' /\ new \in DOMAIN catalog'
            BY <1>1, <2>2, <2>3, <2>4, <2>5, <2>1
        <3>2. s \in Int
            BY <1>1
        <3> HIDE DEF new
        <3>3. IsPublic(e)
            BY <1>7 DEF IsPublic
        <3> QED BY <1>7, <2>1, <2>7, <3>1, <3>2, <3>3 DEF CreatorStands, IsPublic
    <2>9. ASSUME NEW d \in DOMAIN creator, d # new PROVE CreatorStands(d)'
        <3>1. CreatorStands(d) /\ creator'[d] = creator[d]
            BY <2>5, <2>9 DEF EntriesInv
        <3>2. creator[d] # s /\ entries'[creator[d]] = entries[creator[d]] /\ creator[d] \in DOMAIN entries'
            BY <1>1, <1>4, <2>2, <3>1 DEF CreatorStands
        <3>3. ASSUME NEW r \in DOMAIN entries' \ moved, entries'[r].target = d PROVE r >= creator[d]
            <4>1. r # s
                BY <1>7, <2>1, <2>2, <2>3, <2>9, <3>3
            <4>2. entries[r].target = d /\ r \in DOMAIN entries \ moved
                BY <1>1, <2>2, <3>3, <4>1
            <4> QED BY <3>1, <4>2 DEF CreatorStands
        <3> QED BY <1>5, <2>4, <3>1, <3>2, <3>3 DEF CreatorStands, IsPublic
    <2>10. ASSUME NEW d \in DOMAIN creator' PROVE CreatorStands(d)'
        BY <2>5, <2>8, <2>9
    <2>11. (\E k \in Nat : DOMAIN catalog' = 1 .. k) /\ n \in Nat
        BY <2>1, <2>4
    <2> QED BY <2>3, <2>6, <2>10, <2>11 DEF EntriesInv
<1> QED BY <1>8, <1>9

EntriesKept == entries' = entries /\ catalog' = catalog /\ creator' = creator /\ moved' = moved

LEMMA EntriesStep == ASSUME QueueListAssumption, EntriesInv, [QueueListNext]_queueListVars PROVE EntriesInv'
<1>1. PICK n \in Nat : DOMAIN entries = 1 .. n /\ Len(entries) = n /\ entries = [r \in 1 .. n |-> entries[r]]
    BY DEF EntriesInv
<1>2. ASSUME NEW s \in DOMAIN entries PROVE EntryStands(entries[s])
    BY <1>2 DEF EntriesInv
<1>3. ASSUME NEW s \in DOMAIN entries, ReturnEntry(s) PROVE EntriesInv'
    <2> DEFINE e == [entries[s] EXCEPT !.status = "Draft"]
    <2>1. /\ entries' = [entries EXCEPT ![s] = e] /\ UNCHANGED <<catalog, creator, moved>>
          /\ ~IsPublic(entries[s]) /\ entries[s].type = "Disc"
        BY <1>1, <1>3 DEF ReturnEntry, IsPublic
    <2>2. /\ e \in EntryRecords(DOMAIN catalog) /\ e.type = entries[s].type /\ e.target = entries[s].target
        BY <1>2 DEF EntryStands, EntryRecords
    <2> HIDE DEF e
    <2> QED BY <2>1, <2>2, OneEntry
<1>4. ASSUME NEW s \in DOMAIN entries, RejectEntry(s) PROVE EntriesInv'
    <2> DEFINE e == [entries[s] EXCEPT !.status = "Rejected"]
    <2>1. /\ entries' = [entries EXCEPT ![s] = e] /\ UNCHANGED <<catalog, creator, moved>>
          /\ ~IsPublic(entries[s])
        BY <1>1, <1>4 DEF RejectEntry, IsPublic
    <2>2. /\ e \in EntryRecords(DOMAIN catalog) /\ e.type = entries[s].type /\ e.target = entries[s].target
          /\ e.status = "Draft" \/ e.target = NoTarget => e.type = "Disc"
        BY <1>2 DEF EntryStands, EntryRecords
    <2> HIDE DEF e
    <2> QED BY <2>1, <2>2, OneEntry
<1>5. ASSUME NEW s \in DOMAIN entries, NEW target \in {NoTarget} \cup DOMAIN catalog, ResubmitEntry(s, target)
      PROVE  EntriesInv'
    <2> DEFINE e == [entries[s] EXCEPT !.status = "Pending", !.target = target]
    <2>1. /\ entries' = [entries EXCEPT ![s].status = "Pending", ![s].target = target]
          /\ UNCHANGED <<catalog, creator>> /\ ~IsPublic(entries[s]) /\ entries[s].status = "Draft"
          /\ moved' = IF target = entries[s].target THEN moved ELSE moved \cup {s}
        BY <1>5 DEF ResubmitEntry, IsPublic
    <2>2. entries' = [entries EXCEPT ![s] = e]
        BY <1>1, <1>2, <2>1 DEF EntryStands, EntryRecords
    <2>3. /\ e \in EntryRecords(DOMAIN catalog) /\ e.type = entries[s].type /\ e.target = target
          /\ e.type = "Disc"
        BY <1>2, <2>1 DEF EntryStands, EntryRecords
    <2>4. moved \subseteq moved' /\ (e.target = entries[s].target \/ s \in moved')
        BY <2>1, <2>3
    <2> HIDE DEF e
    <2> QED BY <2>1, <2>2, <2>3, <2>4, OneEntry
<1>6. ASSUME NEW s \in DOMAIN entries, NEW target \in {NoTarget} \cup DOMAIN catalog, RetargetEntry(s, target)
      PROVE  EntriesInv'
    <2> DEFINE e == [entries[s] EXCEPT !.target = target]
    <2>1. /\ entries' = [entries EXCEPT ![s].target = target]
          /\ UNCHANGED <<catalog, creator>> /\ ~IsPublic(entries[s]) /\ entries[s].type = "Disc"
          /\ moved' = moved \cup {s}
        BY <1>6 DEF RetargetEntry, IsPublic
    <2>2. entries' = [entries EXCEPT ![s] = e]
        BY <1>1, <1>2, <2>1 DEF EntryStands, EntryRecords
    <2>3. /\ e \in EntryRecords(DOMAIN catalog) /\ e.type = entries[s].type
        BY <1>2, <2>1 DEF EntryStands, EntryRecords
    <2>4. moved \subseteq moved' /\ s \in moved'
        BY <2>1
    <2> HIDE DEF e
    <2> QED BY <2>1, <2>2, <2>3, <2>4, OneEntry
<1>7. ASSUME EntriesKept PROVE EntriesInv'
    BY <1>7, ZenonT(30) DEF EntriesKept, EntriesInv, EntryStands, CreatorStands, IsPublic
<1>8. ASSUME NEW v \in Viewers, NEW list \in Lists, NEW page, Asks(v, list, page) PROVE EntriesInv'
    BY <1>7, <1>8 DEF Asks, EntriesKept
<1>9. CASE ReadsRows
    BY <1>7, <1>9 DEF ReadsRows, EntriesKept
<1>10. CASE ReadsCount
    BY <1>7, <1>10 DEF ReadsCount, EntriesKept
<1>11. CASE UNCHANGED queueListVars
    BY <1>7, <1>11 DEF queueListVars, EntriesKept
<1> QED
    BY <1>3, <1>4, <1>5, <1>6, <1>8, <1>9, <1>10, <1>11, EntriesSubmit, EntriesApprove DEF QueueListNext

\* What a list shows and what a page opens are decided by two different pieces
\* of code: they agree, but for the rejection that ListsShowWhatOpens names.
THEOREM ListsAgreeWithPages == ASSUME QueueListAssumption PROVE QueueListSpec => []ListsShowWhatOpens
<1>1. QueueListSpec => []EntriesInv
    BY EntriesInitially, EntriesStep, PTL DEF QueueListSpec
<1>2. EntriesInv => ListsShowWhatOpens
    <2> DEFINE everything == [disc |-> NoTarget, status |-> "All Statuses", kind |-> "", sort |-> "date"]
               history(d) == [everything EXCEPT !.disc = d]
    <2> SUFFICES ASSUME EntriesInv, NEW v \in Viewers, NEW s \in DOMAIN entries
                 PROVE  /\ s \in Listed(v, everything)
                              <=> \/ Opens(v, s)
                                  \/ /\ entries[s].status = "Rejected" /\ entries[s].submitter = v
                                     /\ ~SeesDisc(v, entries[s].target)
                        /\ \A d \in DOMAIN catalog :
                               SeesDisc(v, d) /\ s \in Listed(v, history(d)) => Opens(v, s)
        BY DEF ListsShowWhatOpens
    <2>1. EntryStands(entries[s])
        BY DEF EntriesInv
    <2>2. ASSUME SeesAllDrafts(v) PROVE SeesDisc(v, entries[s].target)
        BY <2>2 DEF SeesAllDrafts, SeesDisc, SeesDisabled
    <2>3. Wanted(everything, s)
        BY DEF Wanted
    <2>4. s \in Listed(v, everything) <=> MayBeListed(v, s)
        BY <2>3 DEF Listed
    <2>5. MayBeListed(v, s)
             <=> \/ Opens(v, s)
                 \/ /\ entries[s].status = "Rejected" /\ entries[s].submitter = v
                    /\ ~SeesDisc(v, entries[s].target)
        <3> HIDE DEF everything
        <3>1. entries[s].status = "Draft" => entries[s].type = "Disc"
            BY <2>1 DEF EntryStands
        <3> QED BY <2>2, <3>1 DEF MayBeListed, Opens
    <2>6. ASSUME NEW d \in DOMAIN catalog, SeesDisc(v, d), s \in Listed(v, history(d)) PROVE Opens(v, s)
        <3>1. d # NoTarget
            BY DEF EntriesInv, QueueListAssumption
        <3>2. history(d).disc = d
            OBVIOUS
        <3>3. entries[s].target = d /\ IsPublic(entries[s])
            <4> HIDE DEF history
            <4> QED BY <2>6, <3>1, <3>2 DEF Listed, Wanted
        <3> QED BY <2>6, <3>3 DEF Opens, IsPublic
    <2> QED BY <2>4, <2>5, <2>6
<1> QED BY <1>1, <1>2, PTL

IsNewDisc(s) == KindOf(s) = "New Disc"

\* The history of a disc has one New Disc, the submission that made the disc.
THEOREM NewDiscIsOne == ASSUME QueueListAssumption PROVE QueueListSpec => []NewDiscMadeTheDisc
<1>1. QueueListSpec => []EntriesInv
    BY EntriesInitially, EntriesStep, PTL DEF QueueListSpec
<1>2. EntriesInv => NewDiscMadeTheDisc
    <2> SUFFICES ASSUME EntriesInv PROVE NewDiscMadeTheDisc
        OBVIOUS
    <2>1. PICK n \in Nat : DOMAIN entries = 1 .. n
        BY DEF EntriesInv
    <2>2. ASSUME NEW d \in DOMAIN catalog PROVE d # NoTarget
        BY <2>2 DEF EntriesInv, QueueListAssumption
    <2>3. ASSUME NEW d \in DOMAIN catalog, NEW s \in History(d), IsNewDisc(s)
          PROVE  s \in 1 .. n /\ \A r \in History(d) : s <= r
        <3>1. entries[s].target = d /\ s \in 1 .. n
            BY <2>1, <2>3 DEF History
        <3>2. IsOldest(s)
            BY <2>2, <2>3, <3>1, Zenon DEF KindOf, IsNewDisc
        <3> QED BY <3>1, <3>2 DEF IsOldest
    <2>4. ASSUME NEW d \in DOMAIN catalog
          PROVE  Cardinality({s \in History(d) : entries[s].type = "Disc" /\ IsNewDisc(s)}) <= 1
        <3> DEFINE made == {s \in History(d) : entries[s].type = "Disc" /\ IsNewDisc(s)}
        <3> SUFFICES Cardinality(made) <= 1
            OBVIOUS
        <3>1. ASSUME NEW r \in made, NEW s \in made PROVE r = s
            BY <2>3
        <3> HIDE DEF made
        <3>2. CASE made = {}
            BY <3>2, FS_EmptySet
        <3>3. CASE made # {}
            <4>1. PICK r \in made : made = {r}
                BY <3>1, <3>3
            <4>2. Cardinality(made) = 1
                BY <4>1, FS_Singleton, Zenon
            <4> QED BY <4>2
        <3> QED BY <3>2, <3>3
    <2>5. ASSUME NEW d \in DOMAIN creator, \A s \in moved \cap History(d) : s > creator[d], NEW s \in History(d)
          PROVE  IsNewDisc(s) <=> s = creator[d]
        <3>1. CreatorStands(d)
            BY DEF EntriesInv
        <3>2. creator[d] \in History(d) /\ creator[d] \in 1 .. n /\ d \in DOMAIN catalog
            BY <2>1, <3>1 DEF CreatorStands, History
        <3>3. ASSUME NEW r \in History(d) PROVE r >= creator[d] /\ r \in 1 .. n
            <4>1. r \in 1 .. n /\ entries[r].target = d
                BY <2>1 DEF History
            <4> QED BY <2>1, <2>5, <3>1, <3>2, <4>1 DEF CreatorStands
        <3>4. IsNewDisc(creator[d])
            <4>1. IsOldest(creator[d])
                BY <3>1, <3>2, <3>3 DEF IsOldest, CreatorStands
            <4> QED BY <3>1, <4>1 DEF KindOf, CreatorStands, IsNewDisc
        <3>5. IsNewDisc(s) => s <= creator[d] /\ s >= creator[d]
            BY <2>3, <3>2, <3>3
        <3> QED BY <3>2, <3>3, <3>4, <3>5
    <2> QED BY <2>4, <2>5, Zenon DEF NewDiscMadeTheDisc, IsNewDisc
<1> QED BY <1>1, <1>2, PTL

-----------------------------------------------------------------------------
(* The lists of submissions: the rows of a page and their number. *)

CountOf(q) == Cardinality(Counted(q.viewer, q.list))
LastPageOf(n) == IF Pages(n) = 0 THEN 1 ELSE Pages(n)
RowsOf(n, page) ==
    LET left == n - (page - 1) * PageLength IN
    IF left > PageLength THEN PageLength ELSE IF left < 0 THEN 0 ELSE left

\* What a reader has read of a queue that did not change is of that queue, and
\* the page that a redirect leads to is one of its pages.
ReaderTypes(q) ==
    /\ DOMAIN q = {"step", "viewer", "list", "page", "turns", "still", "rows", "count"}
    /\ q.step \in {"away", "asked", "read", "redirected", "shown"}
    /\ q.page \in Nat \ {0} /\ q.turns \in {0, 1} /\ q.still \in BOOLEAN
    /\ q.step = "asked" => q.turns = 0

HasRead(q) ==
    /\ q.step = "shown" /\ q.still =>
          q.count \in Nat /\ Len(q.rows) = RowsOf(q.count, q.page) /\ q.page <= LastPageOf(q.count)

IsReading(q) ==
    q.still =>
    /\ q.step = "read" => Len(q.rows) = RowsOf(CountOf(q), q.page)
    /\ q.step \in {"redirected", "read"} /\ q.turns = 1 => q.page <= LastPageOf(CountOf(q))

PageInv == ReaderTypes(queueReader) /\ HasRead(queueReader) /\ IsReading(queueReader)

\* The last page is the one that holds the last row.
LEMMA PagesHoldRows ==
    ASSUME QueueListAssumption, NEW n \in Nat
    PROVE  /\ Pages(n) \in Nat /\ LastPageOf(n) \in Nat \ {0}
           /\ \A page \in Nat \ {0} :
                 page <= LastPageOf(n) /\ RowsOf(n, page) = 0 => n = 0
<1> DEFINE L == PageLength
           m == n + L - 1
           d == m \div L
<1>1. L \in Nat \ {0} /\ m \in Nat
    BY DEF QueueListAssumption
<1>2. d \in Nat /\ d * L <= m
    <2> HIDE DEF L, m
    <2> QED BY <1>1, SMT
<1>3. Pages(n) = d
    BY DEF Pages
<1> HIDE DEF d
<1>4. LastPageOf(n) = IF d = 0 THEN 1 ELSE d
    BY <1>3 DEF LastPageOf
<1>5. ASSUME NEW page \in Nat \ {0}, page <= LastPageOf(n), RowsOf(n, page) = 0 PROVE n = 0
    <2> DEFINE before == (page - 1) * L
    <2>1. n - before <= 0
        <3>1. before \in Int
            BY <1>1
        <3> HIDE DEF before
        <3> QED BY <1>1, <1>5, <3>1 DEF RowsOf, before
    <2>2. CASE page = 1
        <3>1. before = 0
            BY <1>1, <2>2
        <3> QED BY <2>1, <3>1
    <2>3. CASE page # 1
        <3>1. page <= d
            BY <1>2, <1>4, <1>5, <2>3
        <3>2. page * L <= d * L
            <4> HIDE DEF L
            <4> QED BY <1>1, <1>2, <3>1, SMT
        <3>3. page * L = before + L /\ before \in Int /\ page * L \in Int /\ d * L \in Int
            BY <1>1, <1>2
        <3> HIDE DEF before
        <3> QED BY <1>1, <1>2, <2>1, <3>2, <3>3
    <2> QED BY <2>2, <2>3
<1> QED BY <1>2, <1>3, <1>4, <1>5

LEMMA CountIsANumber ==
    ASSUME EntriesInv, NEW v, NEW list
    PROVE  Cardinality(Counted(v, list)) \in Nat /\ Listed(v, list) = Counted(v, list)
<1>1. PICK n \in Nat : DOMAIN entries = 1 .. n
    BY DEF EntriesInv
<1>2. IsFiniteSet(1 .. n)
    BY FS_Interval
<1>3. IsFiniteSet(Counted(v, list))
    BY <1>1, <1>2, FS_Subset DEF Counted
<1> QED BY <1>3, FS_CardinalityType DEF Counted, Listed

\* A page of an order holds what is left of it.
LEMMA RowsOfPage ==
    ASSUME QueueListAssumption, NEW list, NEW rows, Cardinality(rows) \in Nat, NEW order \in Orders(list, rows),
           NEW page \in Nat \ {0}
    PROVE  Len(PageOf(order, page)) = RowsOf(Cardinality(rows), page)
<1> DEFINE n == Cardinality(rows)
           first == (page - 1) * PageLength
           rest == IF n - first < PageLength THEN n - first ELSE PageLength
<1>1. n \in Nat /\ PageLength \in Nat \ {0} /\ first \in Int
    BY DEF QueueListAssumption
<1>2. Len(order) = n
    <2>1. order \in [1 .. n -> rows]
        BY DEF Orders, SetToSeqs
    <2> HIDE DEF n
    <2>2. order = [i \in 1 .. n |-> order[i]]
        BY <2>1
    <2> QED BY <1>1, <2>2, LengthOfNumbered
<1>3. PageOf(order, page) = [i \in 1 .. rest |-> order[first + i]]
    BY <1>2 DEF PageOf
<1>4. RowsOf(n, page) = IF rest < 0 THEN 0 ELSE rest
    <2> HIDE DEF n, first
    <2> QED BY <1>1 DEF RowsOf, first
<1> HIDE DEF n, first
<1>5. rest \in Int
    BY <1>1
<1>6. 1 .. rest = 1 .. IF rest < 0 THEN 0 ELSE rest
    <2> HIDE DEF rest
    <2> QED BY <1>5
<1> DEFINE length == IF rest < 0 THEN 0 ELSE rest
<1>7. length \in Nat
    BY <1>5
<1>8. PageOf(order, page) = [i \in 1 .. length |-> order[first + i]]
    BY <1>3, <1>6
<1> HIDE DEF length
<1>9. PageOf(order, page) = [i \in 1 .. length |-> PageOf(order, page)[i]]
    BY <1>8
<1>10. Len(PageOf(order, page)) = length
    BY <1>7, <1>9, LengthOfNumbered
<1> QED BY <1>4, <1>10 DEF length, n

LEMMA SameQueue ==
    ASSUME entries' = entries, catalog' = catalog
    PROVE  /\ \A v, list : Counted(v, list)' = Counted(v, list)
           /\ \A q : CountOf(q)' = CountOf(q)
<1>1. ASSUME NEW s PROVE KindOf(s)' = KindOf(s)
    <2>1. ASSUME NEW d PROVE History(d)' = History(d)
        BY DEF History, IsPublic
    <2>2. IsOldest(s)' = IsOldest(s)
        BY <2>1 DEF IsOldest
    <2> QED BY <2>2, Zenon DEF KindOf, IsPublic
<1>2. ASSUME NEW v, NEW s PROVE MayBeListed(v, s)' = MayBeListed(v, s)
    <2>1. ASSUME NEW d PROVE SeesDisc(v, d)' = SeesDisc(v, d)
        BY DEF SeesDisc, SeesDisabled
    <2> QED BY <2>1, Zenon DEF MayBeListed, SeesAllDrafts
<1>3. ASSUME NEW list, NEW s PROVE Wanted(list, s)' = Wanted(list, s)
    BY <1>1, Zenon DEF Wanted, IsPublic
<1>4. ASSUME NEW v, NEW list PROVE Counted(v, list)' = Counted(v, list)
    BY <1>2, <1>3, Zenon DEF Counted
<1>5. \A q : CountOf(q)' = CountOf(q)
    BY <1>4, Zenon DEF CountOf
<1> QED BY <1>4, <1>5

LEMMA PageInitially == QueueListInit => PageInv
    BY DEF QueueListInit, NoReader, PageInv, ReaderTypes, HasRead, IsReading

\* A change of the queue says nothing about what was read before.
LEMMA PageChanged == ASSUME PageInv, Changed PROVE PageInv'
<1>1. CASE queueReader.step = "away"
    <2>1. queueReader' = queueReader
        BY <1>1 DEF Changed
    <2> QED BY <1>1, <2>1 DEF PageInv, ReaderTypes, HasRead, IsReading
<1>2. CASE queueReader.step # "away"
    <2>1. queueReader' = [queueReader EXCEPT !.still = FALSE]
        BY <1>2 DEF Changed
    <2>2. queueReader'.still = FALSE
        BY <2>1 DEF PageInv, ReaderTypes
    <2>3. ReaderTypes(queueReader)'
        BY <2>1 DEF PageInv, ReaderTypes
    <2> QED BY <2>2, <2>3 DEF PageInv, HasRead, IsReading
<1> QED BY <1>1, <1>2

LEMMA PageStep ==
    ASSUME QueueListAssumption, EntriesInv, PageInv, [QueueListNext]_queueListVars
    PROVE  PageInv'
<1>1. CASE Changed
    BY <1>1, PageChanged
<1>2. ASSUME NEW v \in Viewers, NEW list \in Lists, NEW page \in 1 .. Pages(MaxEntries), Asks(v, list, page)
      PROVE  PageInv'
    <2>1. Pages(MaxEntries) \in Nat
        BY PagesHoldRows DEF QueueListAssumption
    <2>2. page \in Nat \ {0}
        BY <2>1
    <2>3. queueReader' = [NoReader EXCEPT !.step = "asked", !.viewer = v, !.list = list, !.page = page]
        BY <1>2 DEF Asks
    <2> QED BY <2>2, <2>3 DEF NoReader, PageInv, ReaderTypes, HasRead, IsReading
<1>3. CASE ReadsRows
    <2>1. entries' = entries /\ catalog' = catalog /\ queueReader.step \in {"asked", "redirected"}
        BY <1>3 DEF ReadsRows
    <2> DEFINE q == queueReader
               n == CountOf(q)
    <2>2. PICK order \in Orders(q.list, Counted(q.viewer, q.list)) :
              queueReader' = [q EXCEPT !.step = "read", !.rows = PageOf(order, q.page)]
        BY <1>3, CountIsANumber DEF ReadsRows
    <2>3. n \in Nat /\ q.page \in Nat \ {0}
        BY CountIsANumber DEF CountOf, PageInv, ReaderTypes
    <2>4. Len(PageOf(order, q.page)) = RowsOf(n, q.page)
        BY <2>3, RowsOfPage DEF CountOf
    <2>5. /\ queueReader'.step = "read" /\ queueReader'.rows = PageOf(order, q.page)
          /\ queueReader'.viewer = q.viewer /\ queueReader'.list = q.list /\ queueReader'.page = q.page
          /\ queueReader'.turns = q.turns /\ queueReader'.still = q.still /\ DOMAIN queueReader' = DOMAIN q
        BY <2>2 DEF PageInv, ReaderTypes
    <2>6. CountOf(queueReader)' = n
        <3>1. PICK v, list : v = q.viewer /\ list = q.list
            OBVIOUS
        <3>2. Counted(v, list)' = Counted(v, list)
            BY <2>1, SameQueue, Zenon
        <3>3. CountOf(queueReader)' = Cardinality(Counted(v, list)')
            BY <2>5, <3>1 DEF CountOf
        <3> QED BY <3>1, <3>2, <3>3 DEF CountOf
    <2>7. ReaderTypes(queueReader)'
        BY <2>5 DEF PageInv, ReaderTypes
    <2>8. HasRead(queueReader)'
        BY <2>5 DEF HasRead
    <2>9. IsReading(queueReader)'
        <3>1. q.still /\ q.turns = 1 => q.page <= LastPageOf(n)
            BY <2>1 DEF PageInv, IsReading, ReaderTypes
        <3> HIDE DEF n, q
        <3> QED BY <2>4, <2>5, <2>6, <3>1 DEF IsReading
    <2> QED BY <2>7, <2>8, <2>9 DEF PageInv
<1>4. CASE ReadsCount
    <2> DEFINE q == queueReader
               n == CountOf(q)
    <2>1. /\ entries' = entries /\ catalog' = catalog /\ q.step = "read"
          /\ queueReader' =
                IF q.page > LastPageOf(n)
                THEN [q EXCEPT !.step = "redirected", !.page = LastPageOf(n), !.rows = <<>>,
                               !.turns = IF q.still THEN q.turns + 1 ELSE 0, !.still = TRUE]
                ELSE [q EXCEPT !.step = "shown", !.count = n]
        BY <1>4 DEF ReadsCount, CountOf, LastPageOf
    <2>2. n \in Nat /\ LastPageOf(n) \in Nat \ {0}
        BY CountIsANumber, PagesHoldRows DEF CountOf
    <2>3. /\ ReaderTypes(q)
          /\ q.still => Len(q.rows) = RowsOf(n, q.page) /\ (q.turns = 1 => q.page <= LastPageOf(n))
        BY <2>1 DEF PageInv, IsReading
    <2>4. CASE q.page > LastPageOf(n)
        <3>1. /\ queueReader'.step = "redirected" /\ queueReader'.page = LastPageOf(n)
              /\ queueReader'.turns = (IF q.still THEN q.turns + 1 ELSE 0) /\ queueReader'.still = TRUE
              /\ queueReader'.viewer = q.viewer /\ queueReader'.list = q.list
              /\ DOMAIN queueReader' = DOMAIN q
            <4> HIDE DEF n
            <4> QED BY <2>1, <2>3, <2>4 DEF ReaderTypes
        <3>2. q.still => q.turns = 0
            <4> HIDE DEF n
            <4> QED BY <2>2, <2>3, <2>4 DEF ReaderTypes
        <3>3. CountOf(queueReader)' = n
            <4>1. PICK v, list : v = q.viewer /\ list = q.list
                OBVIOUS
            <4>2. Counted(v, list)' = Counted(v, list)
                BY <2>1, SameQueue, Zenon
            <4>3. CountOf(queueReader)' = Cardinality(Counted(v, list)')
                BY <3>1, <4>1 DEF CountOf
            <4> QED BY <4>1, <4>2, <4>3 DEF CountOf
        <3>4. ReaderTypes(queueReader)'
            <4>1. queueReader'.turns \in {0, 1} /\ DOMAIN q = DOMAIN queueReader'
                BY <2>3, <3>1, <3>2 DEF ReaderTypes
            <4>2. queueReader'.page \in Nat \ {0} /\ queueReader'.still \in BOOLEAN
                BY <2>2, <3>1
            <4> HIDE DEF n
            <4> QED BY <2>3, <3>1, <4>1, <4>2 DEF ReaderTypes
        <3>5. HasRead(queueReader)'
            BY <3>1 DEF HasRead
        <3>6. IsReading(queueReader)'
            <4>1. queueReader'.page <= LastPageOf(n)
                BY <2>2, <3>1
            <4> HIDE DEF n
            <4> QED BY <3>1, <3>3, <4>1 DEF IsReading
        <3> QED BY <3>4, <3>5, <3>6 DEF PageInv
    <2>5. CASE ~(q.page > LastPageOf(n))
        <3>1. /\ queueReader'.step = "shown" /\ queueReader'.page = q.page
              /\ queueReader'.turns = q.turns /\ queueReader'.still = q.still
              /\ queueReader'.rows = q.rows /\ queueReader'.count = n
              /\ DOMAIN queueReader' = DOMAIN q
            <4> HIDE DEF n
            <4> QED BY <2>1, <2>3, <2>5 DEF ReaderTypes
        <3>2. q.page <= LastPageOf(n)
            <4> HIDE DEF n
            <4> QED BY <2>2, <2>3, <2>5 DEF ReaderTypes
        <3>3. ReaderTypes(queueReader)'
            BY <2>3, <3>1 DEF ReaderTypes
        <3>4. HasRead(queueReader)'
            <4> HIDE DEF n
            <4> QED BY <2>2, <2>3, <3>1, <3>2 DEF HasRead
        <3>5. IsReading(queueReader)'
            BY <3>1 DEF IsReading
        <3> QED BY <3>3, <3>4, <3>5 DEF PageInv
    <2> QED BY <2>4, <2>5
<1>5. ASSUME NEW u \in Dumpers, NEW type, NEW target, SubmitEntry(u, type, target) PROVE Changed
    BY <1>5 DEF SubmitEntry
<1>6. ASSUME NEW s, NEW target, NEW status,
             \/ ReturnEntry(s) \/ RejectEntry(s) \/ ResubmitEntry(s, target) \/ RetargetEntry(s, target)
             \/ ApproveEntry(s, status)
      PROVE  Changed
    BY <1>6, Zenon DEF ReturnEntry, RejectEntry, ResubmitEntry, RetargetEntry, ApproveEntry
<1>7. CASE UNCHANGED queueListVars
    <2>1. entries' = entries /\ catalog' = catalog /\ queueReader' = queueReader
        BY <1>7 DEF queueListVars
    <2>2. \A r : CountOf(r)' = CountOf(r)
        BY <2>1, SameQueue
    <2> QED BY <2>1, <2>2 DEF PageInv, ReaderTypes, HasRead, IsReading
<1> QED
    <2>1. QueueListNext => PageInv'
        BY <1>1, <1>2, <1>3, <1>4, <1>5, <1>6, Zenon DEF QueueListNext
    <2> QED BY <1>7, <2>1

\* A queue that does not change between the two reads is shown page by page,
\* and a reader is redirected once at most.
THEOREM PagesAreOfTheQueue == ASSUME QueueListAssumption PROVE QueueListSpec => []PageIsOfTheQueue
<1>1. QueueListSpec => [](EntriesInv /\ PageInv)
    BY EntriesInitially, EntriesStep, PageInitially, PageStep, PTL DEF QueueListSpec
<1>2. PageInv => PageIsOfTheQueue
    <2> SUFFICES ASSUME PageInv PROVE PageIsOfTheQueue
        OBVIOUS
    <2>1. queueReader.step \in {"redirected", "read"} => queueReader.turns <= 1
        BY DEF PageInv, ReaderTypes
    <2>2. ASSUME queueReader.step = "shown", queueReader.still
          PROVE  /\ Len(queueReader.rows) = RowsOf(queueReader.count, queueReader.page)
                 /\ queueReader.rows = <<>> => queueReader.count = 0
        <3>1. /\ queueReader.count \in Nat /\ queueReader.page \in Nat \ {0}
              /\ Len(queueReader.rows) = RowsOf(queueReader.count, queueReader.page)
              /\ queueReader.page <= LastPageOf(queueReader.count)
            BY <2>2 DEF PageInv, HasRead, ReaderTypes
        <3>2. queueReader.rows = <<>> => RowsOf(queueReader.count, queueReader.page) = 0
            BY <3>1
        <3> QED BY <3>1, <3>2, PagesHoldRows
    <2> QED BY <2>1, <2>2 DEF PageIsOfTheQueue, RowsOf
<1> QED BY <1>1, <1>2, PTL

-----------------------------------------------------------------------------
(* Login: a session comes of an attempt that has just been redeemed.       *)

Places == {"idle", "get", "login", "logout", "silent", "forum", "callback", "answered", "replace",
           "response"}

LoginRequests ==
    [at : Places, nav : BOOLEAN, private : BOOLEAN, sid : Sids \cup {NoSid}, checked : BOOLEAN, invalid : BOOLEAN,
     attempt : Attempts \cup {NoAttempt}, answer : Answers, page : Sids \cup {NoSid},
     created : Sids \cup {NoSid}, to : {"idle", "get", "login", "silent", "forum", "home"},
     setCookie : Sids \cup {NoSid, Keep}, setChecked : {"no", "timed", "closing", Keep}]

\* The tables and what the browser holds keep their types.
LoginTypes ==
    /\ attempts \in [Attempts -> [st : {"unused", "issued", "expired", "redeemed"}, flow : Flows,
                                  private : BOOLEAN, answer : Answers \cup {"none"}]]
    /\ sessions \in [Sids -> [st : {"none", "live", "ended"}, due : BOOLEAN, tried : BOOLEAN,
                              by : Attempts \cup {NoAttempt}]]
    /\ cookie \in Sids \cup {NoSid}
    /\ checked \in {"no", "timed", "closing"}
    /\ inUse \subseteq Tabs
    /\ tabs \in [Tabs -> LoginRequests]
    /\ atForum \in BOOLEAN /\ loggedOut \in BOOLEAN

\* Who is at the forum, or comes back from it, carries an attempt.
CarriesAttempt(tab) ==
    /\ tab.at \in {"forum", "callback", "answered"} => tab.attempt \in Attempts
    /\ tab.at = "response" /\ tab.to = "forum" => tab.attempt \in Attempts

\* A tab whose attempt has been consumed is the only one to have consumed it,
\* and no session has been bought with it; every session was bought with an
\* attempt that is consumed.
AttemptsAreSpent ==
    /\ \A t \in Tabs : tabs[t].at = "answered" =>
          /\ attempts[tabs[t].attempt].st = "redeemed"
          /\ \A s \in Sids : sessions[s].by # tabs[t].attempt
          /\ \A u \in Tabs \ {t} : tabs[u].at = "answered" => tabs[u].attempt # tabs[t].attempt
    /\ \A s \in Sids : sessions[s].by \in Attempts => attempts[sessions[s].by].st = "redeemed"

LoginInv ==
    /\ LoginTypes
    /\ \A t \in Tabs : CarriesAttempt(tabs[t])
    /\ AttemptsAreSpent

-----------------------------------------------------------------------------
(* Initial states. *)

LEMMA IdleIsRequest == ASSUME LoginAssumption PROVE Idle \in LoginRequests /\ CarriesAttempt(Idle)
    BY DEF Idle, LoginRequests, Places, CarriesAttempt, Answers

LEMMA LoginInitInv == ASSUME LoginAssumption, LoginInit PROVE LoginInv
<1>1. LoginTypes
    BY IdleIsRequest DEF LoginInit, LoginTypes, Flows
<1>2. \A t \in Tabs : CarriesAttempt(tabs[t])
    BY IdleIsRequest DEF LoginInit
<1>3. AttemptsAreSpent
    BY DEF LoginInit, AttemptsAreSpent, LoginAssumption, Idle
<1> QED BY <1>1, <1>2, <1>3 DEF LoginInv

-----------------------------------------------------------------------------
(* What most steps keep of the invariant: they consume no attempt and buy no *)
(* session.                                                                  *)

\* No tab comes to hold a consumed attempt, what is consumed stays so, and
\* sessions keep the attempt they were bought with.
BuysNothing ==
    /\ \A t \in Tabs : tabs'[t].at = "answered" => tabs[t].at = "answered" /\ tabs'[t].attempt = tabs[t].attempt
    /\ \A k \in Attempts : attempts[k].st = "redeemed" => attempts'[k].st = "redeemed"
    /\ \A s \in Sids : sessions'[s].by = sessions[s].by

LEMMA BuysNothingKeepsInv ==
    ASSUME LoginInv, LoginTypes', \A t \in Tabs : CarriesAttempt(tabs'[t]), BuysNothing
    PROVE LoginInv'
<1>1. AttemptsAreSpent'
    <2>1. ASSUME NEW t \in Tabs, tabs'[t].at = "answered"
          PROVE  /\ attempts'[tabs'[t].attempt].st = "redeemed"
                 /\ \A s \in Sids : sessions'[s].by # tabs'[t].attempt
                 /\ \A u \in Tabs \ {t} : tabs'[u].at = "answered" => tabs'[u].attempt # tabs'[t].attempt
        BY <2>1 DEF LoginInv, AttemptsAreSpent, BuysNothing, CarriesAttempt
    <2>2. ASSUME NEW s \in Sids, sessions'[s].by \in Attempts
          PROVE  attempts'[sessions'[s].by].st = "redeemed"
        BY <2>2 DEF LoginInv, AttemptsAreSpent, BuysNothing
    <2> QED BY <2>1, <2>2 DEF AttemptsAreSpent
<1> QED BY <1>1 DEF LoginInv

\* A tab is given a request that is not "answered".
TabMoves(t) ==
    \E q \in LoginRequests : /\ CarriesAttempt(q) /\ q.at # "answered"
                        /\ tabs' = [tabs EXCEPT ![t] = q]

LEMMA MovingBuysNothing ==
    ASSUME LoginInv, NEW t \in Tabs, TabMoves(t)
    PROVE  /\ tabs' \in [Tabs -> LoginRequests]
           /\ \A u \in Tabs : CarriesAttempt(tabs'[u])
           /\ \A u \in Tabs : tabs'[u].at = "answered" => tabs[u].at = "answered" /\ tabs'[u].attempt = tabs[u].attempt
<1> PICK q \in LoginRequests : /\ CarriesAttempt(q) /\ q.at # "answered"
                          /\ tabs' = [tabs EXCEPT ![t] = q]
    BY DEF TabMoves
<1> USE DEF LoginInv, LoginTypes
<1>1. tabs' \in [Tabs -> LoginRequests]
    OBVIOUS
<1>2. \A u \in Tabs : CarriesAttempt(tabs'[u])
    OBVIOUS
<1>3. \A u \in Tabs : tabs'[u].at = "answered" => tabs[u].at = "answered" /\ tabs'[u].attempt = tabs[u].attempt
    OBVIOUS
<1> QED BY <1>1, <1>2, <1>3

\* A response moves a tab.
LEMMA RespondMoves ==
    ASSUME LoginAssumption, LoginInv, NEW t \in Tabs, NEW to \in {"idle", "get", "silent", "home"},
           NEW invalid \in BOOLEAN, NEW setCookie \in Sids \cup {NoSid, Keep},
           NEW setChecked \in {"no", "timed", "closing", Keep},
           Respond(t, to, invalid, setCookie, setChecked)
    PROVE  TabMoves(t)
<1> DEFINE private == to # "idle" /\ tabs[t].private
           kept == IF setCookie = Keep /\ invalid THEN NoSid ELSE setCookie
           q == [Idle EXCEPT !.at = "response", !.to = to, !.private = private, !.page = tabs[t].page,
                     !.setChecked = setChecked, !.setCookie = kept]
<1>1. tabs' = [tabs EXCEPT ![t] = q]
    BY DEF Respond
<1>2. private \in BOOLEAN /\ tabs[t].page \in Sids \cup {NoSid} /\ kept \in Sids \cup {NoSid, Keep}
    BY DEF LoginInv, LoginTypes, LoginRequests
<1> HIDE DEF private, kept
<1>3. q \in LoginRequests
    BY <1>2 DEF Idle, LoginRequests, Places, Answers
<1>4. CarriesAttempt(q) /\ q.at # "answered"
    BY DEF CarriesAttempt, Idle
<1> QED BY <1>1, <1>3, <1>4 DEF TabMoves

\* A request that the user starts is any but those that carry an attempt.
LEMMA RequestIsTyped ==
    ASSUME LoginAssumption, LoginInv, NEW t \in Tabs, NEW at \in Places
    PROVE  /\ Request(t, at) \in LoginRequests
           /\ Request(t, at).at = at
           /\ DOMAIN Request(t, at) = DOMAIN Idle
    BY DEF Request, Idle, LoginRequests, Places, Answers, LoginInv, LoginTypes

LEMMA ChangedKindIsTyped ==
    ASSUME NEW r \in LoginRequests, NEW nav \in BOOLEAN, NEW private \in BOOLEAN
    PROVE  /\ [r EXCEPT !.nav = nav, !.private = private] \in LoginRequests
           /\ [r EXCEPT !.nav = nav, !.private = private].at = r.at
    BY DEF LoginRequests

LEMMA InvalidIsBoolean == \A t, fail : Invalid(t, fail) \in BOOLEAN
    BY DEF Invalid

-----------------------------------------------------------------------------
(* The tables. *)

AttemptTypes == attempts \in [Attempts -> [st : {"unused", "issued", "expired", "redeemed"}, flow : Flows,
                                           private : BOOLEAN, answer : Answers \cup {"none"}]]
SessionTypes == sessions \in [Sids -> [st : {"none", "live", "ended"}, due : BOOLEAN, tried : BOOLEAN,
                                       by : Attempts \cup {NoAttempt}]]

LEMMA StoreLoginStateKeeps ==
    ASSUME AttemptTypes, NEW k \in Attempts, NEW flow \in Flows, NEW private \in BOOLEAN,
           StoreLoginState(k, flow, private)
    PROVE  AttemptTypes' /\ \A j \in Attempts : attempts[j].st = "redeemed" => attempts'[j].st = "redeemed"
    BY DEF AttemptTypes, StoreLoginState

LEMMA MarkRevalidationKeeps ==
    ASSUME SessionTypes, NEW s, MarkRevalidation(s)
    PROVE  SessionTypes' /\ \A r \in Sids : sessions'[r].by = sessions[r].by /\ sessions'[r].st = sessions[r].st
    BY DEF SessionTypes, MarkRevalidation

LEMMA DeleteSessionKeeps ==
    ASSUME SessionTypes, NEW s, DeleteSession(s)
    PROVE  SessionTypes' /\ \A r \in Sids : sessions'[r].by = sessions[r].by
    BY DEF SessionTypes, DeleteSession, Live

-----------------------------------------------------------------------------
(* The mapping: each way in which the tables change is a step of SSO.       *)

AttemptsAlike == \A k \in Attempts : attempts'[k].st = attempts[k].st
SessionsAlike == \A s \in Sids : sessions'[s].st = sessions[s].st /\ sessions'[s].by = sessions[s].by

LEMMA AlikeIsStutter ==
    ASSUME AttemptsAlike, SessionsAlike PROVE UNCHANGED SSO!vars
    BY DEF AttemptsAlike, SessionsAlike, SSO!vars

LEMMA StoreLoginStateIsIssue ==
    ASSUME AttemptTypes, NEW k \in Attempts, NEW flow \in Flows, NEW private \in BOOLEAN,
           StoreLoginState(k, flow, private), SessionsAlike
    PROVE  SSO!Next
<1>1. SSO!Issue(k)
    BY DEF AttemptTypes, StoreLoginState, SessionsAlike, SSO!Issue
<1> QED BY <1>1 DEF SSO!Next

\* An attempt is consumed, or its time is over.
LEMMA SettledAttempt ==
    ASSUME AttemptTypes, NEW k \in Attempts, attempts[k].st = "issued",
           NEW outcome \in {"redeemed", "expired"},
           NEW private \in BOOLEAN, SessionsAlike,
           attempts' = [attempts EXCEPT ![k].st = outcome, ![k].private = private]
    PROVE  AttemptTypes' /\ SSO!Next
<1>1. AttemptTypes'
    BY DEF AttemptTypes
<1>2. CASE outcome = "redeemed"
    <2>1. SSO!Settle(k)
        BY <1>2 DEF AttemptTypes, SessionsAlike, SSO!Settle
    <2> QED BY <2>1, <1>1 DEF SSO!Next
<1>3. CASE outcome = "expired"
    <2>1. SSO!Settle(k)
        BY <1>3 DEF AttemptTypes, SessionsAlike, SSO!Settle
    <2> QED BY <2>1, <1>1 DEF SSO!Next
<1> QED BY <1>2, <1>3

LEMMA DeleteSessionIsEnd ==
    ASSUME SessionTypes, NEW s, DeleteSession(s), AttemptsAlike
    PROVE  SSO!Next \/ UNCHANGED SSO!vars
<1>1. CASE sessions' = sessions
    BY <1>1, AlikeIsStutter DEF SessionsAlike
<1>2. CASE Live(s) /\ sessions' = [sessions EXCEPT ![s].st = "ended"]
    <2>1. s \in Sids /\ SSO!End(s)
        BY <1>2 DEF SessionTypes, Live, AttemptsAlike, SSO!End
    <2> QED BY <2>1 DEF SSO!Next
<1> QED BY <1>1, <1>2 DEF DeleteSession

-----------------------------------------------------------------------------
(* The steps of a tab. *)

\* What a handler leaves when it moves its tab and keeps the tables' types.
LEMMA HandlerKeepsInv ==
    ASSUME LoginInv, NEW t \in Tabs, TabMoves(t), AttemptTypes', SessionTypes',
           \A k \in Attempts : attempts[k].st = "redeemed" => attempts'[k].st = "redeemed",
           \A s \in Sids : sessions'[s].by = sessions[s].by,
           cookie' \in Sids \cup {NoSid}, checked' \in {"no", "timed", "closing"},
           inUse' = inUse, atForum' \in BOOLEAN, loggedOut' \in BOOLEAN
    PROVE  LoginInv'
<1>1. LoginTypes'
    BY MovingBuysNothing DEF LoginInv, LoginTypes, AttemptTypes, SessionTypes
<1>2. BuysNothing
    BY MovingBuysNothing DEF BuysNothing
<1> QED BY <1>1, <1>2, MovingBuysNothing, BuysNothingKeepsInv

Preserves == LoginInv' /\ (SSO!Next \/ UNCHANGED SSO!vars)

\* A step that touches neither table.
LEMMA TabOnly ==
    ASSUME LoginInv, NEW t \in Tabs, TabMoves(t), UNCHANGED <<attempts, sessions, inUse>>,
           cookie' \in Sids \cup {NoSid}, checked' \in {"no", "timed", "closing"},
           atForum' \in BOOLEAN, loggedOut' \in BOOLEAN
    PROVE  Preserves
<1>1. LoginInv'
    BY HandlerKeepsInv DEF LoginInv, LoginTypes, AttemptTypes, SessionTypes
<1>2. UNCHANGED SSO!vars
    BY AlikeIsStutter DEF AttemptsAlike, SessionsAlike
<1> QED BY <1>1, <1>2 DEF Preserves

LEMMA VisitStep ==
    ASSUME LoginAssumption, LoginInv, NEW t \in Tabs,
           Navigate(t) \/ ClickLogin(t) \/ ClickLogout(t)
    PROVE  Preserves
<1> USE DEF LoginInv, LoginTypes
<1>1. CASE Navigate(t)
    <2>1. PICK nav \in BOOLEAN, private \in BOOLEAN :
                  /\ Visit(t, [Request(t, "get") EXCEPT !.nav = nav, !.private = private])
                  /\ loggedOut' = (loggedOut /\ ~private)
        BY <1>1 DEF Navigate
    <2> DEFINE q == [Request(t, "get") EXCEPT !.nav = nav, !.private = private]
    <2>2. q \in LoginRequests /\ CarriesAttempt(q) /\ q.at # "answered"
        <3>1. Request(t, "get") \in LoginRequests /\ Request(t, "get").at = "get"
            BY RequestIsTyped DEF Places
        <3> QED BY <3>1, ChangedKindIsTyped DEF CarriesAttempt
    <2>3. TabMoves(t)
        BY <2>1, <2>2 DEF Visit, TabMoves
    <2>4. UNCHANGED <<attempts, sessions, inUse, cookie, checked, atForum>> /\ loggedOut' \in BOOLEAN
        BY <1>1, <2>1 DEF Navigate
    <2> QED BY <2>3, <2>4, TabOnly
<1>2. CASE ClickLogin(t)
    <2>1. Request(t, "login") \in LoginRequests /\ CarriesAttempt(Request(t, "login"))
            /\ Request(t, "login").at # "answered"
        BY RequestIsTyped DEF Places, CarriesAttempt
    <2>2. TabMoves(t)
        BY <1>2, <2>1 DEF ClickLogin, Visit, TabMoves
    <2> QED BY <1>2, <2>2, TabOnly DEF ClickLogin
<1>3. CASE ClickLogout(t)
    <2>1. Request(t, "logout") \in LoginRequests /\ CarriesAttempt(Request(t, "logout"))
            /\ Request(t, "logout").at # "answered"
        BY RequestIsTyped DEF Places, CarriesAttempt
    <2>2. TabMoves(t)
        BY <1>3, <2>1 DEF ClickLogout, Visit, TabMoves
    <2> QED BY <1>3, <2>2, TabOnly DEF ClickLogout
<1> QED BY <1>1, <1>2, <1>3

LEMMA RepeatCallbackStep ==
    ASSUME LoginAssumption, LoginInv, NEW t \in Tabs, NEW k \in Attempts, RepeatCallback(t, k)
    PROVE  Preserves
<1> USE DEF LoginInv, LoginTypes
<1> DEFINE q == [Request(t, "callback") EXCEPT !.attempt = k, !.answer = attempts[k].answer]
<1>1. q \in LoginRequests /\ CarriesAttempt(q) /\ q.at # "answered"
    <2>1. Request(t, "callback") \in LoginRequests /\ Request(t, "callback").at = "callback"
        BY RequestIsTyped DEF Places
    <2>2. attempts[k].answer \in Answers
        BY DEF RepeatCallback
    <2>3. q \in LoginRequests /\ q.at = "callback" /\ q.attempt = k
        <3>1. PICK r \in LoginRequests : r = Request(t, "callback")
            BY <2>1
        <3>2. q = [r EXCEPT !.attempt = k, !.answer = attempts[k].answer]
            BY <3>1
        <3>3. r.at = "callback"
            BY <2>1, <3>1
        <3> HIDE DEF q
        <3> QED BY <2>2, <3>2, <3>3 DEF LoginRequests
    <2> QED BY <2>3 DEF CarriesAttempt
<1>2. TabMoves(t)
    BY <1>1 DEF RepeatCallback, Visit, TabMoves
<1> QED BY <1>2, TabOnly DEF RepeatCallback

LEMMA ArriveStep ==
    ASSUME LoginAssumption, LoginInv, NEW t \in Tabs, Arrive(t) PROVE Preserves
<1> USE DEF LoginInv, LoginTypes
<1> DEFINE tab == tabs[t]
           at == IF tab.to = "home" THEN "get" ELSE tab.to
           cookie1 == IF tab.setCookie = Keep THEN cookie ELSE tab.setCookie
           checked1 == IF tab.setChecked = Keep THEN checked ELSE tab.setChecked
           q == [Idle EXCEPT !.at = at,
                            !.private = tab.private /\ tab.to # "home",
                            !.attempt = IF at = "forum" THEN tab.attempt ELSE @,
                            !.page = IF at = "idle" THEN tab.page ELSE @,
                            !.sid = IF at \in {"idle", "forum"} THEN @ ELSE cookie1,
                            !.checked = at = "get" /\ checked1 # "no"]
<1>1. tab \in LoginRequests /\ CarriesAttempt(tab) /\ tab.at = "response"
    BY DEF Arrive
<1>2. cookie1 \in Sids \cup {NoSid} /\ checked1 \in {"no", "timed", "closing"}
    BY <1>1 DEF LoginRequests
<1>3. at \in Places /\ at # "answered" /\ (at = "forum" => tab.to = "forum")
    BY <1>1 DEF LoginRequests, Places
<1>4. q \in LoginRequests
    <2>1. q.attempt \in Attempts \cup {NoAttempt} /\ q.page \in Sids \cup {NoSid}
        BY <1>1 DEF LoginRequests, Idle
    <2>2. q.sid \in Sids \cup {NoSid} /\ q.checked \in BOOLEAN /\ q.private \in BOOLEAN /\ q.at = at
        BY <1>2 DEF Idle
    <2> DEFINE Asking(place, private, sid, seen, k, page) ==
                   [Idle EXCEPT !.at = place, !.private = private, !.attempt = k, !.page = page, !.sid = sid,
                                !.checked = seen]
    <2>3. ASSUME NEW place \in Places, NEW private \in BOOLEAN, NEW sid \in Sids \cup {NoSid},
                 NEW seen \in BOOLEAN, NEW k \in Attempts \cup {NoAttempt}, NEW page \in Sids \cup {NoSid}
          PROVE  Asking(place, private, sid, seen, k, page) \in LoginRequests
        BY DEF LoginRequests, Idle, Answers
    <2>4. q = Asking(at, q.private, q.sid, q.checked, q.attempt, q.page)
        BY DEF Idle
    <2> HIDE DEF Asking, q, at
    <2>5. /\ at \in Places /\ q.private \in BOOLEAN /\ q.sid \in Sids \cup {NoSid} /\ q.checked \in BOOLEAN
          /\ q.attempt \in Attempts \cup {NoAttempt} /\ q.page \in Sids \cup {NoSid}
        BY ONLY <2>1, <2>2, <1>3, Zenon
    <2>6. Asking(at, q.private, q.sid, q.checked, q.attempt, q.page) \in LoginRequests
        BY ONLY <2>3, <2>5, Zenon
    <2> QED BY ONLY <2>4, <2>6, Zenon
<1>5. CarriesAttempt(q) /\ q.at # "answered"
    BY <1>1, <1>3 DEF CarriesAttempt, Idle, LoginRequests
<1>6. TabMoves(t)
    BY <1>4, <1>5 DEF Arrive, TabMoves
<1>7. /\ cookie' = cookie1 /\ checked' = checked1 /\ loggedOut' \in BOOLEAN
      /\ UNCHANGED <<attempts, sessions, atForum, inUse>>
    BY DEF Arrive
<1> QED BY <1>2, <1>6, <1>7, TabOnly

LEMMA ServePageStep ==
    ASSUME LoginAssumption, LoginInv, NEW t \in Tabs, ServePage(t) PROVE Preserves
<1> USE DEF LoginInv, LoginTypes
<1> PICK fail \in BOOLEAN, markFails \in BOOLEAN :
          LET loaded == Loaded(t, fail)
              retry  == loaded /\ sessions[tabs[t].sid].due /\ tabs[t].nav /\ ~sessions[tabs[t].sid].tried
              probe  == ~loaded /\ tabs[t].nav /\ metadata /\ ~tabs[t].checked
              asks   == ~loaded /\ tabs[t].nav /\ ~probe /\ tabs[t].private
          IN  /\ IF retry /\ ~markFails THEN MarkRevalidation(tabs[t].sid) ELSE UNCHANGED sessions
              /\ tabs' = [tabs EXCEPT ![t] =
                     [Idle EXCEPT !.at = "response",
                               !.to = IF retry \/ probe THEN "silent" ELSE IF asks THEN "login" ELSE "idle",
                               !.private = (retry \/ probe \/ asks) /\ tabs[t].private,
                               !.page = IF loaded THEN tabs[t].sid ELSE NoSid,
                               !.setCookie = IF Invalid(t, fail) THEN NoSid ELSE Keep]]
    BY DEF ServePage
<1> DEFINE loaded == Loaded(t, fail)
           retry  == loaded /\ sessions[tabs[t].sid].due /\ tabs[t].nav /\ ~sessions[tabs[t].sid].tried
           probe  == ~loaded /\ tabs[t].nav /\ metadata /\ ~tabs[t].checked
           asks   == ~loaded /\ tabs[t].nav /\ ~probe /\ tabs[t].private
           q == [Idle EXCEPT !.at = "response",
                               !.to = IF retry \/ probe THEN "silent" ELSE IF asks THEN "login" ELSE "idle",
                               !.private = (retry \/ probe \/ asks) /\ tabs[t].private,
                               !.page = IF loaded THEN tabs[t].sid ELSE NoSid,
                               !.setCookie = IF Invalid(t, fail) THEN NoSid ELSE Keep]
<1>1. q \in LoginRequests /\ CarriesAttempt(q) /\ q.at # "answered"
    BY DEF LoginRequests, Places, Idle, Answers, CarriesAttempt, Loaded, Live
<1>2. TabMoves(t)
    BY <1>1 DEF TabMoves
<1>3. SessionTypes' /\ SessionsAlike
    BY MarkRevalidationKeeps DEF SessionTypes, SessionsAlike
<1>4. UNCHANGED <<attempts, cookie, checked, atForum, loggedOut, inUse>>
    BY DEF ServePage
<1>5. LoginInv'
    BY <1>2, <1>3, <1>4, HandlerKeepsInv DEF AttemptTypes, SessionsAlike
<1>6. UNCHANGED SSO!vars
    BY <1>3, <1>4, AlikeIsStutter DEF AttemptsAlike
<1> QED BY <1>5, <1>6 DEF Preserves

\* begin_authorization, when it succeeds: the tab goes to the forum with a
\* fresh attempt, the sessions keep what the mapping sees of them.
LEMMA BeginStep ==
    ASSUME LoginAssumption, LoginInv, NEW t \in Tabs, NEW k \in Attempts, NEW flow \in Flows,
           StoreLoginState(k, flow, tabs[t].private),
           tabs' = [tabs EXCEPT ![t] = [Idle EXCEPT !.at = "response", !.to = "forum", !.attempt = k,
                                           !.setCookie = IF Invalid(t, FALSE) THEN NoSid ELSE Keep]],
           SessionTypes', SessionsAlike,
           UNCHANGED <<cookie, checked, atForum, loggedOut, inUse>>
    PROVE  Preserves
<1> DEFINE q == [Idle EXCEPT !.at = "response", !.to = "forum", !.attempt = k,
                             !.setCookie = IF Invalid(t, FALSE) THEN NoSid ELSE Keep]
<1>1. q \in LoginRequests /\ CarriesAttempt(q) /\ q.at # "answered"
    BY DEF LoginRequests, Places, Idle, Answers, CarriesAttempt
<1>2. TabMoves(t)
    BY <1>1 DEF TabMoves
<1>3. AttemptTypes /\ tabs[t].private \in BOOLEAN
    BY DEF LoginInv, LoginTypes, AttemptTypes, LoginRequests
<1>4. LoginInv'
    BY <1>2, <1>3, StoreLoginStateKeeps, HandlerKeepsInv DEF LoginInv, LoginTypes, SessionsAlike
<1>5. SSO!Next
    BY <1>3, StoreLoginStateIsIssue
<1> QED BY <1>4, <1>5 DEF Preserves

LEMMA ServeLoginStep ==
    ASSUME LoginAssumption, LoginInv, NEW t \in Tabs, ServeLogin(t) PROVE Preserves
<1>1. UNCHANGED <<sessions, cookie, checked, atForum, loggedOut, inUse>>
    BY DEF ServeLogin
<1>2. CASE TabMoves(t) /\ UNCHANGED attempts
    BY <1>1, <1>2, TabOnly DEF LoginInv, LoginTypes
<1>3. CASE Live(tabs[t].sid)
    BY <1>2, <1>3, RespondMoves DEF ServeLogin
<1>4. CASE ~Live(tabs[t].sid)
    <2>1. Begin(t, "interactive", Respond(t, "idle", Invalid(t, FALSE), Keep, Keep))
        BY <1>4 DEF ServeLogin
    <2>2. CASE Respond(t, "idle", Invalid(t, FALSE), Keep, Keep) /\ UNCHANGED attempts
        BY <1>2, <2>2, RespondMoves, InvalidIsBoolean
    <2>3. ASSUME NEW k \in Attempts, StoreLoginState(k, "interactive", tabs[t].private),
                 tabs' = [tabs EXCEPT ![t] = [Idle EXCEPT !.at = "response", !.to = "forum", !.attempt = k,
                                           !.setCookie = IF Invalid(t, FALSE) THEN NoSid ELSE Keep]]
          PROVE  Preserves
        <3>1. SessionTypes' /\ SessionsAlike
            BY <1>1 DEF LoginInv, LoginTypes, SessionTypes, SessionsAlike
        <3> QED BY <1>1, <2>3, <3>1, BeginStep DEF Flows
    <2> QED BY <2>1, <2>2, <2>3 DEF Begin
<1> QED BY <1>3, <1>4

LEMMA SilentReturnMoves ==
    ASSUME LoginAssumption, LoginInv, NEW t \in Tabs, NEW flow, NEW required \in BOOLEAN,
           NEW invalid \in BOOLEAN, SilentReturn(t, flow, required, invalid)
    PROVE  TabMoves(t)
    BY RespondMoves DEF SilentReturn

LEMMA ServeSilentStep ==
    ASSUME LoginAssumption, LoginInv, NEW t \in Tabs, ServeSilent(t) PROVE Preserves
<1> DEFINE flow == IF Live(tabs[t].sid) THEN "revalidate" ELSE "probe"
<1>1. /\ IF Live(tabs[t].sid) THEN MarkRevalidation(tabs[t].sid) ELSE UNCHANGED sessions
      /\ Begin(t, flow, SilentReturn(t, flow, FALSE, Invalid(t, FALSE)))
      /\ UNCHANGED <<cookie, checked, atForum, loggedOut, inUse>>
    BY DEF ServeSilent
<1>2. SessionTypes' /\ SessionsAlike
    BY <1>1, MarkRevalidationKeeps DEF LoginInv, LoginTypes, SessionTypes, SessionsAlike
<1>3. flow \in Flows
    BY DEF Flows
<1> HIDE DEF flow
<1>4. CASE SilentReturn(t, flow, FALSE, Invalid(t, FALSE)) /\ UNCHANGED attempts
    <2>1. TabMoves(t)
        BY <1>4, SilentReturnMoves, InvalidIsBoolean
    <2>2. LoginInv'
        BY <1>1, <1>2, <1>4, <2>1, HandlerKeepsInv DEF LoginInv, LoginTypes, AttemptTypes, SessionsAlike
    <2>3. UNCHANGED SSO!vars
        BY <1>2, <1>4, AlikeIsStutter DEF AttemptsAlike
    <2> QED BY <2>2, <2>3 DEF Preserves
<1>5. ASSUME NEW k \in Attempts, StoreLoginState(k, flow, tabs[t].private),
             tabs' = [tabs EXCEPT ![t] = [Idle EXCEPT !.at = "response", !.to = "forum", !.attempt = k,
                                       !.setCookie = IF Invalid(t, FALSE) THEN NoSid ELSE Keep]]
      PROVE  Preserves
    BY <1>1, <1>2, <1>3, <1>5, BeginStep
<1> QED BY <1>1, <1>4, <1>5 DEF Begin

LEMMA ForumAnswersStep ==
    ASSUME LoginAssumption, LoginInv, NEW t \in Tabs, ForumAnswers(t) PROVE Preserves
<1> PICK answer \in Answers :
        /\ atForum' = (atForum \/ answer = "code")
        /\ attempts' = [attempts EXCEPT ![tabs[t].attempt].answer = answer]
        /\ tabs' = [tabs EXCEPT ![t] = [Request(t, "callback") EXCEPT
                                           !.attempt = tabs[t].attempt, !.answer = answer]]
    BY DEF ForumAnswers
<1>1. tabs[t].attempt \in Attempts
    BY DEF ForumAnswers, LoginInv, CarriesAttempt
<1>2. Request(t, "callback") \in LoginRequests /\ Request(t, "callback").at = "callback"
    BY RequestIsTyped DEF Places
<1>3. TabMoves(t)
    <2>1. PICK r \in LoginRequests : r = Request(t, "callback")
        BY <1>2
    <2> DEFINE q == [r EXCEPT !.attempt = tabs[t].attempt, !.answer = answer]
    <2>2. q \in LoginRequests /\ q.at = "callback" /\ q.attempt \in Attempts
        BY <1>1, <1>2, <2>1 DEF LoginRequests
    <2>3. CarriesAttempt(q) /\ tabs' = [tabs EXCEPT ![t] = q]
        BY <2>1, <2>2 DEF CarriesAttempt
    <2> HIDE DEF q
    <2> QED BY <2>2, <2>3 DEF TabMoves
<1>4. AttemptTypes' /\ AttemptsAlike
    <2>1. AttemptTypes
        BY DEF LoginInv, LoginTypes, AttemptTypes
    <2>2. AttemptTypes'
        BY <1>1, <2>1 DEF AttemptTypes
    <2>3. AttemptsAlike
        BY <1>1, <2>1 DEF AttemptTypes, AttemptsAlike
    <2> QED BY <2>2, <2>3
<1>5. UNCHANGED <<sessions, cookie, checked, loggedOut, inUse>>
    BY DEF ForumAnswers
<1>6. LoginInv'
    BY <1>3, <1>4, <1>5, HandlerKeepsInv DEF LoginInv, LoginTypes, SessionTypes, AttemptsAlike
<1>7. UNCHANGED SSO!vars
    BY <1>4, <1>5, AlikeIsStutter DEF SessionsAlike
<1> QED BY <1>6, <1>7 DEF Preserves

LEMMA TurnBackStep ==
    ASSUME LoginAssumption, LoginInv, NEW t \in Tabs, TurnBack(t) PROVE Preserves
<1>1. Idle.at # "answered"
    BY DEF Idle
<1>2. TabMoves(t)
    BY <1>1, IdleIsRequest DEF TurnBack, TabMoves
<1> QED BY <1>2, TabOnly DEF TurnBack, LoginInv, LoginTypes

\* The row of the attempt is deleted and returned: nobody else consumes it,
\* and since it was not consumed no session has been bought with it.
LEMMA CallbackStep ==
    ASSUME LoginAssumption, LoginInv, NEW t \in Tabs, Callback(t) PROVE Preserves
<1> DEFINE k == tabs[t].attempt
<1>1. k \in Attempts /\ tabs[t].at = "callback"
    BY DEF Callback, LoginInv, CarriesAttempt
<1>2. UNCHANGED <<sessions, cookie, checked, atForum, loggedOut, inUse>>
    BY DEF Callback
<1>3. CASE Respond(t, "idle", Invalid(t, FALSE), Keep, Keep) /\ UNCHANGED attempts
    <2>1. TabMoves(t)
        BY <1>3, RespondMoves, InvalidIsBoolean
    <2> QED BY <1>2, <1>3, <2>1, TabOnly DEF LoginInv, LoginTypes
<1>4. CASE /\ attempts[k].st = "issued"
           /\ attempts' = [attempts EXCEPT ![k].st = "redeemed", ![k].private = FALSE]
           /\ tabs' = [tabs EXCEPT ![t].at = "answered", ![t].private = attempts[k].private,
                                   ![t].invalid = Invalid(t, FALSE)]
    <2> DEFINE q == [tabs[t] EXCEPT !.at = "answered", !.private = attempts[k].private, !.invalid = Invalid(t, FALSE)]
    <2>1. tabs[t] \in LoginRequests /\ attempts[k].private \in BOOLEAN
        BY <1>1 DEF LoginInv, LoginTypes
    <2>2. q \in LoginRequests /\ q.at = "answered" /\ q.attempt = k
        BY <2>1, InvalidIsBoolean DEF LoginRequests, Places
    <2>3. tabs' = [tabs EXCEPT ![t] = q]
        BY <1>4, <2>1 DEF LoginInv, LoginTypes, LoginRequests
    <2> HIDE DEF q
    <2>4. \A j \in Attempts : attempts'[j].st = IF j = k THEN "redeemed" ELSE attempts[j].st
        BY <1>1, <1>4 DEF LoginInv, LoginTypes
    <2>5. AttemptTypes' /\ SSO!Next
        <3>1. AttemptTypes /\ SessionsAlike
            BY <1>2 DEF LoginInv, LoginTypes, AttemptTypes, SessionsAlike
        <3> HIDE DEF k
        <3> QED BY <1>1, <1>4, <3>1, SettledAttempt
    <2>6. LoginTypes'
        <3>1. AttemptTypes'
            BY <2>5
        <3>2. tabs' \in [Tabs -> LoginRequests]
            BY <2>2, <2>3 DEF LoginInv, LoginTypes
        <3> QED BY <1>2, <3>1, <3>2 DEF LoginInv, LoginTypes, AttemptTypes
    <2>7. \A u \in Tabs : CarriesAttempt(tabs'[u])
        BY <1>1, <2>2, <2>3 DEF LoginInv, LoginTypes, CarriesAttempt
    <2>8. AttemptsAreSpent'
        <3>1. \A s \in Sids : sessions[s].by # k
            BY <1>1, <1>4 DEF LoginInv, AttemptsAreSpent
        <3>2. \A u \in Tabs \ {t} : tabs[u].at = "answered" => tabs[u].attempt # k
            BY <1>4 DEF LoginInv, AttemptsAreSpent
        <3>3. \A u \in Tabs \ {t} : tabs'[u] = tabs[u]
            BY <2>3 DEF LoginInv, LoginTypes
        <3>4. tabs'[t] = q
            BY <2>3 DEF LoginInv, LoginTypes
        <3>5. ASSUME NEW v \in Tabs, tabs'[v].at = "answered"
              PROVE  /\ attempts'[tabs'[v].attempt].st = "redeemed"
                     /\ \A s \in Sids : sessions'[s].by # tabs'[v].attempt
                     /\ \A u \in Tabs \ {v} : tabs'[u].at = "answered" => tabs'[u].attempt # tabs'[v].attempt
            <4>1. CASE v = t
                BY <4>1, <1>1, <1>2, <2>2, <2>4, <3>1, <3>2, <3>3, <3>4
            <4>2. CASE v # t
                <5>1. tabs[v].at = "answered" /\ tabs'[v] = tabs[v] /\ tabs[v].attempt \in Attempts
                    BY <3>3, <3>5, <4>2 DEF LoginInv, CarriesAttempt
                <5>2. attempts'[tabs'[v].attempt].st = "redeemed"
                    BY <2>4, <5>1 DEF LoginInv, AttemptsAreSpent
                <5>3. \A s \in Sids : sessions'[s].by # tabs'[v].attempt
                    BY <1>2, <5>1 DEF LoginInv, AttemptsAreSpent
                <5>4. \A u \in Tabs \ {v} : tabs'[u].at = "answered" => tabs'[u].attempt # tabs'[v].attempt
                    BY <2>2, <3>2, <3>3, <3>4, <4>2, <5>1 DEF LoginInv, AttemptsAreSpent
                <5> QED BY <5>2, <5>3, <5>4
            <4> QED BY <4>1, <4>2
        <3>6. \A s \in Sids : sessions'[s].by \in Attempts => attempts'[sessions'[s].by].st = "redeemed"
            BY <1>2, <2>4 DEF LoginInv, AttemptsAreSpent
        <3> QED BY <3>5, <3>6 DEF AttemptsAreSpent
    <2> QED BY <2>6, <2>7, <2>8, <2>5 DEF LoginInv, Preserves
<1> QED BY <1>3, <1>4 DEF Callback

LEMMA DeclinedStep ==
    ASSUME LoginAssumption, LoginInv, NEW t \in Tabs, Declined(t) PROVE Preserves
<1> DEFINE flow == attempts[tabs[t].attempt].flow
           required == tabs[t].answer = "login_required"
           invalid == tabs[t].invalid
<1>1. /\ DeleteSession(tabs[t].sid) \/ UNCHANGED sessions
      /\ Respond(t, "idle", invalid, Keep, Keep) \/ SilentReturn(t, flow, required, invalid)
      /\ UNCHANGED <<attempts, cookie, checked, atForum, loggedOut, inUse>>
    BY DEF Declined
<1>2. invalid \in BOOLEAN /\ required \in BOOLEAN
    BY DEF LoginInv, LoginTypes, LoginRequests
<1>3. TabMoves(t)
    <2> HIDE DEF flow, required, invalid
    <2> QED BY <1>1, <1>2, RespondMoves, SilentReturnMoves
<1>4. SessionTypes' /\ \A s \in Sids : sessions'[s].by = sessions[s].by
    BY <1>1, DeleteSessionKeeps DEF LoginInv, LoginTypes, SessionTypes
<1>5. LoginInv'
    BY <1>1, <1>3, <1>4, HandlerKeepsInv DEF LoginInv, LoginTypes, AttemptTypes
<1>6. SSO!Next \/ UNCHANGED SSO!vars
    BY <1>1, AlikeIsStutter, DeleteSessionIsEnd
       DEF LoginInv, LoginTypes, SessionTypes, AttemptsAlike, SessionsAlike
<1> QED BY <1>5, <1>6 DEF Preserves

LEMMA LoginFailsStep ==
    ASSUME LoginAssumption, LoginInv, NEW t \in Tabs, LoginFails(t) PROVE Preserves
<1> DEFINE flow == attempts[tabs[t].attempt].flow
           invalid == tabs[t].invalid
<1>1. /\ Respond(t, "idle", invalid, Keep, Keep) \/ SilentReturn(t, flow, FALSE, invalid)
      /\ UNCHANGED <<attempts, sessions, cookie, checked, atForum, loggedOut, inUse>>
    BY DEF LoginFails
<1>2. invalid \in BOOLEAN
    BY DEF LoginInv, LoginTypes, LoginRequests
<1>3. TabMoves(t)
    <2> HIDE DEF flow, invalid
    <2> QED BY <1>1, <1>2, RespondMoves, SilentReturnMoves
<1> QED BY <1>1, <1>3, TabOnly DEF LoginInv, LoginTypes

\* The attempt that the tab has consumed buys a session: nobody bought one
\* with it before, and from now on the tab holds it no more.
LEMMA ExchangeStep ==
    ASSUME LoginAssumption, LoginInv, NEW t \in Tabs, Exchange(t) PROVE Preserves
<1> DEFINE k == tabs[t].attempt
<1> PICK s \in Sids : /\ CreateSession(s, k)
                      /\ tabs' = [tabs EXCEPT ![t].at = "replace", ![t].created = s]
    BY DEF Exchange
<1>1. /\ tabs[t] \in LoginRequests /\ tabs[t].at = "answered" /\ k \in Attempts
      /\ UNCHANGED <<attempts, cookie, checked, atForum, loggedOut, inUse>>
    BY DEF Exchange, LoginInv, LoginTypes, CarriesAttempt
<1>2. attempts[k].st = "redeemed" /\ \A r \in Sids : sessions[r].by # k
    BY <1>1 DEF LoginInv, AttemptsAreSpent
<1> DEFINE q == [tabs[t] EXCEPT !.at = "replace", !.created = s]
<1>3. q \in LoginRequests /\ q.at = "replace" /\ tabs' = [tabs EXCEPT ![t] = q]
    BY <1>1 DEF LoginRequests, Places, LoginInv, LoginTypes
<1> HIDE DEF q
<1>4. SessionTypes'
    BY <1>1 DEF LoginInv, LoginTypes, SessionTypes, CreateSession
<1>5. \A r \in Sids : sessions'[r].by = IF r = s THEN k ELSE sessions[r].by
    BY <1>1 DEF LoginInv, LoginTypes, CreateSession
<1>6. CarriesAttempt(q) /\ q.at # "answered"
    BY <1>3 DEF CarriesAttempt
<1>7. TabMoves(t)
    BY <1>3, <1>6 DEF TabMoves
<1>8. LoginTypes'
    BY <1>1, <1>4, <1>7, MovingBuysNothing DEF LoginInv, LoginTypes, SessionTypes
<1>9. AttemptsAreSpent'
    <2>1. ASSUME NEW v \in Tabs, tabs'[v].at = "answered"
          PROVE  /\ attempts'[tabs'[v].attempt].st = "redeemed"
                 /\ \A r \in Sids : sessions'[r].by # tabs'[v].attempt
                 /\ \A u \in Tabs \ {v} : tabs'[u].at = "answered" => tabs'[u].attempt # tabs'[v].attempt
        <3>1. v # t /\ tabs'[v] = tabs[v] /\ tabs[v].at = "answered"
            BY <1>3, <2>1 DEF LoginInv, LoginTypes
        <3>2. tabs[v].attempt # k /\ tabs[v].attempt \in Attempts
            BY <1>1, <3>1 DEF LoginInv, AttemptsAreSpent, CarriesAttempt
        <3>3. \A r \in Sids : sessions'[r].by # tabs'[v].attempt
            BY <1>5, <3>1, <3>2 DEF LoginInv, AttemptsAreSpent
        <3>4. \A u \in Tabs \ {v} : tabs'[u].at = "answered" => tabs'[u].attempt # tabs'[v].attempt
            BY <1>7, <3>1, MovingBuysNothing DEF LoginInv, AttemptsAreSpent
        <3> QED BY <1>1, <3>1, <3>3, <3>4 DEF LoginInv, AttemptsAreSpent
    <2>2. \A r \in Sids : sessions'[r].by \in Attempts => attempts'[sessions'[r].by].st = "redeemed"
        BY <1>1, <1>2, <1>5 DEF LoginInv, AttemptsAreSpent
    <2> QED BY <2>1, <2>2 DEF AttemptsAreSpent
<1>10. LoginInv'
    BY <1>7, <1>8, <1>9, MovingBuysNothing DEF LoginInv
<1>11. SSO!Next
    <2>1. SessionTypes /\ AttemptTypes
        BY DEF LoginInv, LoginTypes, SessionTypes, AttemptTypes
    <2>2. SSO!Buy(k, s)
        BY <1>1, <1>2, <2>1 DEF CreateSession, SessionTypes, SSO!Buy
    <2> QED BY <1>1, <2>2 DEF SSO!Next
<1> QED BY <1>10, <1>11 DEF Preserves

LEMMA ReplaceStep ==
    ASSUME LoginAssumption, LoginInv, NEW t \in Tabs, Replace(t) PROVE Preserves
<1>1. /\ DeleteSession(tabs[t].sid)
      /\ Respond(t, "get", FALSE, tabs[t].created, "no")
      /\ UNCHANGED <<attempts, cookie, checked, atForum, loggedOut, inUse>>
    BY DEF Replace
<1>2. tabs[t].created \in Sids \cup {NoSid}
    BY DEF LoginInv, LoginTypes, LoginRequests
<1>3. TabMoves(t)
    BY <1>1, <1>2, RespondMoves
<1>4. SessionTypes' /\ \A s \in Sids : sessions'[s].by = sessions[s].by
    BY <1>1, DeleteSessionKeeps DEF LoginInv, LoginTypes, SessionTypes
<1>5. LoginInv'
    BY <1>1, <1>3, <1>4, HandlerKeepsInv DEF LoginInv, LoginTypes, AttemptTypes
<1>6. SSO!Next \/ UNCHANGED SSO!vars
    BY <1>1, DeleteSessionIsEnd DEF LoginInv, LoginTypes, SessionTypes, AttemptsAlike
<1> QED BY <1>5, <1>6 DEF Preserves

LEMMA ServeLogoutStep ==
    ASSUME LoginAssumption, LoginInv, NEW t \in Tabs, ServeLogout(t) PROVE Preserves
<1>1. UNCHANGED <<attempts, cookie, checked, atForum, loggedOut, inUse>>
    BY DEF ServeLogout
<1>2. CASE DeleteSession(tabs[t].sid) /\ Respond(t, "home", FALSE, NoSid, "closing")
    <2>1. TabMoves(t)
        BY <1>2, RespondMoves
    <2>2. SessionTypes' /\ \A s \in Sids : sessions'[s].by = sessions[s].by
        BY <1>2, DeleteSessionKeeps DEF LoginInv, LoginTypes, SessionTypes
    <2>3. LoginInv'
        BY <1>1, <2>1, <2>2, HandlerKeepsInv DEF LoginInv, LoginTypes, AttemptTypes
    <2>4. SSO!Next \/ UNCHANGED SSO!vars
        BY <1>1, <1>2, DeleteSessionIsEnd DEF LoginInv, LoginTypes, SessionTypes, AttemptsAlike
    <2> QED BY <2>3, <2>4 DEF Preserves
<1>3. CASE Respond(t, "idle", Invalid(t, FALSE), Keep, Keep) /\ UNCHANGED sessions
    <2>1. TabMoves(t)
        BY <1>3, RespondMoves, InvalidIsBoolean
    <2> QED BY <1>1, <1>3, <2>1, TabOnly DEF LoginInv, LoginTypes
<1> QED BY <1>2, <1>3 DEF ServeLogout

-----------------------------------------------------------------------------
(* The clock, the browser, the forum and the cleanup. *)

\* A step that moves no tab, and buys nothing.
LEMMA WorldKeepsInv ==
    ASSUME LoginInv, AttemptTypes', SessionTypes', UNCHANGED <<tabs, inUse>>,
           \A k \in Attempts : attempts[k].st = "redeemed" => attempts'[k].st = "redeemed",
           \A s \in Sids : sessions'[s].by = sessions[s].by,
           cookie' \in Sids \cup {NoSid}, checked' \in {"no", "timed", "closing"},
           atForum' \in BOOLEAN, loggedOut' \in BOOLEAN
    PROVE  LoginInv'
<1>1. LoginTypes'
    BY DEF LoginInv, LoginTypes, AttemptTypes, SessionTypes
<1>2. BuysNothing /\ \A t \in Tabs : CarriesAttempt(tabs'[t])
    BY DEF LoginInv, BuysNothing
<1> QED BY <1>1, <1>2, BuysNothingKeepsInv

LEMMA AttemptExpiresStep ==
    ASSUME LoginInv, NEW k \in Attempts, AttemptExpires(k) PROVE Preserves
<1>1. /\ attempts[k].st = "issued" /\ attempts' = [attempts EXCEPT ![k].st = "expired"]
      /\ UNCHANGED <<sessions, cookie, checked, tabs, atForum, loggedOut, inUse>>
    BY DEF AttemptExpires
<1>2. AttemptTypes /\ SessionTypes /\ SessionsAlike
    BY <1>1 DEF LoginInv, LoginTypes, AttemptTypes, SessionTypes, SessionsAlike
<1>3. AttemptTypes' /\ SSO!Next
    <2> DEFINE own == attempts[k].private
    <2>1. own \in BOOLEAN /\ attempts' = [attempts EXCEPT ![k].st = "expired", ![k].private = own]
        BY <1>1, <1>2 DEF AttemptTypes
    <2> HIDE DEF own
    <2> QED BY <1>1, <1>2, <2>1, SettledAttempt
<1>4. \A j \in Attempts : attempts[j].st = "redeemed" => attempts'[j].st = "redeemed"
    BY <1>1, <1>2 DEF AttemptTypes
<1>5. LoginInv'
    BY <1>1, <1>2, <1>3, <1>4, WorldKeepsInv DEF LoginInv, LoginTypes, SessionTypes
<1> QED BY <1>3, <1>5 DEF Preserves

LEMMA SessionWorldStep ==
    ASSUME LoginInv, NEW s \in Sids, SessionDue(s) \/ CleanupSession(s) PROVE Preserves
<1>1. UNCHANGED <<attempts, cookie, checked, tabs, atForum, loggedOut, inUse>>
    BY DEF SessionDue, CleanupSession
<1>2. SessionTypes /\ AttemptTypes
    BY DEF LoginInv, LoginTypes, SessionTypes, AttemptTypes
<1>3. SessionTypes' /\ \A r \in Sids : sessions'[r].by = sessions[r].by
    <2>1. \/ sessions' = [sessions EXCEPT ![s].due = TRUE]
          \/ sessions' = [sessions EXCEPT ![s].tried = FALSE]
          \/ sessions' = [sessions EXCEPT ![s].st = "ended"]
        BY DEF SessionDue, CleanupSession
    <2>2. CASE sessions' = [sessions EXCEPT ![s].due = TRUE]
        BY <1>2, <2>2 DEF SessionTypes
    <2>3. CASE sessions' = [sessions EXCEPT ![s].tried = FALSE]
        BY <1>2, <2>3 DEF SessionTypes
    <2>4. CASE sessions' = [sessions EXCEPT ![s].st = "ended"]
        BY <1>2, <2>4 DEF SessionTypes
    <2> QED BY <2>1, <2>2, <2>3, <2>4
<1>4. LoginInv'
    BY <1>1, <1>2, <1>3, WorldKeepsInv DEF LoginInv, LoginTypes, AttemptTypes
<1>5. CASE SessionDue(s)
    <2>1. SessionsAlike
        BY <1>2, <1>5 DEF SessionTypes, SessionDue, SessionsAlike
    <2> QED BY <1>1, <1>4, <2>1, AlikeIsStutter DEF AttemptsAlike, Preserves
<1>6. CASE CleanupSession(s)
    <2>1. SSO!End(s)
        BY <1>1, <1>2, <1>6 DEF SessionTypes, CleanupSession, Live, SSO!End
    <2> QED BY <1>4, <2>1 DEF SSO!Next, Preserves
<1> QED BY <1>5, <1>6

LEMMA BrowserStep ==
    ASSUME LoginAssumption, LoginInv, CookieExpires \/ CloseBrowser \/ ForumChanges PROVE Preserves
<1>1. UNCHANGED <<attempts, sessions, inUse>>
    BY DEF CookieExpires, CloseBrowser, ForumChanges
<1>2. AttemptTypes' /\ SessionTypes'
    BY <1>1 DEF LoginInv, LoginTypes, AttemptTypes, SessionTypes
<1>3. ASSUME CookieExpires \/ ForumChanges PROVE LoginInv'
    <2>1. UNCHANGED tabs /\ cookie' \in Sids \cup {NoSid} /\ checked' \in {"no", "timed", "closing"}
            /\ atForum' \in BOOLEAN /\ loggedOut' \in BOOLEAN
        BY <1>3 DEF CookieExpires, ForumChanges, LoginInv, LoginTypes
    <2> QED BY <1>1, <1>2, <2>1, WorldKeepsInv
<1>4. ASSUME CloseBrowser PROVE LoginInv'
    <2>1. LoginTypes'
        BY <1>1, <1>4, IdleIsRequest DEF CloseBrowser, LoginInv, LoginTypes
    <2>2. \A t \in Tabs : CarriesAttempt(tabs'[t]) /\ tabs'[t].at # "answered"
        BY <1>4, IdleIsRequest DEF CloseBrowser, Idle
    <2>3. BuysNothing
        BY <1>1, <2>2 DEF BuysNothing
    <2> QED BY <2>1, <2>2, <2>3, BuysNothingKeepsInv
<1>5. UNCHANGED SSO!vars
    BY <1>1, AlikeIsStutter DEF AttemptsAlike, SessionsAlike
<1>6. LoginInv'
    BY <1>3, <1>4
<1> QED BY <1>5, <1>6 DEF Preserves

-----------------------------------------------------------------------------
(* The theorems. *)

LEMMA LoginNextStep ==
    ASSUME LoginAssumption, LoginInv, [LoginNext]_loginVars PROVE Preserves
<1>1. CASE UNCHANGED loginVars
    <2>1. LoginInv'
        BY <1>1 DEF loginVars, LoginInv, LoginTypes, AttemptsAreSpent
    <2>2. UNCHANGED SSO!vars
        BY <1>1, AlikeIsStutter DEF loginVars, AttemptsAlike, SessionsAlike
    <2> QED BY <2>1, <2>2 DEF Preserves
<1>2. ASSUME NEW t \in Tabs, TabStep(t) PROVE Preserves
    BY <1>2, ServePageStep, ServeLoginStep, ServeSilentStep, ForumAnswersStep, TurnBackStep, CallbackStep,
       DeclinedStep, LoginFailsStep, ExchangeStep, ReplaceStep, ServeLogoutStep, ArriveStep DEF TabStep
<1>3. ASSUME NEW t \in Tabs, Navigate(t) \/ ClickLogin(t) \/ ClickLogout(t) PROVE Preserves
    BY <1>3, VisitStep
<1>4. ASSUME NEW t \in Tabs, NEW k \in Attempts, RepeatCallback(t, k) PROVE Preserves
    BY <1>4, RepeatCallbackStep
<1>5. ASSUME NEW k \in Attempts, AttemptExpires(k) PROVE Preserves
    BY <1>5, AttemptExpiresStep
<1>6. ASSUME NEW s \in Sids, SessionDue(s) \/ CleanupSession(s) PROVE Preserves
    BY <1>6, SessionWorldStep
<1>7. CASE CookieExpires \/ CloseBrowser \/ ForumChanges
    BY <1>7, BrowserStep
<1> QED BY <1>1, <1>2, <1>3, <1>4, <1>5, <1>6, <1>7 DEF LoginNext

\* LoginInv is inductive: an attempt that a tab has consumed is held by no
\* other tab and has bought nothing, whatever the handlers, the clock and the
\* browser do.
THEOREM LoginInvariance == LoginSpec => []LoginInv
<1>1. LoginInit => LoginInv
    BY LoginInitInv, LoginAssumption
<1>2. LoginInv /\ [LoginNext]_loginVars => LoginInv'
    BY LoginNextStep, LoginAssumption DEF Preserves
<1> QED BY <1>1, <1>2, PTL DEF LoginSpec

\* The handlers of auth/oidc.rs, repeated, delayed and interleaved, implement
\* SingleSignOn: consume_login_state lets each attempt buy one session, and an
\* ended session never lives again.
THEOREM LoginRefinesSingleSignOn == LoginSpec => EachAttemptBuysOneSession
<1>1. LoginInit => SSO!Init
    BY DEF LoginInit, SSO!Init
<1>2. LoginInv /\ [LoginNext]_loginVars => [SSO!Next]_SSO!vars
    BY LoginNextStep, LoginAssumption DEF Preserves
<1> QED BY <1>1, <1>2, LoginInvariance, PTL DEF LoginSpec, EachAttemptBuysOneSession, SSO!Spec

-----------------------------------------------------------------------------
(* Logged out.                                                             *)

\* A tab that does nothing for a login: it has no session, looks for none at
\* the forum, opens no page that requires one, and its response sets none.
Quiet(tab) ==
    /\ tab.at \in {"idle", "get", "logout", "response"}
    /\ tab.at \in {"get", "logout"} => tab.sid = NoSid
    /\ tab.at = "get" => tab.checked /\ ~tab.private
    /\ tab.at = "response" => tab.to = "idle" /\ tab.setCookie \in {Keep, NoSid} /\ tab.setChecked = Keep

\* Home is where a logout leads, which drops the session and stops the check.
HomeLogsOut(tab) ==
    tab.at = "response" /\ tab.to = "home" => tab.setCookie = NoSid /\ tab.setChecked = "closing"

LoggedOutInv ==
    /\ \A t \in Tabs : HomeLogsOut(tabs[t])
    /\ loggedOut => cookie = NoSid /\ checked = "closing" /\ \A t \in Tabs : Quiet(tabs[t])

LEMMA KeepIsNothingElse ==
    ASSUME LoginAssumption PROVE Keep # NoSid /\ Keep \notin {"no", "timed", "closing"} /\ ~Live(NoSid)
    BY DEF LoginAssumption, Live

LEMMA LoggedOutStart == ASSUME LoginInit PROVE LoggedOutInv
<1>1. ~loggedOut /\ \A t \in Tabs : tabs[t].at = "idle"
    BY DEF LoginInit, Idle
<1> QED BY <1>1 DEF LoggedOutInv, HomeLogsOut

\* One tab moves.
LEMMA TabStaysOut ==
    ASSUME LoginInv, LoggedOutInv, NEW t \in Tabs, NEW q, tabs' = [tabs EXCEPT ![t] = q],
           UNCHANGED <<cookie, checked>>, loggedOut' => loggedOut, HomeLogsOut(q), loggedOut' => Quiet(q)
    PROVE  LoggedOutInv'
<1>1. tabs'[t] = q /\ \A u \in Tabs \ {t} : tabs'[u] = tabs[u]
    BY DEF LoginInv, LoginTypes
<1>2. \A u \in Tabs : HomeLogsOut(tabs'[u])
    BY <1>1 DEF LoggedOutInv
<1>3. loggedOut' => \A u \in Tabs : Quiet(tabs'[u])
    BY <1>1 DEF LoggedOutInv
<1> QED BY <1>2, <1>3 DEF LoggedOutInv, HomeLogsOut, Quiet

\* A tab that is at work on a login is not quiet.
Onward(t) == \E q : tabs' = [tabs EXCEPT ![t] = q] /\ HomeLogsOut(q)

LEMMA BusyStaysOut ==
    ASSUME LoginInv, LoggedOutInv, NEW t \in Tabs,
           tabs[t].at \in {"login", "silent", "forum", "callback", "answered", "replace"},
           Onward(t), UNCHANGED <<cookie, checked, loggedOut>>
    PROVE  LoggedOutInv'
<1>1. ~loggedOut
    BY DEF LoggedOutInv, Quiet
<1>2. PICK q : tabs' = [tabs EXCEPT ![t] = q] /\ HomeLogsOut(q)
    BY DEF Onward
<1> QED BY <1>1, <1>2, TabStaysOut

LEMMA RespondIsOnward ==
    ASSUME NEW t \in Tabs, NEW to, NEW invalid, NEW setCookie, NEW setChecked, to # "home",
           Respond(t, to, invalid, setCookie, setChecked)
    PROVE  Onward(t)
<1> DEFINE q == [Idle EXCEPT !.at = "response", !.to = to, !.private = to # "idle" /\ tabs[t].private,
                     !.page = tabs[t].page, !.setChecked = setChecked,
                     !.setCookie = IF setCookie = Keep /\ invalid THEN NoSid ELSE setCookie]
<1>1. tabs' = [tabs EXCEPT ![t] = q] /\ q.to = to
    BY DEF Respond, Idle
<1> HIDE DEF q
<1> QED BY <1>1 DEF Onward, HomeLogsOut

LEMMA SilentReturnIsOnward ==
    ASSUME NEW t \in Tabs, NEW flow, NEW required, NEW invalid, SilentReturn(t, flow, required, invalid)
    PROVE  Onward(t)
    BY RespondIsOnward DEF SilentReturn

\* LoginRequests of the user: those that do not ask for a login are quiet.
LEMMA VisitStaysOut ==
    ASSUME LoginAssumption, LoginInv, LoggedOutInv, NEW t \in Tabs,
           Navigate(t) \/ ClickLogin(t) \/ ClickLogout(t) \/ \E k \in Attempts : RepeatCallback(t, k)
    PROVE  LoggedOutInv'
<1>1. UNCHANGED <<cookie, checked>>
    BY DEF Navigate, ClickLogin, ClickLogout, RepeatCallback
<1>2. CASE Navigate(t)
  <2>1. PICK nav \in BOOLEAN, private \in BOOLEAN :
                /\ tabs' = [tabs EXCEPT ![t] = [Request(t, "get") EXCEPT !.nav = nav, !.private = private]]
                /\ loggedOut' = (loggedOut /\ ~private)
      BY <1>2 DEF Navigate, Visit
  <2> DEFINE q == [Request(t, "get") EXCEPT !.nav = nav, !.private = private]
  <2>2. q.at = "get" /\ q.sid = cookie /\ (q.checked <=> checked # "no") /\ q.private = private
      BY DEF Request, Idle
  <2>3. tabs' = [tabs EXCEPT ![t] = q]
      BY <2>1
  <2> HIDE DEF q
  <2>4. HomeLogsOut(q) /\ (loggedOut' => loggedOut /\ Quiet(q))
      BY <2>1, <2>2 DEF LoggedOutInv, HomeLogsOut, Quiet
  <2> QED BY <1>1, <2>3, <2>4, TabStaysOut
<1>3. CASE ClickLogout(t)
  <2> DEFINE q == Request(t, "logout")
  <2>1. q.at = "logout" /\ q.sid = cookie
      BY DEF Request, Idle
  <2>2. tabs' = [tabs EXCEPT ![t] = q] /\ loggedOut' = loggedOut
      BY <1>3 DEF ClickLogout, Visit
  <2> HIDE DEF q
  <2>3. HomeLogsOut(q) /\ (loggedOut => Quiet(q))
      BY <2>1 DEF LoggedOutInv, HomeLogsOut, Quiet
  <2> QED BY <1>1, <2>2, <2>3, TabStaysOut
<1>4. CASE ClickLogin(t)
  <2> DEFINE q == Request(t, "login")
  <2>1. q.at = "login"
      BY DEF Request, Idle
  <2>2. tabs' = [tabs EXCEPT ![t] = q] /\ ~loggedOut'
      BY <1>4 DEF ClickLogin, Visit
  <2> HIDE DEF q
  <2> QED BY <1>1, <2>1, <2>2, TabStaysOut DEF HomeLogsOut
<1>5. ASSUME NEW k \in Attempts, RepeatCallback(t, k) PROVE LoggedOutInv'
  <2> DEFINE q == [Request(t, "callback") EXCEPT !.attempt = k, !.answer = attempts[k].answer]
  <2>1. q.at = "callback"
      BY DEF Request, Idle
  <2>2. tabs' = [tabs EXCEPT ![t] = q] /\ ~loggedOut'
      BY <1>5 DEF RepeatCallback, Visit
  <2> HIDE DEF q
  <2> QED BY <1>1, <2>1, <2>2, TabStaysOut DEF HomeLogsOut
<1> QED BY <1>2, <1>3, <1>4, <1>5

\* A response that leads home makes everyone quiet, if nobody else is at work.
LEMMA ArriveStaysOut ==
    ASSUME LoginAssumption, LoginInv, LoggedOutInv, NEW t \in Tabs, Arrive(t) PROVE LoggedOutInv'
<1> DEFINE tab == tabs[t]
           at == IF tab.to = "home" THEN "get" ELSE tab.to
           cookie1 == IF tab.setCookie = Keep THEN cookie ELSE tab.setCookie
           checked1 == IF tab.setChecked = Keep THEN checked ELSE tab.setChecked
           q == [Idle EXCEPT !.at = at,
                            !.private = tab.private /\ tab.to # "home",
                            !.attempt = IF at = "forum" THEN tab.attempt ELSE @,
                            !.page = IF at = "idle" THEN tab.page ELSE @,
                            !.sid = IF at \in {"idle", "forum"} THEN @ ELSE cookie1,
                            !.checked = at = "get" /\ checked1 # "no"]
<1>1. /\ tab.at = "response" /\ tabs' = [tabs EXCEPT ![t] = q]
      /\ cookie' = cookie1 /\ checked' = checked1
      /\ loggedOut' = (loggedOut \/ (tab.to = "home" /\ \A u \in Tabs \ {t} : tabs[u].at = "idle"))
    BY DEF Arrive
<1>2. /\ q.at = at /\ (at = "get" => q.sid = cookie1) /\ (tab.to = "home" => ~q.private)
      /\ q.checked <=> at = "get" /\ checked1 # "no"
    BY DEF Idle
<1>3. tab.to \in {"idle", "get", "login", "silent", "forum", "home"}
    BY DEF LoginInv, LoginTypes, LoginRequests
<1> HIDE DEF q
<1>4. tabs'[t] = q /\ \A u \in Tabs \ {t} : tabs'[u] = tabs[u]
    BY <1>1 DEF LoginInv, LoginTypes
<1>5. HomeLogsOut(tab) /\ HomeLogsOut(q)
    BY <1>2, <1>3 DEF LoggedOutInv, HomeLogsOut
<1>6. \A u \in Tabs : HomeLogsOut(tabs'[u])
    BY <1>4, <1>5 DEF LoggedOutInv
<1>7. CASE loggedOut
  <2>1. tab.to = "idle" /\ tab.setCookie \in {Keep, NoSid} /\ tab.setChecked = Keep
      BY <1>1, <1>7 DEF LoggedOutInv, Quiet
  <2>2. cookie' = NoSid /\ checked' = "closing"
      BY <1>1, <1>7, <2>1 DEF LoggedOutInv
  <2>3. Quiet(q)
      BY <1>2, <2>1 DEF Quiet
  <2>4. \A u \in Tabs : Quiet(tabs'[u])
      BY <1>4, <1>7, <2>3 DEF LoggedOutInv
  <2> QED BY <1>6, <2>2, <2>4 DEF LoggedOutInv, HomeLogsOut, Quiet
<1>8. CASE tab.to = "home" /\ \A u \in Tabs \ {t} : tabs[u].at = "idle"
  <2>1. cookie' = NoSid /\ checked' = "closing"
      BY <1>1, <1>5, <1>8, KeepIsNothingElse DEF HomeLogsOut
  <2>2. Quiet(q)
      BY <1>1, <1>2, <1>8, <2>1 DEF Quiet
  <2>3. \A u \in Tabs \ {t} : Quiet(tabs[u])
      BY <1>8 DEF Quiet
  <2>4. \A u \in Tabs : Quiet(tabs'[u])
      BY <1>4, <2>2, <2>3
  <2> QED BY <1>6, <2>1, <2>4 DEF LoggedOutInv, HomeLogsOut, Quiet
<1>9. CASE ~loggedOut'
    BY <1>6, <1>9 DEF LoggedOutInv, HomeLogsOut
<1> QED BY <1>1, <1>7, <1>8, <1>9

\* A page that is served without a session, and without looking for one.
LEMMA ServePageStaysOut ==
    ASSUME LoginAssumption, LoginInv, LoggedOutInv, NEW t \in Tabs, ServePage(t) PROVE LoggedOutInv'
<1>1. PICK fail \in BOOLEAN : \E markFails \in BOOLEAN :
          LET loaded == Loaded(t, fail)
              retry  == loaded /\ sessions[tabs[t].sid].due /\ tabs[t].nav /\ ~sessions[tabs[t].sid].tried
              probe  == ~loaded /\ tabs[t].nav /\ metadata /\ ~tabs[t].checked
              asks   == ~loaded /\ tabs[t].nav /\ ~probe /\ tabs[t].private
          IN  tabs' = [tabs EXCEPT ![t] =
                     [Idle EXCEPT !.at = "response",
                               !.to = IF retry \/ probe THEN "silent" ELSE IF asks THEN "login" ELSE "idle",
                               !.private = (retry \/ probe \/ asks) /\ tabs[t].private,
                               !.page = IF loaded THEN tabs[t].sid ELSE NoSid,
                               !.setCookie = IF Invalid(t, fail) THEN NoSid ELSE Keep]]
    BY DEF ServePage
<1> DEFINE loaded == Loaded(t, fail)
           retry  == loaded /\ sessions[tabs[t].sid].due /\ tabs[t].nav /\ ~sessions[tabs[t].sid].tried
           probe  == ~loaded /\ tabs[t].nav /\ metadata /\ ~tabs[t].checked
           asks   == ~loaded /\ tabs[t].nav /\ ~probe /\ tabs[t].private
           q == [Idle EXCEPT !.at = "response",
                               !.to = IF retry \/ probe THEN "silent" ELSE IF asks THEN "login" ELSE "idle",
                               !.private = (retry \/ probe \/ asks) /\ tabs[t].private,
                               !.page = IF loaded THEN tabs[t].sid ELSE NoSid,
                               !.setCookie = IF Invalid(t, fail) THEN NoSid ELSE Keep]
<1>2. tabs' = [tabs EXCEPT ![t] = q]
    BY <1>1
<1>3. /\ q.at = "response" /\ q.to = (IF retry \/ probe THEN "silent" ELSE IF asks THEN "login" ELSE "idle")
      /\ q.setCookie \in {Keep, NoSid} /\ q.setChecked = Keep
    BY DEF Idle
<1>4. tabs[t].at = "get" /\ UNCHANGED <<cookie, checked, loggedOut>>
    BY DEF ServePage
<1>5. loggedOut => tabs[t].sid = NoSid /\ tabs[t].checked /\ ~tabs[t].private
    BY <1>4 DEF LoggedOutInv, Quiet
<1>6. loggedOut => ~loaded /\ ~probe /\ ~asks
    BY <1>5, KeepIsNothingElse DEF Loaded
<1> HIDE DEF q
<1>7. HomeLogsOut(q) /\ (loggedOut => Quiet(q))
    BY <1>3, <1>6 DEF HomeLogsOut, Quiet
<1> QED BY <1>2, <1>4, <1>7, TabStaysOut

LEMMA ServeLogoutStaysOut ==
    ASSUME LoginAssumption, LoginInv, LoggedOutInv, NEW t \in Tabs, ServeLogout(t) PROVE LoggedOutInv'
<1>1. tabs[t].at = "logout" /\ UNCHANGED <<cookie, checked, loggedOut>>
    BY DEF ServeLogout
<1>2. loggedOut => tabs[t].sid = NoSid /\ ~Live(tabs[t].sid)
    BY <1>1, KeepIsNothingElse DEF LoggedOutInv, Quiet
<1>3. CASE Live(tabs[t].sid) /\ Respond(t, "home", FALSE, NoSid, "closing")
  <2> DEFINE q == [Idle EXCEPT !.at = "response", !.to = "home", !.private = "home" # "idle" /\ tabs[t].private,
                              !.page = tabs[t].page,
                              !.setChecked = "closing", !.setCookie = NoSid]
  <2>1. /\ tabs' = [tabs EXCEPT ![t] = q]
        /\ q.at = "response" /\ q.to = "home" /\ q.setChecked = "closing" /\ q.setCookie = NoSid
      BY <1>3 DEF Respond, Idle
  <2> HIDE DEF q
  <2>2. HomeLogsOut(q)
      BY <2>1 DEF HomeLogsOut
  <2> QED BY <1>1, <1>2, <1>3, <2>1, <2>2, TabStaysOut
<1>4. CASE Respond(t, "idle", Invalid(t, FALSE), Keep, Keep)
  <2> DEFINE q == [Idle EXCEPT !.at = "response", !.to = "idle", !.private = FALSE, !.page = tabs[t].page, !.setChecked = Keep,
                              !.setCookie = IF Keep = Keep /\ Invalid(t, FALSE) THEN NoSid ELSE Keep]
  <2>1. tabs' = [tabs EXCEPT ![t] = q]
      BY <1>4 DEF Respond
  <2>2. q.at = "response" /\ q.to = "idle" /\ q.setChecked = Keep /\ q.setCookie \in {Keep, NoSid}
      BY DEF Idle
  <2> HIDE DEF q
  <2>3. HomeLogsOut(q) /\ Quiet(q)
      BY <2>2 DEF HomeLogsOut, Quiet
  <2> QED BY <1>1, <2>1, <2>3, TabStaysOut
<1> QED BY <1>3, <1>4 DEF ServeLogout

\* The handlers of a login.
LEMMA BeginIsOnward ==
    ASSUME NEW t \in Tabs, NEW k \in Attempts,
           tabs' = [tabs EXCEPT ![t] = [Idle EXCEPT !.at = "response", !.to = "forum", !.attempt = k,
                                        !.setCookie = IF Invalid(t, FALSE) THEN NoSid ELSE Keep]]
    PROVE  Onward(t)
<1> DEFINE q == [Idle EXCEPT !.at = "response", !.to = "forum", !.attempt = k,
                             !.setCookie = IF Invalid(t, FALSE) THEN NoSid ELSE Keep]
<1>1. tabs' = [tabs EXCEPT ![t] = q] /\ q.to = "forum"
    BY DEF Idle
<1> HIDE DEF q
<1> QED BY <1>1 DEF Onward, HomeLogsOut

LEMMA HandlersStayOut ==
    ASSUME LoginAssumption, LoginInv, LoggedOutInv, NEW t \in Tabs,
           \/ ServeLogin(t) \/ ServeSilent(t) \/ ForumAnswers(t) \/ TurnBack(t) \/ Callback(t)
           \/ Declined(t) \/ LoginFails(t) \/ Exchange(t) \/ Replace(t)
    PROVE  LoggedOutInv'
<1>1. /\ tabs[t].at \in {"login", "silent", "forum", "callback", "answered", "replace"}
      /\ UNCHANGED <<cookie, checked, loggedOut>> /\ tabs \in [Tabs -> LoginRequests] /\ tabs[t] \in LoginRequests
    BY DEF ServeLogin, ServeSilent, ForumAnswers, TurnBack, Callback, Declined, LoginFails, Exchange, Replace,
           LoginInv, LoginTypes
<1>2. CASE ServeLogin(t)
  <2>1. CASE Respond(t, "get", FALSE, Keep, Keep)
      BY <1>1, <2>1, RespondIsOnward, BusyStaysOut
  <2>2. CASE Begin(t, "interactive", Respond(t, "idle", Invalid(t, FALSE), Keep, Keep))
    <3>1. Respond(t, "idle", Invalid(t, FALSE), Keep, Keep) => Onward(t)
        BY RespondIsOnward
    <3>2. Onward(t)
        BY <2>2, <3>1, BeginIsOnward DEF Begin
    <3> QED BY <1>1, <3>2, BusyStaysOut
  <2> QED BY <1>2, <2>1, <2>2 DEF ServeLogin
<1>3. CASE ServeSilent(t)
  <2>1. PICK flow : Begin(t, flow, SilentReturn(t, flow, FALSE, Invalid(t, FALSE)))
      BY <1>3 DEF ServeSilent
  <2>2. SilentReturn(t, flow, FALSE, Invalid(t, FALSE)) => Onward(t)
      BY SilentReturnIsOnward
  <2>3. Onward(t)
      BY <2>1, <2>2, BeginIsOnward DEF Begin
  <2> QED BY <1>1, <2>3, BusyStaysOut
<1>4. CASE ForumAnswers(t)
  <2>1. PICK answer : tabs' = [tabs EXCEPT ![t] = [Request(t, "callback") EXCEPT
                                                 !.attempt = tabs[t].attempt, !.answer = answer]]
      BY <1>4 DEF ForumAnswers
  <2> DEFINE q == [Request(t, "callback") EXCEPT !.attempt = tabs[t].attempt, !.answer = answer]
  <2>2. q.at = "callback"
      BY DEF Request, Idle
  <2>3. tabs' = [tabs EXCEPT ![t] = q]
      BY <2>1
  <2> HIDE DEF q
  <2>4. Onward(t)
      BY <2>2, <2>3 DEF Onward, HomeLogsOut
  <2> QED BY <1>1, <2>4, BusyStaysOut
<1>5. CASE TurnBack(t)
  <2>1. tabs' = [tabs EXCEPT ![t] = Idle] /\ HomeLogsOut(Idle)
      BY <1>5 DEF TurnBack, HomeLogsOut, Idle
  <2>2. Onward(t)
      BY <2>1 DEF Onward
  <2> QED BY <1>1, <2>2, BusyStaysOut
<1>6. CASE Callback(t)
  <2>1. CASE Respond(t, "idle", Invalid(t, FALSE), Keep, Keep)
      BY <1>1, <2>1, RespondIsOnward, BusyStaysOut
  <2>2. CASE tabs' = [tabs EXCEPT ![t].at = "answered", ![t].private = attempts[tabs[t].attempt].private,
                                  ![t].invalid = Invalid(t, FALSE)]
    <3> DEFINE q == [tabs[t] EXCEPT !.at = "answered", !.private = attempts[tabs[t].attempt].private,
                                    !.invalid = Invalid(t, FALSE)]
    <3>1. tabs' = [tabs EXCEPT ![t] = q] /\ q.at = "answered"
        BY <1>1, <2>2 DEF LoginRequests
    <3> HIDE DEF q
    <3>2. Onward(t)
        BY <3>1 DEF Onward, HomeLogsOut
    <3> QED BY <1>1, <3>2, BusyStaysOut
  <2> QED BY <1>6, <2>1, <2>2 DEF Callback
<1>7. CASE Declined(t)
  <2>1. Onward(t)
      BY <1>7, RespondIsOnward, SilentReturnIsOnward DEF Declined
  <2> QED BY <1>1, <2>1, BusyStaysOut
<1>8. CASE LoginFails(t)
  <2>1. Onward(t)
      BY <1>8, RespondIsOnward, SilentReturnIsOnward DEF LoginFails
  <2> QED BY <1>1, <2>1, BusyStaysOut
<1>9. CASE Exchange(t)
  <2>1. PICK s \in Sids : tabs' = [tabs EXCEPT ![t].at = "replace", ![t].created = s]
      BY <1>9 DEF Exchange
  <2> DEFINE q == [tabs[t] EXCEPT !.at = "replace", !.created = s]
  <2>2. tabs' = [tabs EXCEPT ![t] = q] /\ q.at = "replace"
      BY <1>1, <2>1 DEF LoginRequests
  <2> HIDE DEF q
  <2>3. Onward(t)
      BY <2>2 DEF Onward, HomeLogsOut
  <2> QED BY <1>1, <2>3, BusyStaysOut
<1>10. CASE Replace(t)
  <2>1. Onward(t)
      BY <1>10, RespondIsOnward DEF Replace
  <2> QED BY <1>1, <2>1, BusyStaysOut
<1> QED BY <1>2, <1>3, <1>4, <1>5, <1>6, <1>7, <1>8, <1>9, <1>10

LEMMA LoggedOutStep ==
    ASSUME LoginAssumption, LoginInv, LoggedOutInv, [LoginNext]_loginVars PROVE LoggedOutInv'
<1>1. CASE UNCHANGED <<cookie, checked, tabs, loggedOut>>
    BY <1>1 DEF LoggedOutInv, HomeLogsOut, Quiet
<1>2. ASSUME NEW t \in Tabs, TabStep(t) PROVE LoggedOutInv'
    BY <1>2, ServePageStaysOut, ServeLogoutStaysOut, ArriveStaysOut, HandlersStayOut DEF TabStep
<1>3. ASSUME NEW t \in Tabs,
             Navigate(t) \/ ClickLogin(t) \/ ClickLogout(t) \/ \E k \in Attempts : RepeatCallback(t, k)
      PROVE  LoggedOutInv'
    BY <1>3, VisitStaysOut
<1>4. ASSUME NEW k \in Attempts, AttemptExpires(k) PROVE LoggedOutInv'
    BY <1>1, <1>4 DEF AttemptExpires
<1>5. ASSUME NEW s \in Sids, SessionDue(s) \/ CleanupSession(s) PROVE LoggedOutInv'
    BY <1>1, <1>5 DEF SessionDue, CleanupSession
<1>6. CASE CookieExpires
    BY <1>6 DEF CookieExpires, LoggedOutInv, HomeLogsOut
<1>7. CASE CloseBrowser
  <2>1. ~loggedOut' /\ \A t \in Tabs : tabs'[t].at = "idle"
      BY <1>7 DEF CloseBrowser, Idle
  <2> QED BY <2>1 DEF LoggedOutInv, HomeLogsOut
<1>8. CASE ForumChanges
    BY <1>1, <1>8 DEF ForumChanges
<1> QED BY <1>1, <1>2, <1>3, <1>4, <1>5, <1>6, <1>7, <1>8 DEF LoginNext, loginVars

\* After a logout with no other request on its way (logout of auth/oidc.rs),
\* the browser has no session until the user follows the login link, repeats a
\* callback, opens a page that requires a login (session_auth_middleware sends
\* that to /login) or closes the browser: the check of the forum stays stopped,
\* and no response that comes sets a session.
THEOREM LogoutsLast == LoginSpec => []LoggedOutStaysOut
<1>1. LoginInit => LoggedOutInv
    BY LoggedOutStart
<1>2. LoginInv /\ LoggedOutInv /\ [LoginNext]_loginVars => LoggedOutInv'
    BY LoggedOutStep, LoginAssumption
<1>3. LoggedOutInv => LoggedOutStaysOut
    BY DEF LoggedOutInv, LoggedOutStaysOut
<1> QED BY <1>1, <1>2, <1>3, LoginInvariance, PTL DEF LoginSpec
==============================================================================
