---------------------------- MODULE ArchiveWorker ----------------------------
(***************************************************************************)
(* run_archive_worker: every ten minutes it regenerates the archives of    *)
(* the marked systems (SystemArchives) and then, if it is due, the SQLite  *)
(* export of the whole catalogue (services/database_export_service.rs).    *)
(* The export is due when there is none, when a moderator has left the     *)
(* .force marker, or once a day from 07:00 UTC.                            *)
(*                                                                         *)
(* Time is counted in half days from 07:00: an odd number is the morning   *)
(* before 07:00, an even one the rest of the same day.  As with the        *)
(* archives, older exports, removed after the rename, and partial files    *)
(* are left out: the newest complete file is the export.                   *)
(***************************************************************************)
EXTENDS SystemArchives

CONSTANTS
    MaxTime,       \* bound: half days
    MaxTriggers,   \* bound: uses of Trigger Archive Generation
    MaxCrashes     \* bound: stops of the server

Exports == [at : Nat, snap : [Systems -> Nat]]

ASSUME WorkerAssumption ==
    /\ {MaxTime, MaxTriggers, MaxCrashes} \subseteq Nat
    /\ None \notin Exports

VARIABLES
    now,           \* the time
    marker,        \* the .force file is there
    export,        \* the newest export file
    making,        \* the export under way
    triggering,    \* a moderator's trigger has left the marker, not the marks
    triggers,
    crashes,
    asked,         \* history: a trigger no export has answered
    askedSince     \* history: a trigger after the export under way took its snapshot

exportData == <<marker, export, making>>
exportHistory == <<triggering, triggers, asked, askedSince>>
exportVars == <<exportData, exportHistory, now, crashes>>
vars == <<archiveVars, exportVars>>

NoExport == [at |-> 0, snap |-> [s \in Systems |-> 0]]

Day(t) == (t + 1) \div 2
FromSeven(t) == t % 2 = 0

Init ==
    /\ ArchivesInit
    /\ now = 0
    /\ marker = FALSE
    /\ export = None
    /\ making = NoExport
    /\ triggering = FALSE
    /\ triggers = 0
    /\ crashes = 0
    /\ asked = FALSE
    /\ askedSince = FALSE

-----------------------------------------------------------------------------

\* Mutant: the export is not repeated.
ExportIsFirst == marker \/ export = None

ExportIsDue ==
    \/ marker
    \/ export = None
    \/ export # None /\ FromSeven(now) /\ Day(export.at) < Day(now)

WorkerOnly == UNCHANGED <<archiveData, claimed, job, errors, forgotten>>
SnapshotIsRead == UNCHANGED <<exportHistory, now, crashes>>

\* interval.tick()
Tick ==
    /\ worker = "asleep"
    /\ worker' = "claim"
    /\ WorkerOnly
    /\ UNCHANGED exportVars

\* regenerate_if_due_inner reads the marker and the newest file.
SkipExport ==
    /\ worker = "export"
    /\ ~ExportIsDue
    /\ worker' = "asleep"
    /\ WorkerOnly
    /\ UNCHANGED exportVars

BeginExport ==
    /\ worker = "export"
    /\ ExportIsDue
    /\ worker' = "snapshot"
    /\ making' = [making EXCEPT !.at = now]
    /\ WorkerOnly
    /\ UNCHANGED <<marker, export>>
    /\ SnapshotIsRead

\* REPEATABLE READ: every table is read as of the first query.
TakeSnapshot ==
    /\ worker = "snapshot"
    /\ worker' = "rename"
    /\ making' = [making EXCEPT !.snap = content]
    /\ askedSince' = FALSE
    /\ WorkerOnly
    /\ UNCHANGED <<marker, export, triggering, triggers, asked, now, crashes>>

ExportFails ==
    /\ worker \in {"snapshot", "rename"}
    /\ errors < MaxErrors
    /\ errors' = errors + 1
    /\ worker' = "asleep"
    /\ making' = NoExport
    /\ UNCHANGED <<archiveData, claimed, job, forgotten, marker, export>>
    /\ SnapshotIsRead

PublishExport ==
    /\ worker = "rename"
    /\ worker' = "unforce"
    /\ export' = making
    /\ asked' = askedSince
    /\ WorkerOnly
    /\ UNCHANGED <<marker, making, triggering, triggers, askedSince, now, crashes>>

\* fs::remove_file(force_marker_path()), whoever wrote it and whenever.
RemoveMarker ==
    /\ worker = "unforce"
    /\ worker' = "asleep"
    /\ marker' = FALSE
    /\ making' = NoExport
    /\ WorkerOnly
    /\ UNCHANGED export
    /\ SnapshotIsRead

-----------------------------------------------------------------------------
(* trigger_archive_generation: the marker first, then all marks. *)

LeaveMarker ==
    /\ ~triggering
    /\ triggers < MaxTriggers
    /\ triggers' = triggers + 1
    /\ triggering' = TRUE
    /\ marker' = TRUE
    /\ asked' = TRUE
    /\ askedSince' = TRUE
    /\ UNCHANGED <<archiveVars, export, making, now, crashes>>

MarkAllSystems ==
    /\ triggering
    /\ triggering' = FALSE
    /\ dirty' = Systems
    /\ UNCHANGED <<content, served, shown, clock, archiveJob, errors, forgotten,
                   exportData, triggers, asked, askedSince, now, crashes>>

\* The database fails after the marker was left: the moderator is told.
MarkingFails ==
    /\ triggering
    /\ errors < MaxErrors
    /\ errors' = errors + 1
    /\ triggering' = FALSE
    /\ UNCHANGED <<archiveData, archiveJob, forgotten,
                   exportData, triggers, asked, askedSince, now, crashes>>

-----------------------------------------------------------------------------

PassTime ==
    /\ now < MaxTime
    /\ now' = now + 1
    /\ UNCHANGED <<archiveVars, exportData, exportHistory, crashes>>

\* Partial exports are swept by the next one; the marker stays on the disk.
Crash ==
    /\ crashes < MaxCrashes
    /\ crashes' = crashes + 1
    /\ RestartArchives
    /\ making' = NoExport
    /\ triggering' = FALSE
    /\ UNCHANGED <<marker, export, triggers, asked, askedSince, now>>

Worker ==
    \/ Tick
    \/ Regenerate /\ UNCHANGED exportVars
    \/ SkipExport
    \/ BeginExport
    \/ TakeSnapshot
    \/ PublishExport
    \/ RemoveMarker

Environment ==
    \/ \E s \in Systems : (MarkedChange(s) \/ UnmarkedChange(s)) /\ UNCHANGED exportVars
    \/ RegenerateBadly /\ UNCHANGED exportVars
    \/ ExportFails
    \/ LeaveMarker
    \/ MarkAllSystems
    \/ MarkingFails
    \/ PassTime
    \/ Crash

Next == Worker \/ Environment

Spec == Init /\ [][Next]_vars

\* The worker is a task of its own and its interval keeps ticking.
FairSpec == Spec /\ WF_vars(Worker)

-----------------------------------------------------------------------------
(* Properties. *)

ArchivesTypeOK ==
    /\ content \in [Systems -> Nat]
    /\ dirty \subseteq Systems
    /\ served \in [Systems -> [Kinds -> Archives \cup {None}]]
    /\ shown \in [Systems -> Nat \cup {None}]
    /\ clock \in Nat
    /\ worker \in Locations
    /\ claimed \subseteq Systems
    /\ job \in Jobs
    /\ errors \in Nat
    /\ forgotten \subseteq Systems

ExportTypeOK ==
    /\ now \in Nat
    /\ marker \in BOOLEAN
    /\ export \in Exports \cup {None}
    /\ making \in Exports
    /\ triggering \in BOOLEAN
    /\ triggers \in Nat
    /\ crashes \in Nat
    /\ asked \in BOOLEAN
    /\ askedSince \in BOOLEAN

\* The types of the tables, the directories and the worker's state.
TypeOK == ArchivesTypeOK /\ ExportTypeOK

\* An archive shows the present data, all of it read at one state of it.
IsFresh(s, k) ==
    /\ served[s][k] # None
    /\ served[s][k].list = content[s]
    /\ served[s][k].detail = content[s]

Fresh(s) == \A k \in Supported[s] : IsFresh(s, k)

\* A system whose archives are stale or torn is marked, or the worker has its
\* mark, except where a mark was never set or was dropped: a change that sets
\* none, a crash between the claim and the archives, an error that is swallowed.
\* An approval that lands anywhere in a regeneration is never among them.
StaleIsMarked == \A s \in Systems : Fresh(s) \/ s \in dirty \cup claimed \cup forgotten

\* The version on the downloads page is that of the datfile served there, unless
\* a regeneration is under way, failed and is to be repeated, or failed unmarked.
VersionShownIsServed ==
    \A s \in Systems :
        shown[s] = VersionOnDisk(s) \/ s \in dirty \cup claimed \cup forgotten

ArchiveIsNotOlder(s, k) ==
    served[s][k] # None =>
        /\ served'[s][k] # None
        /\ served'[s][k].list >= served[s][k].list
        /\ served'[s][k].detail >= served[s][k].detail

ExportIsNotOlder ==
    export # None =>
        /\ export' # None
        /\ export'.at >= export.at
        /\ \A s \in Systems : export'.snap[s] >= export.snap[s]

\* Whatever fails and wherever the server stops, a published archive or export
\* is only ever replaced by one that was read later.
PublishedNeverGoesBack ==
    [][(\A s \in Systems, k \in Kinds : ArchiveIsNotOlder(s, k)) /\ ExportIsNotOlder]_vars

\* A marked system gets fresh archives, unless its mark is dropped as above.
MarkedIsRebuiltOrForgotten ==
    \A s \in Systems : s \in dirty ~> (Fresh(s) \/ s \in forgotten)

\* Each day from 07:00 UTC there is an export of that day or of a later one.
DailyExport ==
    \A t \in 0 .. MaxTime :
        (now = t /\ FromSeven(t)) ~> (export # None /\ Day(export.at) >= Day(t))

\* The maintenance page: the worker rebuilds pending archives on its next pass.
MarkedIsRebuilt == \A s \in Systems : s \in dirty ~> Fresh(s)

\* The message of the trigger: archive generation is triggered for the disc
\* database; so no pass finds that no export is due while a trigger waits.
TriggerIsServed == [][SkipExport => ~asked]_vars
=============================================================================
