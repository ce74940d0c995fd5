--------------------------- MODULE SystemArchives ---------------------------
(***************************************************************************)
(* The downloadable archives of a system (services/archive_service.rs).    *)
(* Whoever changes what they are made from sets systems.archives_dirty;    *)
(* the background worker takes all marks in one UPDATE, which commits at   *)
(* once, and then regenerates system after system: it reads the discs and  *)
(* their files in separate queries, writes a zip beside the old one,       *)
(* renames it and removes the old one, for each kind of archive.           *)
(*                                                                         *)
(* The data of a system is a number that every change raises; an archive   *)
(* records the two numbers it was read at and the time it is named after.  *)
(* The newest zip of a directory is the one served; store_archive removes  *)
(* the others after the rename, which nobody can tell, so they are left    *)
(* out.                                                                    *)
(***************************************************************************)
EXTENDS Integers, FiniteSets

CONSTANTS
    Systems,       \* systems.code
    Supported,     \* the kinds of archive each system has
    None,
    MaxChanges,    \* bound: changes to each system's discs
    MaxErrors      \* bound: database and file errors

Kinds == {"dat", "cue", "sbi"}
Archives == [ts : Nat, list : Nat, detail : Nat]

ASSUME ArchivesAssumption ==
    /\ Supported \in [Systems -> SUBSET Kinds]
    /\ \A s \in Systems : "dat" \in Supported[s]
    /\ None \notin Systems \cup Nat \cup Archives
    /\ MaxChanges \in Nat
    /\ MaxErrors \in Nat

VARIABLES
    content,       \* how often what a system's archives show has changed
    dirty,         \* systems whose archives_dirty is set
    served,        \* the newest zip in each archive directory
    shown,         \* ArchiveVersionsCache: the version the downloads page shows
    clock,         \* the time of the last regeneration
    worker,        \* where run_archive_worker is
    claimed,       \* systems it has taken the mark of and not dealt with
    job,           \* the regeneration under way
    errors,        \* errors so far
    forgotten      \* history: systems that are stale and that no mark tells of

archiveData == <<content, dirty, served, shown, clock>>
archiveJob == <<worker, claimed, job>>
archiveVars == <<archiveData, archiveJob, errors, forgotten>>

Locations == {"asleep", "claim", "next", "list", "detail", "publish", "kind",
              "finish", "failed", "export", "snapshot", "rename", "unforce"}

NoJob == [system |-> None, ts |-> 0, kinds |-> {}, list |-> 0, detail |-> 0]
Jobs == [system : Systems \cup {None}, ts : Nat, kinds : SUBSET Kinds,
         list : Nat, detail : Nat]

ArchivesInit ==
    /\ content = [s \in Systems |-> 0]
    /\ dirty = Systems
    /\ served = [s \in Systems |-> [k \in Kinds |-> None]]
    /\ shown = [s \in Systems |-> None]
    /\ clock = 0
    /\ worker = "asleep"
    /\ claimed = {}
    /\ job = NoJob
    /\ errors = 0
    /\ forgotten = {}

-----------------------------------------------------------------------------
(* Changes to the catalogue. *)

\* An approval or a saved system: the mark commits with the change.
MarkedChange(s) ==
    /\ content[s] < MaxChanges
    /\ content' = [content EXCEPT ![s] = @ + 1]
    /\ dirty' = dirty \cup {s}
    /\ UNCHANGED <<served, shown, clock, archiveJob, errors, forgotten>>

\* A cue rebuild or a saved region or language, which set no mark.
UnmarkedChange(s) ==
    /\ content[s] < MaxChanges
    /\ content' = [content EXCEPT ![s] = @ + 1]
    /\ forgotten' = forgotten \cup {s}
    /\ UNCHANGED <<dirty, served, shown, clock, archiveJob, errors>>

-----------------------------------------------------------------------------
(* process_dirty_archive_systems *)

ClaimDirtySystems ==
    /\ worker = "claim"
    /\ worker' = "next"
    /\ claimed' = dirty
    /\ dirty' = {}
    /\ forgotten' = forgotten \ dirty
    /\ UNCHANGED <<content, served, shown, clock, job, errors>>

\* The database is gone for this pass: no mark is taken.
ClaimFails ==
    /\ worker = "claim"
    /\ errors < MaxErrors
    /\ errors' = errors + 1
    /\ worker' = "export"
    /\ UNCHANGED <<archiveData, claimed, job, forgotten>>

\* regenerate_system_archives: one time for all archives of the system.
BeginSystem(s) ==
    /\ worker = "next"
    /\ s \in claimed
    /\ worker' = "list"
    /\ clock' = clock + 1
    /\ job' = [NoJob EXCEPT !.system = s, !.ts = clock + 1, !.kinds = Supported[s]]
    /\ UNCHANGED <<content, dirty, served, shown, claimed, errors, forgotten>>

NoSystemLeft ==
    /\ worker = "next"
    /\ claimed = {}
    /\ worker' = "export"
    /\ UNCHANGED <<archiveData, claimed, job, errors, forgotten>>

\* The archive being made: dat, then cue, then sbi.
Kind == IF "dat" \in job.kinds THEN "dat" ELSE IF "cue" \in job.kinds THEN "cue" ELSE "sbi"

ReadDiscs ==
    /\ worker = "list"
    /\ worker' = "detail"
    /\ job' = [job EXCEPT !.list = content[job.system]]
    /\ UNCHANGED <<archiveData, claimed, errors, forgotten>>

ReadFiles ==
    /\ worker = "detail"
    /\ worker' = "publish"
    /\ job' = [job EXCEPT !.detail = content[job.system]]
    /\ UNCHANGED <<archiveData, claimed, errors, forgotten>>

\* unwrap_or_default: regions or languages that cannot be read are left out.
ReadFilesInPart ==
    /\ worker = "detail"
    /\ errors < MaxErrors
    /\ errors' = errors + 1
    /\ worker' = "publish"
    /\ job' = [job EXCEPT !.detail = content[job.system]]
    /\ forgotten' = forgotten \cup {job.system}
    /\ UNCHANGED <<archiveData, claimed>>

NewArchive == [ts |-> job.ts, list |-> job.list, detail |-> job.detail]

\* Mutant: the directory is emptied before the new zip is written.
EmptyDirectory ==
    /\ worker = "publish"
    /\ \/ worker' = "kind" /\ served' = [served EXCEPT ![job.system][Kind] = NewArchive]
       \/ worker' = worker /\ served' = [served EXCEPT ![job.system][Kind] = None]
    /\ UNCHANGED <<content, dirty, shown, clock, claimed, job, errors, forgotten>>

\* store_archive: the temporary file is renamed; it is the newest zip now.
PublishArchive ==
    /\ worker = "publish"
    /\ worker' = "kind"
    /\ served' = [served EXCEPT ![job.system][Kind] = NewArchive]
    /\ UNCHANGED <<content, dirty, shown, clock, claimed, job, errors, forgotten>>

\* On to the next kind, if the system has one.
NextKind ==
    LET rest == job.kinds \ {Kind}
    IN  /\ worker = "kind"
        /\ job' = [job EXCEPT !.kinds = rest]
        /\ worker' = IF rest = {} THEN "finish" ELSE "list"
        /\ UNCHANGED <<archiveData, claimed, errors, forgotten>>

\* unwrap_or_default: a system whose media types cannot be read has no cue.
MediaTypesUnread ==
    /\ worker = "kind"
    /\ Kind = "dat"
    /\ errors < MaxErrors
    /\ errors' = errors + 1
    /\ job' = [job EXCEPT !.kinds = {}]
    /\ worker' = "finish"
    /\ forgotten' = forgotten \cup {job.system}
    /\ UNCHANGED <<archiveData, claimed>>

\* Mutant: the mark is cleared when the archives are done.
FinishAndUnmark ==
    /\ worker = "finish"
    /\ worker' = "next"
    /\ shown' = [shown EXCEPT ![job.system] = job.ts]
    /\ dirty' = dirty \ {job.system}
    /\ claimed' = claimed \ {job.system}
    /\ job' = NoJob
    /\ UNCHANGED <<content, served, clock, errors, forgotten>>

FinishSystem ==
    /\ worker = "finish"
    /\ worker' = "next"
    /\ shown' = [shown EXCEPT ![job.system] = job.ts]
    /\ claimed' = claimed \ {job.system}
    /\ job' = NoJob
    /\ UNCHANGED <<content, dirty, served, clock, errors, forgotten>>

\* A query or a file operation of the regeneration fails.
RegenerationFails ==
    /\ worker \in {"list", "detail", "publish"}
    /\ errors < MaxErrors
    /\ errors' = errors + 1
    /\ worker' = "failed"
    /\ UNCHANGED <<archiveData, claimed, job, forgotten>>

\* Mutant: a failed regeneration is only logged.
LogFailure ==
    /\ worker = "failed"
    /\ worker' = "next"
    /\ claimed' = claimed \ {job.system}
    /\ job' = NoJob
    /\ UNCHANGED <<archiveData, errors, forgotten>>

MarkAgain ==
    /\ worker = "failed"
    /\ worker' = "next"
    /\ dirty' = dirty \cup {job.system}
    /\ claimed' = claimed \ {job.system}
    /\ job' = NoJob
    /\ UNCHANGED <<content, served, shown, clock, errors, forgotten>>

\* let _ = mark_system_archives_dirty(...)
MarkAgainFails ==
    /\ worker = "failed"
    /\ errors < MaxErrors
    /\ errors' = errors + 1
    /\ worker' = "next"
    /\ forgotten' = forgotten \cup {job.system}
    /\ claimed' = claimed \ {job.system}
    /\ job' = NoJob
    /\ UNCHANGED archiveData

\* What the worker does of its own accord, and what can go wrong under it.
Regenerate ==
    \/ ClaimDirtySystems
    \/ \E s \in Systems : BeginSystem(s)
    \/ NoSystemLeft
    \/ ReadDiscs
    \/ ReadFiles
    \/ PublishArchive
    \/ NextKind
    \/ FinishSystem
    \/ MarkAgain

RegenerateBadly ==
    \/ ClaimFails
    \/ ReadFilesInPart
    \/ MediaTypesUnread
    \/ RegenerationFails
    \/ MarkAgainFails

\* archive_versions: what a start of the server reads back from the disk.
VersionOnDisk(s) == IF served[s]["dat"] = None THEN None ELSE served[s]["dat"].ts

\* Mutant: a start leaves the versions to the next regeneration.
LoseMemory ==
    /\ shown' = [s \in Systems |-> None]
    /\ worker' = "asleep"
    /\ claimed' = {}
    /\ job' = NoJob
    /\ forgotten' = forgotten \cup claimed
    /\ UNCHANGED <<content, dirty, served, clock, errors>>

\* The server stops and starts: claims live in memory only.
RestartArchives ==
    /\ shown' = [s \in Systems |-> VersionOnDisk(s)]
    /\ worker' = "asleep"
    /\ claimed' = {}
    /\ job' = NoJob
    /\ forgotten' = forgotten \cup claimed
    /\ UNCHANGED <<content, dirty, served, clock, errors>>
=============================================================================
