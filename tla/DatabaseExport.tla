--------------------------- MODULE DatabaseExport ---------------------------
(***************************************************************************)
(* How the export of the whole catalogue is made and how files are handed  *)
(* out (services/database_export_service.rs, services/archive_service.rs,  *)
(* routes/downloads.rs).                                                   *)
(*                                                                         *)
(* The export copies table after table into an SQLite file while approvals *)
(* and the maintenance pages commit; it is packed under a partial name,    *)
(* renamed, and the older ones are removed.  The zips of a system are      *)
(* stored the same way under another directory.  A download lists the      *)
(* directory, then opens the file it chose, which may be gone by then.     *)
(*                                                                         *)
(* When an export is due is the subject of ArchiveWorker.  Of the twelve   *)
(* tables four are kept: one that others refer to, the discs, a child      *)
(* with such a reference, and a child with the content of an approval.     *)
(***************************************************************************)
EXTENDS Naturals, Sequences, FiniteSets, FiniteSetsExt

CONSTANTS
    NotRead,       \* a table not read yet, a file not complete
    Catalogued,    \* the ids discs may get
    RegionCodes,   \* the codes regions may have
    Downloaders,   \* the visitors
    MaxCommits,    \* bound: commits to the catalogue
    MaxExports,    \* bound: exports begun, and zips stored
    MaxFaults      \* bound: failures and stops of the worker

VARIABLES
    database,      \* the tables of the catalogue, as committed
    directory,     \* the files of both directories
    exporter,      \* where the worker is
    snapshot,      \* what the transaction of the export sees, from its first read
    output,        \* the tables of the SQLite file under way
    exportClock,   \* the time of the newest export or zip begun
    visitor,       \* what each visitor was shown, chose and was served
    committed,     \* commits so far
    faults,        \* failures and stops so far
    since,         \* history: the states of the catalogue since the export began
    newest         \* history: the time of the newest file published

exportWork == <<exporter, snapshot, output, exportClock>>
exportHistory == <<since, newest>>
exportVars == <<database, directory, exportWork, visitor, committed, faults, exportHistory>>

Tables == <<"regions", "discs", "disc_regions", "files">>
Dirs == {"database", "zips"}

\* The rows of the tables, and of the copies.
Databases == [regions : SUBSET RegionCodes, status : [Catalogued -> {"Absent", "Unverified", "Disabled"}],
              discs : [Catalogued -> Nat], disc_regions : [Catalogued -> RegionCodes],
              files : [Catalogued -> Nat]]
Copies == [{Tables[i] : i \in DOMAIN Tables} ->
              SUBSET (RegionCodes \cup [id : Catalogued, value : Nat]
                                  \cup [disc_id : Catalogued, value : Nat \cup RegionCodes])]

ASSUME ExportAssumption ==
    /\ RegionCodes # {}
    /\ NotRead \notin Nat \cup Databases \cup Copies

-----------------------------------------------------------------------------
(* What is copied: SELECTs that leave out whatever belongs to a Disabled   *)
(* disc.                                                                   *)

Exported(db) == {d \in Catalogued : db.status[d] \notin {"Absent", "Disabled"}}

LookupRows(db) == db.regions
DiscRows(db) == {[id |-> d, value |-> db.discs[d]] : d \in Exported(db)}
ChildRows(db, child) == {[disc_id |-> d, value |-> child[d]] : d \in Exported(db)}

RowsOf(table, db) ==
    CASE table = "regions" -> LookupRows(db)
      [] table = "discs" -> DiscRows(db)
      [] table = "disc_regions" -> ChildRows(db, db.disc_regions)
      [] table = "files" -> ChildRows(db, db.files)

TableNames == {Tables[i] : i \in DOMAIN Tables}
CopyOf(db) == [t \in TableNames |-> RowsOf(t, db)]
NothingRead == [t \in TableNames |-> NotRead]

\* PRAGMA foreign_key_check finds nothing.
ReferencesHold(tables) ==
    LET ids == {row.id : row \in tables["discs"]}
    IN  /\ \A row \in tables["disc_regions"] : row.disc_id \in ids /\ row.value \in tables["regions"]
        /\ \A row \in tables["files"] : row.disc_id \in ids

-----------------------------------------------------------------------------
(* The directories.                                                        *)

\* The names parse_export_filename and the extension zip let through.
Finished(dir) == {f \in directory[dir] : f.kind = "final"}

Latest(dir) == LET times == {f.at : f \in Finished(dir)} IN IF times = {} THEN 0 ELSE Max(times)

Working(kind, content) == [kind |-> kind, at |-> exportClock, content |-> content]
Partials(dir) == {f \in directory[dir] : f.kind # "final"}

NewVisitor == [at |-> "idle", dir |-> "database", shown |-> 0, chosen |-> 0, floor |-> 0,
               content |-> NotRead]

DatabaseExportInit ==
    /\ database = [regions |-> {CHOOSE r \in RegionCodes : TRUE},
                   status |-> [d \in Catalogued |-> "Absent"],
                   discs |-> [d \in Catalogued |-> 0],
                   disc_regions |-> [d \in Catalogued |-> CHOOSE r \in RegionCodes : TRUE],
                   files |-> [d \in Catalogued |-> 0]]
    /\ directory = [dir \in Dirs |-> {}]
    /\ exporter = "asleep"
    /\ snapshot = NotRead
    /\ output = NothingRead
    /\ exportClock = 0
    /\ visitor = [v \in Downloaders |-> NewVisitor]
    /\ committed = 0
    /\ faults = 0
    /\ since = {}
    /\ newest = [dir \in Dirs |-> 0]

-----------------------------------------------------------------------------
(* Commits to the catalogue, each one transaction.                         *)

Commit(db) ==
    /\ committed < MaxCommits
    /\ committed' = committed + 1
    /\ database' = db
    /\ since' = IF exporter = "asleep" THEN since ELSE since \cup {db}
    /\ UNCHANGED <<directory, exportWork, visitor, faults, newest>>

\* An approval writes the disc and its children; it may disable the disc.
ApproveDisc(d, r, status) ==
    /\ r \in database.regions
    /\ Commit([database EXCEPT !.status[d] = status, !.discs[d] = committed + 1,
                               !.disc_regions[d] = r, !.files[d] = committed + 1])

\* The maintenance page gives a region another code, or adds one.
RecodeRegion(old, new) ==
    /\ old \in database.regions
    /\ new \notin database.regions
    /\ Commit([database EXCEPT
                 !.regions = (@ \ {old}) \cup {new},
                 !.disc_regions = [d \in Catalogued |-> IF @[d] = old THEN new ELSE @[d]]])

-----------------------------------------------------------------------------
(* The worker makes an export.                                             *)

\* The partial files an earlier attempt left go first.
BeginExport ==
    /\ exporter = "asleep"
    /\ exportClock < MaxExports
    /\ exportClock' = exportClock + 1
    /\ exporter' = "read"
    /\ directory' = [directory EXCEPT !["database"] =
           (@ \ Partials("database")) \cup {[kind |-> "sqlite", at |-> exportClock + 1,
                                              content |-> NotRead]}]
    /\ snapshot' = NotRead
    /\ output' = NothingRead
    /\ since' = {database}
    /\ UNCHANGED <<database, visitor, committed, faults, newest>>

NextTable == CHOOSE i \in DOMAIN Tables :
                /\ output[Tables[i]] = NotRead
                /\ \A j \in 1..(i - 1) : output[Tables[j]] # NotRead

CopyTable(db) ==
    /\ exporter = "read"
    /\ output' = [output EXCEPT ![Tables[NextTable]] = RowsOf(Tables[NextTable], db)]
    /\ exporter' = IF NextTable = Len(Tables) THEN "check" ELSE "read"
    /\ UNCHANGED <<database, directory, exportClock, visitor, committed, faults, exportHistory>>

\* Mutant: every SELECT sees what is committed when it runs.
ReadTableCommitted == CopyTable(database) /\ snapshot' = database

\* REPEATABLE READ: the first SELECT, not the BEGIN, takes the snapshot.
ReadTable ==
    LET seen == IF snapshot = NotRead THEN database ELSE snapshot
    IN  CopyTable(seen) /\ snapshot' = seen

\* The transaction and the SQLite file are done with.
Sleep ==
    /\ exporter' = "asleep"
    /\ snapshot' = NotRead
    /\ output' = NothingRead
    /\ since' = {}
    /\ UNCHANGED <<database, exportClock, visitor, committed, newest>>

\* A failure takes both partial files away.
GiveUp == Sleep /\ directory' = [directory EXCEPT !["database"] = @ \ Partials("database")]

CheckExport ==
    /\ exporter = "check"
    /\ \/ /\ ReferencesHold(output)
          /\ exporter' = "compress"
          /\ UNCHANGED <<database, directory, snapshot, output, exportClock, visitor, committed,
                         exportHistory>>
       \/ ~ReferencesHold(output) /\ GiveUp
    /\ UNCHANGED faults

\* Mutant: the packed file has its final name from the start.
CompressInPlace ==
    /\ exporter = "compress"
    /\ exporter' = "finish"
    /\ directory' = [directory EXCEPT !["database"] = @ \cup {Working("final", NotRead)}]
    /\ UNCHANGED <<database, snapshot, output, exportClock, visitor, committed, faults,
                   exportHistory>>

Compress ==
    /\ exporter = "compress"
    /\ exporter' = "finish"
    /\ directory' = [directory EXCEPT !["database"] = @ \cup {Working("partial", NotRead)}]
    /\ UNCHANGED <<database, snapshot, output, exportClock, visitor, committed, faults,
                   exportHistory>>

\* finish, sync_all.
FinishPacking ==
    /\ exporter = "finish"
    /\ exporter' = "publish"
    /\ directory' = [directory EXCEPT !["database"] =
           {IF f.at = exportClock /\ f.kind # "sqlite" THEN [f EXCEPT !.content = output] ELSE f :
               f \in @}]
    /\ UNCHANGED <<database, snapshot, output, exportClock, visitor, committed, faults,
                   exportHistory>>

\* The rename; the SQLite file goes with it.
PublishExport ==
    /\ exporter = "publish"
    /\ exporter' = "remove"
    /\ directory' = [directory EXCEPT !["database"] = Finished("database") \cup
                                                      {Working("final", output)}]
    /\ newest' = [newest EXCEPT !["database"] = exportClock]
    /\ UNCHANGED <<database, snapshot, output, exportClock, visitor, committed, faults, since>>

\* The rename fails: the partial files stay until the next export.
RenameFails ==
    /\ exporter = "publish"
    /\ faults < MaxFaults
    /\ faults' = faults + 1
    /\ Sleep
    /\ UNCHANGED directory

RemoveOldExports ==
    /\ exporter = "remove"
    /\ Sleep
    /\ directory' = [directory EXCEPT !["database"] =
                        {f \in @ : f.kind = "final" => f.at = exportClock}]
    /\ UNCHANGED faults

ExportFails ==
    /\ exporter \in {"read", "check", "compress", "finish"}
    /\ faults < MaxFaults
    /\ faults' = faults + 1
    /\ GiveUp

\* The server stops and starts.
StopExport ==
    /\ exporter # "asleep"
    /\ faults < MaxFaults
    /\ faults' = faults + 1
    /\ Sleep
    /\ UNCHANGED directory

-----------------------------------------------------------------------------
(* The same worker stores a zip: store_archive_in_dir.                     *)

\* Temporary names are random: what a stop leaves is never removed.
WriteZip ==
    /\ exporter = "asleep"
    /\ exportClock < MaxExports
    /\ exportClock' = exportClock + 1
    /\ exporter' = "rename zip"
    /\ directory' = [directory EXCEPT !["zips"] =
                        @ \cup {[kind |-> "partial", at |-> exportClock + 1, content |-> exportClock + 1]}]
    /\ UNCHANGED <<database, snapshot, output, visitor, committed, faults, exportHistory>>

RenameZip ==
    /\ exporter = "rename zip"
    /\ exporter' = "remove zips"
    /\ directory' = [directory EXCEPT !["zips"] =
                        {IF f.at = exportClock THEN [f EXCEPT !.kind = "final"] ELSE f : f \in @}]
    /\ newest' = [newest EXCEPT !["zips"] = exportClock]
    /\ UNCHANGED <<database, snapshot, output, exportClock, visitor, committed, faults, since>>

\* A write or a rename that fails takes its temporary file away.
StoreFails ==
    /\ exporter = "rename zip"
    /\ faults < MaxFaults
    /\ faults' = faults + 1
    /\ exporter' = "asleep"
    /\ directory' = [directory EXCEPT !["zips"] = {f \in @ : f.at # exportClock}]
    /\ UNCHANGED <<database, snapshot, output, exportClock, visitor, committed, exportHistory>>

RemoveOtherZips ==
    /\ exporter = "remove zips"
    /\ exporter' = "asleep"
    /\ directory' = [directory EXCEPT !["zips"] =
                        {f \in @ : f.kind = "final" => f.at = exportClock}]
    /\ UNCHANGED <<database, snapshot, output, exportClock, visitor, committed, faults,
                   exportHistory>>

-----------------------------------------------------------------------------
(* Downloads.                                                              *)

VisitorNow(v, record) ==
    /\ visitor' = [visitor EXCEPT ![v] = record]
    /\ UNCHANGED <<database, directory, exportWork, committed, faults, exportHistory>>

\* downloads_page names the date of the export.
DownloadsPage(v) ==
    /\ visitor[v].at = "idle"
    /\ VisitorNow(v, [NewVisitor EXCEPT !.shown = Latest("database")])

\* latest_export, newest_zip_path: the directory is listed.
ChooseFile(v, dir) ==
    /\ visitor[v].at = "idle"
    /\ VisitorNow(v, [visitor[v] EXCEPT !.dir = dir, !.floor = newest[dir], !.chosen = Latest(dir),
                                   !.at = IF Latest(dir) = 0 THEN "not found" ELSE "chosen"])

\* ServeFile, fs::read: the file is opened, if it is still there.
OpenFile(v) ==
    LET found == {f \in Finished(visitor[v].dir) : f.at = visitor[v].chosen}
    IN  /\ visitor[v].at = "chosen"
        /\ \/ found = {} /\ VisitorNow(v, [visitor[v] EXCEPT !.at = "not found"])
           \/ \E f \in found : VisitorNow(v, [visitor[v] EXCEPT !.at = "served", !.content = f.content])

\* The visitor reads the answer and goes on.
ReadAnswer(v) ==
    /\ visitor[v].at \in {"served", "not found"}
    /\ VisitorNow(v, NewVisitor)

DatabaseExportNext ==
    \/ \E d \in Catalogued, r \in RegionCodes, status \in {"Unverified", "Disabled"} :
        ApproveDisc(d, r, status)
    \/ \E old, new \in RegionCodes : RecodeRegion(old, new)
    \/ BeginExport \/ ReadTable \/ CheckExport \/ Compress \/ FinishPacking
    \/ PublishExport \/ RenameFails \/ RemoveOldExports \/ ExportFails \/ StopExport
    \/ WriteZip \/ RenameZip \/ StoreFails \/ RemoveOtherZips
    \/ \E v \in Downloaders :
        \/ DownloadsPage(v)
        \/ \E dir \in Dirs : ChooseFile(v, dir)
        \/ OpenFile(v)
        \/ ReadAnswer(v)

DatabaseExportSpec == DatabaseExportInit /\ [][DatabaseExportNext]_exportVars

-----------------------------------------------------------------------------
(* Properties.                                                             *)

\* The export is the whole catalogue as it stood at one moment since the
\* export began: no disc without the children its approval wrote with it, no
\* reference to a code renamed meanwhile, nothing of a Disabled disc.  So the
\* check of its foreign keys never refuses it, whatever commits meanwhile.
ExportIsOneState ==
    exporter \in {"check", "compress", "finish", "publish", "remove"} =>
        /\ \E db \in since : output = CopyOf(db)
        /\ ReferencesHold(output)

\* What a visitor is served is a complete file, no older than the newest one
\* published when the directory was listed or the date the page showed;
\* NotFound means that there was none, or that a newer one replaced it.
DownloadsAreWhole ==
    \A v \in Downloaders :
        LET request == visitor[v]
        IN  /\ request.at = "served" =>
                  /\ request.content # NotRead
                  /\ request.chosen >= request.floor
                  /\ request.dir = "database" => request.chosen >= request.shown
            /\ request.at = "not found" => request.floor = 0 \/ newest[request.dir] > request.floor
=============================================================================
