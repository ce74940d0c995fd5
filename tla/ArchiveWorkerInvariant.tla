----------------------- MODULE ArchiveWorkerInvariant -----------------------
(* The inductive invariant behind the safety properties of ArchiveWorker.   *)
EXTENDS ArchiveWorker

\* Where a regeneration is under way.
Working == {"list", "detail", "publish", "kind", "finish", "failed"}

\* The claims the worker holds, and the kinds it still has to make.
ControlInv ==
    /\ worker \in Working =>
          job.system \in claimed /\ job.kinds \subseteq Supported[job.system]
    /\ worker \notin Working \cup {"next"} => claimed = {}
    /\ worker \in {"list", "detail", "publish", "kind"} => job.kinds # {}
    /\ worker = "finish" => job.kinds = {}

\* What was read is no newer than the data and no older than what is served.
ReadInv ==
    /\ \A s \in Systems, k \in Kinds : served[s][k] # None =>
          served[s][k].list <= content[s] /\ served[s][k].detail <= content[s]
    /\ worker \in {"detail", "publish"} =>
          /\ job.list <= content[job.system]
          /\ \A k \in Kinds : served[job.system][k] # None =>
                served[job.system][k].list <= job.list
    /\ worker = "publish" =>
          /\ job.detail <= content[job.system]
          /\ \A k \in Kinds : served[job.system][k] # None =>
                served[job.system][k].detail <= job.detail

\* As long as nothing marks the system again, what the worker has read and
\* published of it is up to date.
FreshInv ==
    /\ StaleIsMarked
    /\ worker \in Working /\ job.system \notin dirty \cup forgotten =>
          /\ \A k \in Supported[job.system] \ job.kinds : IsFresh(job.system, k)
          /\ worker \in {"detail", "publish"} => job.list = content[job.system]
          /\ worker = "publish" => job.detail = content[job.system]
          /\ worker = "kind" => IsFresh(job.system, Kind)

\* The datfile is the first archive made, under the time that is then shown.
VersionInv ==
    /\ VersionShownIsServed
    /\ worker \in Working /\ ("dat" \notin job.kinds \/ worker = "kind") =>
          VersionOnDisk(job.system) = job.ts

\* The export under way is later than the one it replaces.
ExportInv ==
    /\ export # None =>
          export.at <= now /\ \A s \in Systems : export.snap[s] <= content[s]
    /\ worker \in {"snapshot", "rename"} =>
          making.at <= now /\ (export # None => export.at <= making.at)
    /\ worker = "rename" => \A s \in Systems :
          /\ making.snap[s] <= content[s]
          /\ export # None => export.snap[s] <= making.snap[s]

WorkerInv ==
    /\ TypeOK
    /\ ControlInv
    /\ ReadInv
    /\ FreshInv
    /\ VersionInv
    /\ ExportInv
=============================================================================
