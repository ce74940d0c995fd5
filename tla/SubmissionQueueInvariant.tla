---------------------- MODULE SubmissionQueueInvariant ----------------------
(***************************************************************************)
(* The inductive invariant of SubmissionQueue: what every handler may rely *)
(* on, whatever the other handlers did since it last looked.               *)
(***************************************************************************)
EXTENDS SubmissionQueue

\* The advisory lock is held by the client that is in an approval transaction,
\* so there is at most one.
LockInv == \A c \in Clients : lock = c <=> pc[c] \in InTransaction

\* A submission never targets a disc that is not there.
TargetsExist ==
    \A s \in SubIds :
        subs[s] # None /\ subs[s].target # None => discs[subs[s].target] # None

\* What a handler holds, by where it is.
Holds(c) ==
    LET r == req[c]
    IN  /\ pc[c] \notin {"idle", "page"} => r.row # None
        /\ pc[c] \in {"page", "loaded", "rematch", "diff"}
              => r.sub # None /\ r.base # None /\ r.form # None
        /\ pc[c] \in {"redraft", "recheck", "resolve", "conflicts", "claim", "commit"}
              => r.sub # None
        /\ pc[c] \in {"precheck", "store", "insert"} => r.sub = None
        /\ pc[c] \in {"conflicts", "claim", "commit"} => r.current # None
        /\ r.created => pc[c] \in InTransaction \ {"insert"}
        /\ r.sub = None => r.base = None
        /\ r.base # None /\ pc[c] \notin {"page", "loaded", "rematch", "diff"}
              => r.row.target # None

\* The row it holds is still that submission: targets stay in the catalogue,
\* and a submission keeps its type and its submitter.
RowStands(c) ==
    LET r == req[c]
    IN  /\ r.row # None /\ r.row.target # None => discs[r.row.target] # None
        /\ r.sub # None /\ ~r.created => subs[r.sub] # None
        /\ r.sub # None /\ r.row # None /\ ~r.created
              => /\ subs[r.sub].type = r.row.type
                 /\ subs[r.sub].submitter = r.row.submitter

\* A row that is not in the table yet is Pending and nobody else has its id.
NewRowStands(c) ==
    LET r == req[c]
    IN  /\ r.row # None /\ r.sub = None => r.row.status = "Pending" /\ r.row.reviewer = None
        /\ r.created => /\ r.row.status = "Pending"
                        /\ r.row.reviewer = None
                        /\ subs[r.sub] = None
        /\ pc[c] = "redraft" => r.row.type = "Disc" /\ r.row.status = "Pending"

\* What the approval transaction has read is still so: the content it resolved
\* the change set on, the absence of conflicts, and the claimed row.
ApprovalStands(c) ==
    LET r == req[c]
    IN  /\ pc[c] \in {"conflicts", "claim", "commit"}
              => /\ r.current = TargetContent(discs, r.row.target)
                 /\ r.base # None => r.current = r.base
        /\ pc[c] \in {"claim", "commit"}
              => Conflicts(discs, r.row.type, r.row.target, r.current, r.changes,
                           Effective(r)) = {}
        /\ pc[c] = "commit" /\ ~r.created
              => /\ subs[r.sub].status = "Pending"
                 /\ subs[r.sub].target = r.row.target

ClientInv(c) == Holds(c) /\ RowStands(c) /\ NewRowStands(c) /\ ApprovalStands(c)

QueueInv ==
    /\ TypeOK
    /\ LockInv
    /\ TargetsExist
    /\ \A c \in Clients : ClientInv(c)
=============================================================================
