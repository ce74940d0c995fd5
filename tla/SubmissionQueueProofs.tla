----------------------- MODULE SubmissionQueueProofs -----------------------
(***************************************************************************)
(* Proofs about SubmissionQueue: the invariant QueueInv is inductive, and  *)
(* the safety properties that rest on the advisory lock hold for every     *)
(* number of clients, submissions and discs.                               *)
(*                                                                         *)
(* The handlers implement ReviewQueue: a step that changes a table is one  *)
(* of its atomic operations, every other step is a stutter.  What holds    *)
(* of the tables of the atomic queue then holds of the program's.  A form  *)
(* is one submission however often it is posted, a disc credits exactly    *)
(* those whose submissions were approved onto it, and who approves may do  *)
(* so.                                                                     *)
(***************************************************************************)
EXTENDS SubmissionQueueInvariant, TLAPS

-----------------------------------------------------------------------------
(* Change sets and contents, and what an approval that met no conflict does *)
(* to the catalogue.                                                       *)

Catalogues == [DiscIds -> Contents \cup {None}]

\* The empty content and the empty change set have their types.
LEMMA BlankType == Blank \in Contents /\ NoChanges \in Changes
  BY DEF Blank, NoChanges, Contents, Changes, Values

\* The history builder makes a change set of two contents.
LEMMA DiffType ==
  ASSUME NEW old \in Contents, NEW new \in Contents, NEW keys
  PROVE  Diff(old, new, keys) \in Changes
  BY DEF Diff, Contents, Changes

\* A change set applied to a content is a content.
LEMMA ApplyType ==
  ASSUME NEW base \in Contents, NEW ch \in Changes
  PROVE  Apply(base, ch) \in Contents
  BY DEF Apply, Contents, Changes

\* The status an approval adds, or a review form keeps, is a change.
LEMMA ResolveType ==
  ASSUME NEW type, NEW current \in Contents, NEW ch \in Changes
  PROVE  Resolve(type, current, ch) \in Changes
<1>1. AutomaticStatus(current["status"]) \in Values \cup {Absent}
  BY DEF AutomaticStatus, Values, DiscStatuses
<1> QED BY <1>1 DEF Resolve, Changes, Fields

LEMMA PreserveType ==
  ASSUME NEW type, NEW submitted \in Changes, NEW reviewed \in Changes
  PROVE  PreserveSubmittedStatus(type, submitted, reviewed) \in Changes
  BY DEF PreserveSubmittedStatus, Changes, Fields

\* The content an approval starts from, when its target is there.
LEMMA TargetType ==
  ASSUME NEW ds \in Catalogues, NEW t \in DiscIds \cup {None},
         t # None => ds[t] # None
  PROVE  TargetContent(ds, t) \in Contents
  BY BlankType DEF TargetContent, Catalogues

\* Every match is a disc that is there, or None.
LEMMA MatchType ==
  ASSUME NEW ds \in Catalogues, NEW form \in Contents
  PROVE  /\ AddMatches(ds, form) \subseteq Existing(ds) \cup {None}
         /\ ExactMatches(ds, form) \subseteq ActiveDiscs(ds) \cup {None}
<1>1. /\ Lowest(HashMatches(ds, form["universal_hash"])) \subseteq ActiveDiscs(ds)
      /\ DatMatches(ds, form["dat"]) \subseteq ActiveDiscs(ds)
      /\ ActiveDiscs(ds) \subseteq Existing(ds)
  BY DEF Lowest, HashMatches, DatMatches, ActiveDiscs
<1> QED BY <1>1 DEF AddMatches, ExactMatches

\* The catalogue after an approval that found no conflict keeps the archive
\* names of a system apart: the new content meets no disc but its own target.
LEMMA NoConflictKeepsNamesUnique ==
  ASSUME NEW ds \in Catalogues, ArchiveNamesUniqueIn(ds),
         NEW type, NEW target \in DiscIds \cup {None}, NEW current,
         NEW ch \in Changes, NEW eff \in Contents, NEW d \in DiscIds,
         target # None => d = target,
         Conflicts(ds, type, target, current, ch, eff) = {}
  PROVE  ArchiveNamesUniqueIn([ds EXCEPT ![d] = eff])
<1> DEFINE after == [ds EXCEPT ![d] = eff]
<1>1. after[d] = eff /\ \A e \in DiscIds : e # d => after[e] = ds[e]
  BY DEF Catalogues
<1>2. IsArchiveEligible(eff) => \A e \in ArchivedDiscs(ds) :
          e # target => ~SameArchiveName(ds[e], eff)
  BY DEF Conflicts, NameMatches, IsArchiveEligible, IsActive
<1>3. SUFFICES ASSUME NEW e \in ArchivedDiscs(after), NEW f \in ArchivedDiscs(after),
                      SameArchiveName(after[e], after[f]), e # f
               PROVE  FALSE
  BY DEF ArchiveNamesUniqueIn
<1>4. /\ e \in DiscIds /\ f \in DiscIds
      /\ e # d => e \in ArchivedDiscs(ds)
      /\ f # d => f \in ArchivedDiscs(ds)
      /\ e = d \/ f = d => IsArchiveEligible(eff)
  BY <1>1, <1>3 DEF ArchivedDiscs, Existing
<1>5. CASE e # d /\ f # d
  BY <1>1, <1>3, <1>4, <1>5 DEF ArchiveNamesUniqueIn
<1>6. CASE e = d
  BY <1>1, <1>2, <1>3, <1>4, <1>6, QueueAssumption DEF SameArchiveName
<1>7. CASE f = d
  BY <1>1, <1>2, <1>3, <1>4, <1>7, QueueAssumption DEF SameArchiveName
<1> QED BY <1>5, <1>6, <1>7

\* Between two catalogues: a DAT or a universal hash that is new to an active
\* disc is on no other active disc.
NewHashesAreUnique(ds, after) ==
    \A e \in ActiveDiscs(after) :
        /\ ds[e] = None \/ ds[e]["dat"] # after[e]["dat"]
              => DatMatches(after, after[e]["dat"]) \subseteq {e}
        /\ ds[e] = None \/ ds[e]["universal_hash"] # after[e]["universal_hash"]
              => HashMatches(after, after[e]["universal_hash"]) \subseteq {e}

\* An approval that found no conflict is such a change.
LEMMA NoConflictKeepsHashesApart ==
  ASSUME NEW ds \in Catalogues, NEW type, NEW target \in DiscIds \cup {None},
         target # None => ds[target] # None,
         NEW ch \in Changes, NEW eff \in Contents,
         eff = Apply(TargetContent(ds, target), ch),
         NEW d \in DiscIds, IF target = None THEN ds[d] = None ELSE d = target,
         Conflicts(ds, type, target, TargetContent(ds, target), ch, eff) = {}
  PROVE  NewHashesAreUnique(ds, [ds EXCEPT ![d] = eff])
<1> DEFINE after == [ds EXCEPT ![d] = eff]
<1>1. after[d] = eff /\ \A f \in DiscIds : f # d => after[f] = ds[f]
  BY DEF Catalogues
<1> SUFFICES ASSUME NEW e \in ActiveDiscs(after)
             PROVE  /\ ds[e] = None \/ ds[e]["dat"] # after[e]["dat"]
                          => DatMatches(after, after[e]["dat"]) \subseteq {e}
                    /\ ds[e] = None \/ ds[e]["universal_hash"] # after[e]["universal_hash"]
                          => HashMatches(after, after[e]["universal_hash"]) \subseteq {e}
  BY DEF NewHashesAreUnique
<1> HIDE DEF after
<1>2. e \in DiscIds /\ after[e] # None /\ IsActive(after[e])
  BY DEF ActiveDiscs, Existing
<1>3. CASE e # d
  BY <1>1, <1>2, <1>3
<1>4. CASE e = d
  <2>1. IsActive(eff) /\ after[e] = eff
    BY <1>1, <1>2, <1>4
  <2>2. \A f \in ActiveDiscs(after) : f # d => f \in ActiveDiscs(ds) /\ after[f] = ds[f] /\ f # target
    BY <1>1, QueueAssumption DEF ActiveDiscs, Existing
  <2>3. /\ ch["dat"] # Absent => DatMatches(ds, eff["dat"]) \subseteq {target}
        /\ ch["universal_hash"] # Absent => HashMatches(ds, eff["universal_hash"]) \subseteq {target}
    BY <2>1 DEF Conflicts
  <2>4. ASSUME NEW field \in Fields, ch[field] = Absent,
               ds[d] = None \/ ds[d][field] # eff[field]
        PROVE  eff[field] = None
    <3>1. eff[field] = TargetContent(ds, target)[field]
      BY <2>4 DEF Apply
    <3>2. CASE target = None
      BY <3>1, <3>2 DEF TargetContent, Blank
    <3>3. CASE target # None
      BY <2>4, <3>1, <3>3 DEF TargetContent
    <3> QED BY <3>2, <3>3
  <2>5. ds[d] = None \/ ds[d]["dat"] # eff["dat"]
          => \A f \in DatMatches(after, eff["dat"]) : f = d
    <3>1. CASE ch["dat"] = Absent
      BY <2>4, <3>1 DEF DatMatches, Fields
    <3>2. CASE ch["dat"] # Absent
      BY <2>2, <2>3, <3>2 DEF DatMatches
    <3> QED BY <3>1, <3>2
  <2>6. ds[d] = None \/ ds[d]["universal_hash"] # eff["universal_hash"]
          => \A f \in HashMatches(after, eff["universal_hash"]) : f = d
    <3>1. CASE ch["universal_hash"] = Absent
      BY <2>4, <3>1 DEF HashMatches, Fields
    <3>2. CASE ch["universal_hash"] # Absent
      BY <2>2, <2>3, <3>2 DEF HashMatches
    <3> QED BY <3>1, <3>2
  <2> QED BY <1>4, <2>1, <2>5, <2>6
<1> QED BY <1>3, <1>4

-----------------------------------------------------------------------------
(* Steps that move one handler. *)

\* What a step of another handler leaves to client e.
Undisturbed(e) ==
    /\ pc'[e] = pc[e]
    /\ req'[e] = req[e]
    /\ \A d \in DiscIds : discs[d] # None => discs'[d] # None
    /\ \A s \in SubIds : subs[s] # None =>
          /\ subs'[s] # None
          /\ subs'[s].type = subs[s].type
          /\ subs'[s].submitter = subs[s].submitter
    /\ pc[e] \in InTransaction => discs' = discs
    /\ req[e].created => subs'[req[e].sub] = subs[req[e].sub]
    /\ pc[e] = "commit" => subs'[req[e].sub] = subs[req[e].sub]

\* An undisturbed handler keeps what it relies on.
LEMMA UndisturbedStands ==
  ASSUME TypeOK, NEW e \in Clients, ClientInv(e), Undisturbed(e)
  PROVE  ClientInv(e)'
<1> USE DEF Undisturbed, ClientInv
<1>0. req[e] \in Requests /\ pc[e] \in Locations
  BY DEF TypeOK
<1>1. Holds(e)'
  BY DEF Holds
<1>2. RowStands(e)'
  BY <1>0 DEF RowStands, Requests, Rows
<1>3. NewRowStands(e)'
  BY <1>0 DEF NewRowStands, Requests, Rows
<1>4. ApprovalStands(e)'
  BY <1>0 DEF ApprovalStands, InTransaction
<1> QED BY <1>1, <1>2, <1>3, <1>4

\* The request of an idle client.
LEMMA NoRequestType == NoRequest \in Requests /\ "idle" \in Locations
  BY BlankType DEF NoRequest, Requests, Locations

\* A handler that answers leaves nothing behind and gives up the lock.
LEMMA FinishStep ==
  ASSUME QueueInv, NEW c \in Clients, NEW from, Finish(c, from)
  PROVE  /\ lock' \in Clients \cup {None}
         /\ pc' \in [Clients -> Locations]
         /\ req' \in [Clients -> Requests]
         /\ LockInv'
         /\ ClientInv(c)'
         /\ \A e \in Clients \ {c} : pc'[e] = pc[e] /\ req'[e] = req[e]
<1> USE DEF Finish, Goto, QueueInv, TypeOK
<1>1. /\ lock' \in Clients \cup {None}
      /\ pc' \in [Clients -> Locations]
      /\ req' \in [Clients -> Requests]
  BY NoRequestType
<1>2. /\ pc'[c] = "idle" /\ req'[c] = NoRequest
      /\ \A e \in Clients \ {c} : pc'[e] = pc[e] /\ req'[e] = req[e]
  OBVIOUS
<1>3. LockInv'
  BY <1>2, ClientAssumption DEF LockInv, InTransaction
<1>4. ClientInv(c)'
  BY <1>2 DEF ClientInv, Holds, RowStands, NewRowStands, ApprovalStands,
              NoRequest, InTransaction
<1> QED BY <1>1, <1>2, <1>3, <1>4

\* A handler that goes on without changing a table: only its own part of the
\* invariant has to be shown.
LEMMA ContinueStep ==
  ASSUME QueueInv, NEW c \in Clients, NEW from, NEW to \in Locations,
         NEW r \in Requests, Continue(c, from, to, r),
         from \in InTransaction <=> to \in InTransaction
  PROVE  /\ pc'[c] = to /\ req'[c] = r
         /\ UNCHANGED tables
         /\ ClientInv(c)' => QueueInv'
<1> USE DEF Continue, Goto, QueueInv, TypeOK, tables
<1>1. pc'[c] = to /\ req'[c] = r /\ UNCHANGED tables
  OBVIOUS
<1>2. TypeOK' /\ TargetsExist'
  BY DEF TargetsExist
<1>3. LockInv'
  BY DEF LockInv
<1>4. ASSUME NEW e \in Clients \ {c} PROVE ClientInv(e)'
  <2>1. Undisturbed(e)
    BY DEF Undisturbed
  <2> QED BY <2>1, UndisturbedStands
<1> QED BY <1>1, <1>2, <1>3, <1>4

\* A handler that answers without changing a table.
LEMMA RespondStep ==
  ASSUME QueueInv, NEW c \in Clients, NEW from, Respond(c, from)
  PROVE  QueueInv' /\ UNCHANGED tables
<1> USE DEF Respond, QueueInv, TypeOK, tables
<1>1. /\ lock' \in Clients \cup {None}
      /\ pc' \in [Clients -> Locations]
      /\ req' \in [Clients -> Requests]
      /\ LockInv'
      /\ ClientInv(c)'
      /\ \A e \in Clients \ {c} : pc'[e] = pc[e] /\ req'[e] = req[e]
  BY FinishStep
<1>2. TypeOK' /\ TargetsExist'
  BY <1>1 DEF TargetsExist
<1>3. ASSUME NEW e \in Clients \ {c} PROVE ClientInv(e)'
  <2>1. Undisturbed(e)
    BY <1>1 DEF Undisturbed
  <2> QED BY <2>1, UndisturbedStands
<1> QED BY <1>1, <1>2, <1>3

\* A handler that changes one submission, and only that, and answers.
LEMMA SubmissionStep ==
  ASSUME QueueInv, NEW c \in Clients, NEW from, Finish(c, from),
         UNCHANGED <<discs, dumpers, dirty>>,
         NEW s \in SubIds, NEW row \in Rows,
         subs' = [subs EXCEPT ![s] = row],
         row.target # None => discs[row.target] # None,
         subs[s] # None => row.type = subs[s].type /\ row.submitter = subs[s].submitter,
         \A e \in Clients \ {c} : req[e].sub = s => ~req[e].created /\ pc[e] # "commit"
  PROVE  QueueInv'
<1> USE DEF QueueInv, TypeOK
<1>1. /\ lock' \in Clients \cup {None}
      /\ pc' \in [Clients -> Locations]
      /\ req' \in [Clients -> Requests]
      /\ LockInv'
      /\ ClientInv(c)'
      /\ \A e \in Clients \ {c} : pc'[e] = pc[e] /\ req'[e] = req[e]
  BY FinishStep
<1>2. TypeOK'
  BY <1>1
<1>3. subs'[s] = row /\ row # None /\ \A t \in SubIds \ {s} : subs'[t] = subs[t]
  BY QueueAssumption
<1>4. TargetsExist'
  BY <1>3 DEF TargetsExist
<1>5. ASSUME NEW e \in Clients \ {c} PROVE ClientInv(e)'
  <2>1. req[e] \in Requests /\ Holds(e)
    BY DEF ClientInv
  <2>2. pc[e] = "commit" \/ req[e].created => req[e].sub \in SubIds \ {s}
    BY <2>1 DEF Holds, Requests, InTransaction
  <2>3. Undisturbed(e)
    BY <1>1, <1>3, <2>2 DEF Undisturbed
  <2> QED BY <2>3, UndisturbedStands
<1> QED BY <1>1, <1>2, <1>4, <1>5

-----------------------------------------------------------------------------
(* Every action preserves the invariant. *)

LEMMA OpenReviewInv ==
  ASSUME QueueInv, NEW c \in Clients, NEW s \in SubIds, OpenReview(c, s)
  PROVE  QueueInv'
<1> DEFINE base == TargetContent(discs, subs[s].target)
           r == [NoRequest EXCEPT !.sub = s, !.base = base,
                                  !.form = Apply(base, subs[s].changes)]
<1>1. subs[s] \in Rows /\ base \in Contents
  <2>1. subs[s] \in Rows /\ discs \in Catalogues
    BY DEF OpenReview, QueueInv, TypeOK, Catalogues
  <2>2. /\ subs[s].target \in DiscIds \cup {None}
        /\ subs[s].target # None => discs[subs[s].target] # None
    BY <2>1, QueueAssumption DEF QueueInv, TargetsExist, Rows
  <2> QED BY <2>1, <2>2, TargetType
<1>2. r \in Requests /\ "page" \in Locations
  BY <1>1, ApplyType, NoRequestType DEF Requests, Rows, NoRequest, Locations
<1>3. Continue(c, "idle", "page", r)
  BY DEF OpenReview
<1>4. /\ pc'[c] = "page" /\ req'[c] = r /\ UNCHANGED tables
      /\ ClientInv(c)' => QueueInv'
  BY <1>2, <1>3, ContinueStep DEF InTransaction
<1>5. base # None /\ Apply(base, subs[s].changes) # None /\ s # None /\ subs[s] # None
  BY <1>1, ApplyType, QueueAssumption DEF Rows
<1>6. ClientInv(c)'
  BY <1>4, <1>5 DEF ClientInv, Holds, RowStands, NewRowStands, ApprovalStands,
                    NoRequest, InTransaction, tables
<1> QED BY <1>4, <1>6

LEMMA LoadSubmissionInv ==
  ASSUME QueueInv, NEW c \in Clients, LoadSubmission(c)
  PROVE  QueueInv'
<1> DEFINE row == subs[req[c].sub]
           r == [req[c] EXCEPT !.row = row]
<1>0. req[c] \in Requests /\ ClientInv(c) /\ pc[c] = "page"
  BY DEF LoadSubmission, QueueInv, TypeOK
<1>1. /\ req[c].sub \in SubIds /\ row # None /\ row \in Rows
      /\ row.target # None => discs[row.target] # None
      /\ ~req[c].created
  BY <1>0 DEF ClientInv, Holds, RowStands, Requests, QueueInv, TypeOK, TargetsExist,
              InTransaction
<1>2. CASE Continue(c, "page", "loaded", r)
  <2>1. r \in Requests /\ "loaded" \in Locations
    BY <1>0, <1>1 DEF Requests, Locations
  <2>2. /\ pc'[c] = "loaded" /\ req'[c] = r /\ UNCHANGED tables
        /\ ClientInv(c)' => QueueInv'
    BY <1>2, <2>1, ContinueStep DEF InTransaction
  <2>3. r.row = row /\ r.sub = req[c].sub /\ r.base = req[c].base
        /\ r.form = req[c].form /\ r.created = req[c].created
    BY <1>0 DEF Requests
  <2>4. ClientInv(c)'
    BY <1>0, <1>1, <2>2, <2>3 DEF ClientInv, Holds, RowStands, NewRowStands,
          ApprovalStands, InTransaction, tables
  <2> QED BY <2>2, <2>4
<1>3. CASE Respond(c, "page")
  BY <1>3, RespondStep
<1> QED BY <1>2, <1>3 DEF LoadSubmission

\* A comment, a rejection, a return to Draft.
LEMMA UpdatePendingInv ==
  ASSUME QueueInv, NEW c \in Clients, NEW status \in SubmissionStatuses,
         pc[c] = "loaded",
         UpdatePending(c, [subs[req[c].sub] EXCEPT !.status = status,
                                                   !.reviewer = UserOf[c]])
  PROVE  QueueInv'
<1> DEFINE s == req[c].sub
           row == [subs[s] EXCEPT !.status = status, !.reviewer = UserOf[c]]
<1>0. req[c] \in Requests /\ ClientInv(c)
  BY DEF QueueInv, TypeOK
<1>1. /\ s \in SubIds /\ subs[s] # None /\ subs[s] \in Rows
      /\ subs[s].target # None => discs[subs[s].target] # None
  BY <1>0 DEF ClientInv, Holds, RowStands, Requests, QueueInv, TypeOK, TargetsExist,
              InTransaction
<1>2. /\ row \in Rows /\ row.target = subs[s].target
      /\ row.type = subs[s].type /\ row.submitter = subs[s].submitter
  BY <1>1, ClientAssumption DEF Rows
<1>3. Finish(c, "loaded") /\ UNCHANGED <<discs, dumpers, dirty>>
  BY DEF UpdatePending
<1>4. CASE subs[s].status = "Pending"
  <2>1. subs' = [subs EXCEPT ![s] = row]
    BY <1>4 DEF UpdatePending
  <2>2. ASSUME NEW e \in Clients \ {c}, req[e].sub = s
        PROVE  ~req[e].created /\ pc[e] # "commit"
    BY <1>1, <2>2 DEF UpdatePending, RowLocked, QueueInv, ClientInv, NewRowStands
  <2>3. \A e \in Clients \ {c} : req[e].sub = s => ~req[e].created /\ pc[e] # "commit"
    BY <2>2
  <2>4. row.target # None => discs[row.target] # None
    BY <1>1, <1>2
  <2> HIDE DEF s, row
  <2> QED BY <1>1, <1>2, <1>3, <2>1, <2>3, <2>4, SubmissionStep
<1>5. CASE subs[s].status # "Pending"
  BY <1>3, <1>5, RespondStep DEF UpdatePending, Respond, tables
<1> QED BY <1>4, <1>5

\* A retarget, by a moderator or to an exact match: the target is a disc that
\* is there, or none.
LEMMA SetTargetInv ==
  ASSUME QueueInv, NEW c \in Clients, NEW from, Finish(c, from),
         UNCHANGED <<discs, dumpers, dirty>>, lock = None,
         NEW s \in SubIds, subs[s] # None,
         NEW expected, NEW d \in ActiveDiscs(discs) \cup {None},
         SetTarget(s, expected, d)
  PROVE  QueueInv'
<1> DEFINE row == [subs[s] EXCEPT !.target = d]
<1>1. d \in DiscIds \cup {None} /\ (d # None => discs[d] # None)
  BY DEF ActiveDiscs, Existing
<1>2. subs[s] \in Rows
  BY DEF QueueInv, TypeOK
<1>3. /\ row \in Rows /\ row.target = d
      /\ row.type = subs[s].type /\ row.submitter = subs[s].submitter
  BY <1>1, <1>2 DEF Rows
<1>4. \A e \in Clients : pc[e] \notin InTransaction
  BY ClientAssumption DEF QueueInv, LockInv
<1>5. \A e \in Clients : ~req[e].created /\ pc[e] # "commit"
  BY <1>4 DEF QueueInv, ClientInv, Holds, InTransaction, TypeOK, Requests
<1>6. subs' = [subs EXCEPT ![s] = row] \/ subs' = subs
  BY <1>2 DEF SetTarget, QueueInv, TypeOK
<1>7. CASE subs' = [subs EXCEPT ![s] = row]
  <2> HIDE DEF row
  <2> QED BY <1>1, <1>3, <1>5, <1>7, SubmissionStep
<1>8. CASE subs' = subs
  BY <1>8, RespondStep DEF Respond, tables
<1> QED BY <1>6, <1>7, <1>8

\* In the review handlers the submission that is reviewed is in the table.
LEMMA ReviewedExists ==
  ASSUME QueueInv, NEW c \in Clients,
         pc[c] \in {"loaded", "rematch", "diff"}
  PROVE  /\ req[c] \in Requests /\ req[c].sub \in SubIds /\ subs[req[c].sub] # None
         /\ req[c].row \in Rows /\ req[c].base \in Contents /\ req[c].form \in Contents
         /\ ~req[c].created
         /\ req[c].row.target # None => discs[req[c].row.target] # None
  BY DEF QueueInv, TypeOK, ClientInv, Holds, RowStands, Requests, InTransaction

LEMMA ManualRetargetInv ==
  ASSUME QueueInv, NEW c \in Clients, NEW d \in DiscIds \cup {None},
         ManualRetarget(c, d)
  PROVE  QueueInv'
<1>1. /\ pc[c] = "loaded" /\ lock = None /\ Finish(c, "loaded")
      /\ UNCHANGED <<discs, dumpers, dirty>>
  BY DEF ManualRetarget
<1>2. req[c].sub \in SubIds /\ subs[req[c].sub] # None
  BY <1>1, ReviewedExists
<1>3. CASE d \in ActiveDiscs(discs) \cup {None}
  <2>1. SetTarget(req[c].sub, req[c].row.target, d)
    BY <1>3 DEF ManualRetarget
  <2> QED BY <1>1, <1>2, <1>3, <2>1, SetTargetInv
<1>4. CASE d \notin ActiveDiscs(discs) \cup {None}
  BY <1>1, <1>4, RespondStep DEF ManualRetarget, Respond, tables
<1> QED BY <1>3, <1>4

LEMMA RetargetToMatchInv ==
  ASSUME QueueInv, NEW c \in Clients, pc[c] = "rematch", RetargetToMatch(c)
  PROVE  QueueInv'
<1>1. /\ lock = None /\ Finish(c, "rematch") /\ UNCHANGED <<discs, dumpers, dirty>>
  BY DEF RetargetToMatch
<1>2. /\ req[c].sub \in SubIds /\ subs[req[c].sub] # None
      /\ req[c].form \in Contents
  BY ReviewedExists
<1>3. PICK d \in ExactMatches(discs, req[c].form) :
          IF d = req[c].match THEN SetTarget(req[c].sub, None, d) ELSE UNCHANGED subs
  BY DEF RetargetToMatch
<1>4. d \in ActiveDiscs(discs) \cup {None}
  BY <1>2, MatchType DEF QueueInv, TypeOK, Catalogues
<1>5. CASE SetTarget(req[c].sub, None, d)
  BY <1>1, <1>2, <1>4, <1>5, SetTargetInv
<1>6. CASE UNCHANGED subs
  BY <1>1, <1>6, RespondStep DEF Respond, tables
<1> QED BY <1>3, <1>5, <1>6

LEMMA CheckReviewInv ==
  ASSUME QueueInv, NEW c \in Clients, pc[c] = "loaded",
         NEW form \in Forms \cup {req[c].form}, CheckReview(c, form)
  PROVE  QueueInv'
<1> DEFINE posted == [req[c] EXCEPT !.form = form]
<1>1. /\ req[c] \in Requests /\ req[c].form \in Contents /\ ~req[c].created
      /\ ClientInv(c)
  BY ReviewedExists DEF QueueInv
<1>2. form \in Contents /\ form # None
  BY <1>1, ClientAssumption, QueueAssumption
<1>3. CASE Respond(c, "loaded")
  BY <1>3, RespondStep
<1>4. ASSUME NEW to \in {"diff", "rematch"}, NEW m \in DiscIds \cup {None},
             Continue(c, "loaded", to, [posted EXCEPT !.match = m])
      PROVE  QueueInv'
  <2> DEFINE r == [posted EXCEPT !.match = m]
  <2>1. /\ r \in Requests /\ r.sub = req[c].sub /\ r.row = req[c].row
        /\ r.base = req[c].base /\ r.form = form /\ r.created = req[c].created
    BY <1>1, <1>2 DEF Requests
  <2>2. /\ Continue(c, "loaded", to, r) /\ to \in Locations
        /\ "loaded" \in InTransaction <=> to \in InTransaction
    BY <1>4 DEF InTransaction, Locations
  <2> HIDE DEF r
  <2>3. /\ pc'[c] = to /\ req'[c] = r /\ UNCHANGED tables
        /\ ClientInv(c)' => QueueInv'
    BY <2>1, <2>2, ContinueStep
  <2>4. ClientInv(c)'
    BY <1>1, <1>2, <2>1, <2>3 DEF ClientInv, Holds, RowStands, NewRowStands,
          ApprovalStands, InTransaction, tables
  <2> QED BY <2>3, <2>4
<1>5. posted = [posted EXCEPT !.match = req[c].match] /\ req[c].match \in DiscIds \cup {None}
  BY <1>1 DEF Requests
<1>6. CASE Continue(c, "loaded", "diff", posted)
  <2>1. Continue(c, "loaded", "diff", [posted EXCEPT !.match = req[c].match])
    BY <1>5, <1>6
  <2> QED BY <1>4, <1>5, <2>1
<1>7. ASSUME NEW d \in ExactMatches(discs, form),
             Continue(c, "loaded", "rematch", [posted EXCEPT !.match = d])
      PROVE  QueueInv'
  <2>1. d \in DiscIds \cup {None}
    BY <1>2, MatchType DEF QueueInv, TypeOK, Catalogues, ActiveDiscs, Existing
  <2> QED BY <1>4, <1>7, <2>1
<1> HIDE DEF posted
<1>8. \/ Respond(c, "loaded")
      \/ Continue(c, "loaded", "diff", posted)
      \/ \E d \in ExactMatches(discs, form) :
            \/ Continue(c, "loaded", "diff", posted)
            \/ Continue(c, "loaded", "rematch", [posted EXCEPT !.match = d])
  BY DEF CheckReview, posted
<1> QED BY <1>3, <1>6, <1>7, <1>8

LEMMA BuildReviewChangesInv ==
  ASSUME QueueInv, NEW c \in Clients, pc[c] = "diff", BuildReviewChanges(c)
  PROVE  QueueInv'
<1> DEFINE old == TargetContent(discs, req[c].row.target)
           ch == IF req[c].row.type = "Disc" THEN DiscChanges(old, req[c].form)
                                             ELSE EditChanges(old, req[c].form)
           base == IF req[c].row.target = None THEN None ELSE req[c].base
           r == [req[c] EXCEPT !.changes = ch, !.form = None, !.base = base]
<1>1. /\ req[c] \in Requests /\ req[c].row \in Rows /\ req[c].form \in Contents
      /\ req[c].base \in Contents
      /\ req[c].row.target # None => discs[req[c].row.target] # None
      /\ ~req[c].created /\ req[c].sub \in SubIds
      /\ ClientInv(c)
  BY ReviewedExists DEF QueueInv
<1>2. ch \in Changes
  <2>1. old \in Contents
    BY <1>1, TargetType DEF Rows, QueueInv, TypeOK, Catalogues
  <2> QED BY <1>1, <2>1, DiffType DEF DiscChanges, EditChanges
<1>3. /\ r \in Requests /\ r.sub = req[c].sub /\ r.row = req[c].row
      /\ r.created = req[c].created
      /\ r.base # None => r.row.target # None
  <2> HIDE DEF ch
  <2> QED BY <1>1, <1>2 DEF Requests
<1>4. Continue(c, "diff", "wait", r)
  BY DEF BuildReviewChanges
<1> HIDE DEF r
<1>5. /\ pc'[c] = "wait" /\ req'[c] = r /\ UNCHANGED tables
      /\ ClientInv(c)' => QueueInv'
  BY <1>3, <1>4, ContinueStep DEF InTransaction, Locations
<1>6. ClientInv(c)'
  BY <1>1, <1>3, <1>5, QueueAssumption DEF ClientInv, Holds, RowStands, NewRowStands,
        ApprovalStands, InTransaction, tables
<1> QED BY <1>5, <1>6

\* A POST that submits: the handler holds the row it is about to store.
LEMMA SubmitStep ==
  ASSUME QueueInv, NEW c \in Clients, NEW to \in {"precheck", "store", "redraft"},
         NEW r \in Requests, Continue(c, "idle", to, r),
         r.row # None, r.row.status = "Pending", r.row.reviewer = None,
         r.row.target # None => discs[r.row.target] # None,
         ~r.created, r.base = None,
         IF to = "redraft"
         THEN /\ r.sub # None /\ subs[r.sub] # None
              /\ subs[r.sub].type = r.row.type /\ r.row.type = "Disc"
              /\ subs[r.sub].submitter = r.row.submitter
         ELSE r.sub = None
  PROVE  QueueInv'
<1>1. /\ to \in Locations
      /\ "idle" \in InTransaction <=> to \in InTransaction
  BY DEF InTransaction, Locations
<1>2. /\ pc'[c] = to /\ req'[c] = r /\ UNCHANGED tables
      /\ ClientInv(c)' => QueueInv'
  BY <1>1, ContinueStep
<1>3. ClientInv(c)'
  BY <1>2 DEF ClientInv, Holds, RowStands, NewRowStands, ApprovalStands,
              InTransaction, tables
<1> QED BY <1>2, <1>3

\* The row of a form.
LEMMA NewRowType ==
  ASSUME NEW type \in SubmissionTypes, NEW who \in Users,
         NEW target \in DiscIds \cup {None}, NEW ch \in Changes,
         NEW t \in Tokens, NEW form \in Contents
  PROVE  LET row == NewRow(type, who, target, ch, t, form)
         IN  /\ row \in Rows /\ row # None /\ row.status = "Pending"
             /\ row.reviewer = None /\ row.target = target
             /\ row.type = type /\ row.submitter = who
<1> DEFINE row == NewRow(type, who, target, ch, t, form)
<1>1. row \in Rows
  BY DEF NewRow, Rows, SubmissionStatuses
<1> QED BY <1>1, QueueAssumption DEF NewRow

LEMMA AddSubmitInv ==
  ASSUME QueueInv, NEW c \in Clients, NEW t \in Tokens, NEW form \in Forms,
         NEW who \in Users, AddSubmit(c, t, form, who)
  PROVE  QueueInv'
<1>1. PICK d \in AddMatches(discs, form) :
          Continue(c, "idle",
              IF CanEditDirectly(UserOf[c]) /\ d = None THEN "precheck" ELSE "store",
              [NoRequest EXCEPT
                  !.row = NewRow("Disc", who, d, DiscChanges(Blank, form), t, form)])
  BY DEF AddSubmit
<1> DEFINE row == NewRow("Disc", who, d, DiscChanges(Blank, form), t, form)
           r == [NoRequest EXCEPT !.row = row]
           to == IF CanEditDirectly(UserOf[c]) /\ d = None THEN "precheck" ELSE "store"
<1>2. /\ form \in Contents /\ d \in DiscIds \cup {None}
      /\ d # None => discs[d] # None
  BY ClientAssumption, MatchType DEF QueueInv, TypeOK, Catalogues, Existing
<1>3. /\ row \in Rows /\ row # None /\ row.status = "Pending"
      /\ row.reviewer = None /\ row.target = d
  BY <1>2, BlankType, DiffType, NewRowType DEF DiscChanges, SubmissionTypes
<1> HIDE DEF row
<1>4. /\ r \in Requests /\ r.row = row /\ r.sub = None /\ ~r.created /\ r.base = None
  BY <1>3, NoRequestType DEF Requests, NoRequest
<1>5. Continue(c, "idle", to, r) /\ to \in {"precheck", "store", "redraft"}
      /\ to # "redraft"
  BY <1>1 DEF row
<1> HIDE DEF r, to
<1> QED BY <1>2, <1>3, <1>4, <1>5, SubmitStep

LEMMA AddSubmitDraftInv ==
  ASSUME QueueInv, NEW c \in Clients, NEW t \in Tokens, NEW form \in Forms,
         NEW s \in SubIds, AddSubmitDraft(c, s, t, form)
  PROVE  QueueInv'
<1> DEFINE u == UserOf[c]
<1>1. PICK d \in AddMatches(discs, form) :
          Continue(c, "idle", "redraft",
              [NoRequest EXCEPT
                  !.sub = s,
                  !.row = NewRow("Disc", u, d, DiscChanges(Blank, form), t, form)])
  BY DEF AddSubmitDraft
<1> DEFINE row == NewRow("Disc", u, d, DiscChanges(Blank, form), t, form)
           r == [NoRequest EXCEPT !.sub = s, !.row = row]
<1>2. /\ form \in Contents /\ d \in DiscIds \cup {None} /\ u \in Users
      /\ d # None => discs[d] # None
  BY ClientAssumption, MatchType DEF QueueInv, TypeOK, Catalogues, Existing
<1>3. /\ row \in Rows /\ row # None /\ row.status = "Pending"
      /\ row.reviewer = None /\ row.target = d
      /\ row.type = "Disc" /\ row.submitter = u
  <2> HIDE DEF u
  <2> QED BY <1>2, BlankType, DiffType, NewRowType DEF DiscChanges, SubmissionTypes
<1> HIDE DEF row
<1>4. /\ r \in Requests /\ r.row = row /\ r.sub = s /\ ~r.created /\ r.base = None
  BY <1>3, NoRequestType DEF Requests, NoRequest
<1>5. Continue(c, "idle", "redraft", r)
  BY <1>1 DEF row
<1>6. /\ s # None /\ subs[s] # None /\ subs[s].type = "Disc" /\ subs[s].submitter = u
  BY QueueAssumption DEF AddSubmitDraft
<1> HIDE DEF r, u
<1> QED BY <1>2, <1>3, <1>4, <1>5, <1>6, SubmitStep

LEMMA EditSubmitInv ==
  ASSUME QueueInv, NEW c \in Clients, NEW t \in Tokens, NEW form \in Forms,
         NEW d \in DiscIds, EditSubmit(c, t, form, d)
  PROVE  QueueInv'
<1> DEFINE u == UserOf[c]
           kept == IF CanEditDirectly(u) THEN form
                   ELSE [form EXCEPT !["status"] = discs[d]["status"]]
           row == NewRow("Edit", u, d, EditChanges(discs[d], kept), t, kept)
           r == [NoRequest EXCEPT !.row = row]
           to == IF CanEditDirectly(u) THEN "precheck" ELSE "store"
<1>1. discs[d] \in Contents /\ discs[d] # None /\ form \in Contents /\ u \in Users
  BY ClientAssumption DEF EditSubmit, QueueInv, TypeOK
<1>2. kept \in Contents
  <2>1. discs[d]["status"] \in Values
    BY <1>1 DEF Contents, Fields
  <2> QED BY <1>1, <2>1 DEF Contents, Fields
<1>3. Continue(c, "idle", to, r)
  BY DEF EditSubmit
<1>4. /\ row \in Rows /\ row # None /\ row.status = "Pending"
      /\ row.reviewer = None /\ row.target = d
  <2> HIDE DEF kept, u
  <2> QED BY <1>1, <1>2, DiffType, NewRowType DEF EditChanges, SubmissionTypes
<1> HIDE DEF row
<1>5. /\ r \in Requests /\ r.row = row /\ r.sub = None /\ ~r.created /\ r.base = None
      /\ to \in {"precheck", "store", "redraft"} /\ to # "redraft"
  BY <1>4, NoRequestType DEF Requests, NoRequest
<1> HIDE DEF r, to
<1> QED BY <1>1, <1>3, <1>4, <1>5, SubmitStep

LEMMA PrecheckInv ==
  ASSUME QueueInv, NEW c \in Clients, pc[c] = "precheck", Precheck(c)
  PROVE  QueueInv'
<1>1. CASE Continue(c, "precheck", "wait", req[c])
  <2>1. req[c] \in Requests /\ ClientInv(c)
    BY DEF QueueInv, TypeOK
  <2>2. /\ pc'[c] = "wait" /\ req'[c] = req[c] /\ UNCHANGED tables
        /\ ClientInv(c)' => QueueInv'
    BY <1>1, <2>1, ContinueStep DEF InTransaction, Locations
  <2>3. ClientInv(c)'
    BY <2>1, <2>2 DEF ClientInv, Holds, RowStands, NewRowStands, ApprovalStands,
          InTransaction, tables
  <2> QED BY <2>2, <2>3
<1>2. CASE Respond(c, "precheck")
  BY <1>2, RespondStep
<1> QED BY <1>1, <1>2 DEF Precheck

\* In the handlers that submit, the row to store is Pending and unreviewed.
LEMMA StoreSubmissionInv ==
  ASSUME QueueInv, NEW c \in Clients, pc[c] = "store", StoreSubmission(c)
  PROVE  QueueInv'
<1> DEFINE row == req[c].row
<1>1. /\ row \in Rows
      /\ row.target # None => discs[row.target] # None
  BY DEF QueueInv, TypeOK, Requests, ClientInv, Holds, RowStands
<1>2. Finish(c, "store") /\ UNCHANGED <<discs, dumpers, dirty>>
  BY DEF StoreSubmission
<1>3. CASE UNCHANGED subs
  BY <1>2, <1>3, RespondStep DEF Respond, tables
<1>4. CASE \E s \in FreshIds : subs' = [subs EXCEPT ![s] = row]
  <2>1. PICK s \in FreshIds : subs' = [subs EXCEPT ![s] = row]
    BY <1>4
  <2>2. s \in SubIds /\ subs[s] = None
    BY <2>1 DEF FreshIds
  <2>3. ASSUME NEW e \in Clients \ {c}, req[e].sub = s
        PROVE  ~req[e].created /\ pc[e] # "commit"
    <3>1. ~Inserting(e) /\ ClientInv(e)
      BY <2>3 DEF FreshIds, QueueInv
    <3>2. ~req[e].created
      BY <3>1 DEF Inserting, ClientInv, Holds
    <3> QED BY <2>2, <2>3, <3>1, <3>2, QueueAssumption DEF ClientInv, RowStands
  <2>4. \A e \in Clients \ {c} : req[e].sub = s => ~req[e].created /\ pc[e] # "commit"
    BY <2>3
  <2> HIDE DEF row
  <2> QED BY <1>1, <1>2, <2>1, <2>2, <2>4, SubmissionStep
<1> QED BY <1>3, <1>4 DEF StoreSubmission

LEMMA SubmitDraftInv ==
  ASSUME QueueInv, NEW c \in Clients, pc[c] = "redraft", SubmitDraft(c)
  PROVE  QueueInv'
<1> DEFINE s == req[c].sub
           row == [req[c].row EXCEPT !.reviewer = subs[s].reviewer]
<1>0. /\ req[c] \in Requests /\ ClientInv(c) /\ ~req[c].created
  BY DEF QueueInv, TypeOK, ClientInv, Holds, InTransaction, Requests
<1>1. /\ s \in SubIds /\ subs[s] # None /\ subs[s] \in Rows
      /\ req[c].row \in Rows
      /\ subs[s].type = req[c].row.type /\ subs[s].submitter = req[c].row.submitter
      /\ req[c].row.target # None => discs[req[c].row.target] # None
  BY <1>0 DEF ClientInv, Holds, RowStands, Requests, QueueInv, TypeOK
<1>2. /\ row \in Rows /\ row.target = req[c].row.target
      /\ row.type = subs[s].type /\ row.submitter = subs[s].submitter
  BY <1>1 DEF Rows
<1>3. Finish(c, "redraft") /\ UNCHANGED <<discs, dumpers, dirty>>
  BY DEF SubmitDraft
<1>4. CASE UNCHANGED subs
  BY <1>3, <1>4, RespondStep DEF Respond, tables
<1>5. CASE subs[s].status = "Draft" /\ subs' = [subs EXCEPT ![s] = row]
  <2>1. ASSUME NEW e \in Clients \ {c}, req[e].sub = s
        PROVE  ~req[e].created /\ pc[e] # "commit"
    BY <1>1, <1>5, <2>1 DEF QueueInv, ClientInv, NewRowStands, ApprovalStands
  <2>2. \A e \in Clients \ {c} : req[e].sub = s => ~req[e].created /\ pc[e] # "commit"
    BY <2>1
  <2>3. row.target # None => discs[row.target] # None
    BY <1>1, <1>2
  <2> HIDE DEF row, s
  <2> QED BY <1>1, <1>2, <1>3, <1>5, <2>2, <2>3, SubmissionStep
<1> QED BY <1>4, <1>5 DEF SubmitDraft

LEMMA AcquireInv ==
  ASSUME QueueInv, NEW c \in Clients, AcquireApprovalLock(c)
  PROVE  QueueInv'
<1> DEFINE to == IF req[c].sub = None THEN "insert" ELSE "recheck"
<1>0. /\ req[c] \in Requests /\ ClientInv(c) /\ pc[c] = "wait"
  BY DEF QueueInv, TypeOK, AcquireApprovalLock, Goto
<1>1. /\ pc' = [pc EXCEPT ![c] = to] /\ req' = req /\ lock' = c /\ lock = None
      /\ UNCHANGED tables
  BY DEF AcquireApprovalLock, Goto, QueueInv, TypeOK
<1>2. TypeOK' /\ TargetsExist'
  <2>1. to \in Locations
    BY DEF Locations
  <2> QED BY <1>1, <2>1 DEF TypeOK, QueueInv, TargetsExist, tables
<1>3. /\ pc'[c] = to /\ to \in InTransaction
      /\ \A e \in Clients \ {c} : pc'[e] = pc[e] /\ pc[e] \notin InTransaction
  BY <1>1, ClientAssumption DEF QueueInv, TypeOK, LockInv, InTransaction
<1>4. LockInv'
  BY <1>1, <1>3 DEF LockInv
<1>5. ClientInv(c)'
  <2>1. ~req[c].created
    BY <1>0 DEF ClientInv, Holds, InTransaction, Requests
  <2>2. /\ req[c].sub = None => to = "insert"
        /\ req[c].sub # None => to = "recheck"
    OBVIOUS
  <2> HIDE DEF to
  <2> QED BY <1>0, <1>1, <1>3, <2>1, <2>2 DEF ClientInv, Holds, RowStands,
            NewRowStands, ApprovalStands, InTransaction, tables
<1>6. ASSUME NEW e \in Clients \ {c} PROVE ClientInv(e)'
  <2>1. Undisturbed(e)
    BY <1>1, <1>3 DEF Undisturbed, tables
  <2> QED BY <2>1, UndisturbedStands DEF QueueInv
<1> QED BY <1>2, <1>4, <1>5, <1>6 DEF QueueInv

\* The transaction's row: its own insert, or what an earlier POST stored.
LEMMA InsertDirectInv ==
  ASSUME QueueInv, NEW c \in Clients, InsertDirect(c)
  PROVE  QueueInv'
<1> DEFINE row == req[c].row
<1>0. /\ req[c] \in Requests /\ ClientInv(c) /\ pc[c] = "insert"
      /\ row \in Rows /\ row.changes \in Changes
      /\ row.target # None => discs[row.target] # None
      /\ row.status = "Pending" /\ row.reviewer = None /\ req[c].base = None
  BY DEF InsertDirect, QueueInv, TypeOK, ClientInv, Holds, RowStands, NewRowStands,
         Requests, Rows
<1>1. ASSUME NEW r \in Requests, Continue(c, "insert", "recheck", r),
             r.sub # None, r.row # None, r.base = None,
             r.row.target # None => discs[r.row.target] # None,
             IF r.created
             THEN subs[r.sub] = None /\ r.row.status = "Pending" /\ r.row.reviewer = None
             ELSE subs[r.sub] # None /\ r.row = subs[r.sub]
      PROVE  QueueInv'
  <2>0. /\ "recheck" \in Locations /\ Continue(c, "insert", "recheck", r)
        /\ "insert" \in InTransaction <=> "recheck" \in InTransaction
    BY <1>1 DEF InTransaction, Locations
  <2>1. /\ pc'[c] = "recheck" /\ req'[c] = r /\ UNCHANGED tables
        /\ ClientInv(c)' => QueueInv'
    BY <2>0, ContinueStep
  <2>2. ClientInv(c)'
    <3>1. Holds(c)'
      BY <1>1, <2>1 DEF Holds, InTransaction
    <3>2. RowStands(c)' /\ NewRowStands(c)'
      BY <1>1, <2>1 DEF RowStands, NewRowStands, tables
    <3>3. ApprovalStands(c)'
      BY <2>1 DEF ApprovalStands
    <3> QED BY <3>1, <3>2, <3>3 DEF ClientInv
  <2> QED BY <2>1, <2>2
<1>2. ASSUME NEW s \in FreshIds,
             Continue(c, "insert", "recheck",
                 [req[c] EXCEPT !.sub = s, !.changes = row.changes, !.created = TRUE])
      PROVE  QueueInv'
  <2> DEFINE r == [req[c] EXCEPT !.sub = s, !.changes = row.changes, !.created = TRUE]
  <2>1. s \in SubIds /\ subs[s] = None /\ s # None
    BY QueueAssumption DEF FreshIds
  <2>2. /\ r \in Requests /\ r.sub = s /\ r.row = row /\ r.created /\ r.base = None
    BY <1>0, <2>1 DEF Requests
  <2>3. Continue(c, "insert", "recheck", r)
    BY <1>2
  <2>4. row # None
    BY <1>0, QueueAssumption
  <2> HIDE DEF r, row
  <2> QED BY <1>0, <1>1, <2>1, <2>2, <2>3, <2>4
<1>3. ASSUME NEW s \in WithToken(row.token),
             Continue(c, "insert", "recheck",
                 [req[c] EXCEPT !.sub = s, !.row = subs[s],
                                !.changes = subs[s].changes])
      PROVE  QueueInv'
  <2> DEFINE r == [req[c] EXCEPT !.sub = s, !.row = subs[s],
                                 !.changes = subs[s].changes]
  <2>1. /\ s \in SubIds /\ subs[s] \in Rows /\ subs[s] # None /\ s # None
        /\ subs[s].changes \in Changes
        /\ subs[s].target # None => discs[subs[s].target] # None
    BY QueueAssumption DEF WithToken, QueueInv, TypeOK, Rows, TargetsExist
  <2>2. ~req[c].created
    BY <1>0 DEF ClientInv, Holds, Requests
  <2>3. /\ r \in Requests /\ r.sub = s /\ r.row = subs[s] /\ ~r.created /\ r.base = None
    BY <1>0, <2>1, <2>2 DEF Requests
  <2>4. Continue(c, "insert", "recheck", r)
    BY <1>3
  <2> HIDE DEF r
  <2> QED BY <1>1, <2>1, <2>3, <2>4
<1>4. CASE Respond(c, "insert")
  BY <1>4, RespondStep
<1> QED BY <1>2, <1>3, <1>4 DEF InsertDirect

\* In the transaction the row's target is in the catalogue.
LEMMA InTransactionHolds ==
  ASSUME QueueInv, NEW c \in Clients,
         pc[c] \in {"recheck", "resolve", "conflicts", "claim", "commit"}
  PROVE  /\ req[c] \in Requests /\ ClientInv(c)
         /\ req[c].sub \in SubIds /\ req[c].row \in Rows /\ req[c].changes \in Changes
         /\ req[c].row.target \in DiscIds \cup {None}
         /\ req[c].row.target # None => discs[req[c].row.target] # None
         /\ TargetContent(discs, req[c].row.target) \in Contents
<1>1. /\ req[c] \in Requests /\ ClientInv(c)
      /\ req[c].sub \in SubIds /\ req[c].row \in Rows /\ req[c].changes \in Changes
      /\ req[c].row.target \in DiscIds \cup {None}
      /\ req[c].row.target # None => discs[req[c].row.target] # None
  BY DEF QueueInv, TypeOK, ClientInv, Holds, RowStands, Requests, Rows
<1> QED BY <1>1, TargetType DEF QueueInv, TypeOK, Catalogues

LEMMA RecheckInv ==
  ASSUME QueueInv, NEW c \in Clients, pc[c] = "recheck", Recheck(c)
  PROVE  QueueInv'
<1>1. CASE Continue(c, "recheck", "resolve", req[c])
  <2>1. req[c] \in Requests /\ ClientInv(c)
    BY InTransactionHolds
  <2>2. /\ pc'[c] = "resolve" /\ req'[c] = req[c] /\ UNCHANGED tables
        /\ ClientInv(c)' => QueueInv'
    BY <1>1, <2>1, ContinueStep DEF InTransaction, Locations
  <2>3. ClientInv(c)'
    BY <2>1, <2>2 DEF ClientInv, Holds, RowStands, NewRowStands, ApprovalStands,
          InTransaction, tables
  <2> QED BY <2>2, <2>3
<1>2. CASE Respond(c, "recheck")
  BY <1>2, RespondStep
<1> QED BY <1>1, <1>2 DEF Recheck

LEMMA ResolveApprovalInv ==
  ASSUME QueueInv, NEW c \in Clients, pc[c] = "resolve", ResolveApproval(c)
  PROVE  QueueInv'
<1> DEFINE current == TargetContent(discs, req[c].row.target)
           kept == PreserveSubmittedStatus(req[c].row.type, req[c].row.changes,
                                           req[c].changes)
           ch == Resolve(req[c].row.type, current, kept)
           r == [req[c] EXCEPT !.current = current, !.changes = ch]
<1>1. CASE Respond(c, "resolve")
  BY <1>1, RespondStep
<1>2. CASE ~Respond(c, "resolve")
  <2>1. /\ req[c] \in Requests /\ ClientInv(c) /\ current \in Contents
        /\ current # None
        /\ req[c].changes \in Changes /\ req[c].row.changes \in Changes
    BY InTransactionHolds, QueueAssumption DEF Rows
  <2>2. ch \in Changes
    BY <2>1, PreserveType, ResolveType
  <2>3. /\ Continue(c, "resolve", "conflicts", r)
        /\ req[c].base # None => current = req[c].base
    BY <1>2 DEF ResolveApproval
  <2> HIDE DEF ch
  <2>4. /\ r \in Requests /\ r.sub = req[c].sub /\ r.row = req[c].row
        /\ r.created = req[c].created /\ r.current = current /\ r.base = req[c].base
    BY <2>1, <2>2 DEF Requests
  <2> HIDE DEF r
  <2>5. /\ pc'[c] = "conflicts" /\ req'[c] = r /\ UNCHANGED tables
        /\ ClientInv(c)' => QueueInv'
    BY <2>3, <2>4, ContinueStep DEF InTransaction, Locations
  <2>6. ClientInv(c)'
    <3>1. Holds(c)'
      BY <2>1, <2>4, <2>5 DEF ClientInv, Holds, InTransaction
    <3>2. RowStands(c)' /\ NewRowStands(c)'
      BY <2>1, <2>4, <2>5 DEF ClientInv, RowStands, NewRowStands, tables
    <3>3. ApprovalStands(c)'
      BY <2>3, <2>4, <2>5 DEF ApprovalStands, tables
    <3> QED BY <3>1, <3>2, <3>3 DEF ClientInv
  <2> QED BY <2>5, <2>6
<1> QED BY <1>1, <1>2

LEMMA FindConflictsInv ==
  ASSUME QueueInv, NEW c \in Clients, pc[c] = "conflicts", FindConflicts(c)
  PROVE  QueueInv'
<1>1. CASE Respond(c, "conflicts")
  BY <1>1, RespondStep
<1>2. CASE ~Respond(c, "conflicts")
  <2>1. req[c] \in Requests /\ ClientInv(c)
    BY InTransactionHolds
  <2>2. /\ Continue(c, "conflicts", "claim", req[c])
        /\ Conflicts(discs, req[c].row.type, req[c].row.target, req[c].current,
                     req[c].changes, Effective(req[c])) = {}
    BY <1>2 DEF FindConflicts
  <2>3. /\ pc'[c] = "claim" /\ req'[c] = req[c] /\ UNCHANGED tables
        /\ ClientInv(c)' => QueueInv'
    BY <2>1, <2>2, ContinueStep DEF InTransaction, Locations
  <2>4. ClientInv(c)'
    BY <2>1, <2>2, <2>3 DEF ClientInv, Holds, RowStands, NewRowStands,
          ApprovalStands, InTransaction, tables
  <2> QED BY <2>3, <2>4
<1> QED BY <1>1, <1>2

LEMMA ClaimSubmissionInv ==
  ASSUME QueueInv, NEW c \in Clients, pc[c] = "claim", ClaimSubmission(c)
  PROVE  QueueInv'
<1>1. CASE Respond(c, "claim")
  BY <1>1, RespondStep
<1>2. CASE ~Respond(c, "claim")
  <2>1. req[c] \in Requests /\ ClientInv(c)
    BY InTransactionHolds
  <2>2. /\ Continue(c, "claim", "commit", req[c])
        /\ ~req[c].created => /\ subs[req[c].sub].status = "Pending"
                              /\ subs[req[c].sub].target = req[c].row.target
    BY <1>2 DEF ClaimSubmission
  <2>3. /\ pc'[c] = "commit" /\ req'[c] = req[c] /\ UNCHANGED tables
        /\ ClientInv(c)' => QueueInv'
    BY <2>1, <2>2, ContinueStep DEF InTransaction, Locations
  <2>4. ClientInv(c)'
    BY <2>1, <2>2, <2>3 DEF ClientInv, Holds, RowStands, NewRowStands,
          ApprovalStands, InTransaction, tables
  <2> QED BY <2>3, <2>4
<1> QED BY <1>1, <1>2

\* What the commit of an approval writes, as facts about the new tables.
LEMMA CommitWrites ==
  ASSUME QueueInv, NEW c \in Clients, pc[c] = "commit", Commit(c)
  PROVE  LET r == req[c]
             old == IF r.created THEN r.row ELSE subs[r.sub]
         IN  /\ r.sub \in SubIds /\ old \in Rows /\ old.status = "Pending"
             /\ r.created => subs[r.sub] = None
             /\ ~r.created => subs[r.sub] # None
             /\ old.type = r.row.type /\ old.submitter = r.row.submitter
             /\ old.target = r.row.target
             /\ r.row.type \in SubmissionTypes /\ r.row.submitter \in Users
             /\ r.row.target \in DiscIds \cup {None}
             /\ r.current = TargetContent(discs, r.row.target)
             /\ r.current \in Contents /\ r.changes \in Changes
             /\ Effective(r) \in Contents
             /\ Conflicts(discs, r.row.type, r.row.target, r.current, r.changes,
                          Effective(r)) = {}
<1>1. /\ req[c] \in Requests /\ ClientInv(c)
      /\ req[c].sub \in SubIds /\ req[c].row \in Rows /\ req[c].changes \in Changes
      /\ req[c].row.target \in DiscIds \cup {None}
      /\ TargetContent(discs, req[c].row.target) \in Contents
  BY InTransactionHolds
<1>2. /\ req[c].current = TargetContent(discs, req[c].row.target)
      /\ Conflicts(discs, req[c].row.type, req[c].row.target, req[c].current,
                   req[c].changes, Effective(req[c])) = {}
  BY <1>1 DEF ClientInv, ApprovalStands
<1>3. Effective(req[c]) \in Contents
  BY <1>1, <1>2, ApplyType DEF Effective
<1>4. CASE req[c].created
  BY <1>1, <1>2, <1>3, <1>4 DEF ClientInv, NewRowStands, Rows
<1>5. CASE ~req[c].created
  <2>1. subs[req[c].sub] # None /\ subs[req[c].sub] \in Rows
    BY <1>1, <1>5, QueueAssumption DEF ClientInv, RowStands, QueueInv, TypeOK
  <2>2. /\ subs[req[c].sub].type = req[c].row.type
        /\ subs[req[c].sub].submitter = req[c].row.submitter
        /\ subs[req[c].sub].status = "Pending"
        /\ subs[req[c].sub].target = req[c].row.target
    BY <1>1, <1>5, QueueAssumption DEF ClientInv, RowStands, ApprovalStands
  <2> QED BY <1>1, <1>2, <1>3, <1>5, <2>1, <2>2 DEF Rows
<1> QED BY <1>4, <1>5

LEMMA CommitInv ==
  ASSUME QueueInv, NEW c \in Clients, pc[c] = "commit", Commit(c)
  PROVE  QueueInv'
<1> DEFINE r == req[c]
           old == IF r.created THEN r.row ELSE subs[r.sub]
           eff == Effective(r)
           target == r.row.target
<1>0. /\ r.sub \in SubIds /\ old \in Rows
      /\ ~r.created => subs[r.sub] # None
      /\ r.created => subs[r.sub] = None
      /\ old.type = r.row.type /\ old.submitter = r.row.submitter
      /\ r.row.submitter \in Users
      /\ target \in DiscIds \cup {None}
      /\ r.current \in Contents /\ r.changes \in Changes
      /\ eff \in Contents
  BY CommitWrites
<1>1. PICK d \in IF target = None THEN NextDiscId(discs) ELSE {target} :
          /\ discs' = [discs EXCEPT ![d] = eff]
          /\ dumpers' = [dumpers EXCEPT ![d] =
                             IF target = None \/ r.row.type = "Disc"
                             THEN @ \cup {r.row.submitter} ELSE @]
          /\ subs' = [subs EXCEPT ![r.sub] =
                          [old EXCEPT !.status = "Approved", !.target = d,
                                      !.changes = r.changes,
                                      !.reviewer = UserOf[c]]]
  BY DEF Commit
<1> DEFINE new == [old EXCEPT !.status = "Approved", !.target = d,
                              !.changes = r.changes, !.reviewer = UserOf[c]]
<1>2. d \in DiscIds
  BY <1>0 DEF NextDiscId
<1>3. Finish(c, "commit")
      /\ dirty' = dirty \cup ({r.current["system_code"], eff["system_code"]} \ {None})
  BY DEF Commit
<1>4. /\ new \in Rows /\ new.target = d
      /\ new.type = old.type /\ new.submitter = old.submitter /\ new # None
  <2>1. UserOf[c] \in Users /\ "Approved" \in SubmissionStatuses
    BY ClientAssumption DEF SubmissionStatuses
  <2>2. new \in Rows /\ new.target = d
        /\ new.type = old.type /\ new.submitter = old.submitter
    <3> HIDE DEF old, r
    <3> QED BY <1>0, <1>2, <2>1 DEF Rows
  <2> HIDE DEF new
  <2> QED BY <2>2, QueueAssumption
<1>5. subs' = [subs EXCEPT ![r.sub] = new]
  BY <1>1
<1> HIDE DEF new, old, eff, r
<1>6. /\ lock' \in Clients \cup {None}
      /\ pc' \in [Clients -> Locations]
      /\ req' \in [Clients -> Requests]
      /\ LockInv'
      /\ ClientInv(c)'
      /\ \A e \in Clients \ {c} : pc'[e] = pc[e] /\ req'[e] = req[e]
  BY <1>3, FinishStep
<1>7. TypeOK'
  <2>1. dirty' \subseteq Values
    BY <1>0, <1>3 DEF QueueInv, TypeOK, Contents, Fields
  <2>2. discs' \in [DiscIds -> Contents \cup {None}]
    BY <1>0, <1>1, <1>2 DEF QueueInv, TypeOK
  <2>3. subs' \in [SubIds -> Rows \cup {None}]
    BY <1>0, <1>4, <1>5 DEF QueueInv, TypeOK
  <2>4. dumpers' \in [DiscIds -> SUBSET Users]
    BY <1>0, <1>1, <1>2 DEF QueueInv, TypeOK
  <2> QED BY <1>6, <2>1, <2>2, <2>3, <2>4 DEF TypeOK
<1>8. /\ discs'[d] # None
      /\ \A e \in DiscIds : discs[e] # None => discs'[e] # None
  BY <1>0, <1>1, <1>2, QueueAssumption DEF QueueInv, TypeOK
<1>9. /\ subs'[r.sub] = new
      /\ \A s \in SubIds \ {r.sub} : subs'[s] = subs[s]
  BY <1>0, <1>5 DEF QueueInv, TypeOK
<1>10. TargetsExist'
  <2> SUFFICES ASSUME NEW s \in SubIds, subs'[s] # None, subs'[s].target # None
               PROVE  discs'[subs'[s].target] # None
    BY DEF TargetsExist
  <2>1. CASE s = r.sub
    BY <1>4, <1>8, <1>9, <2>1
  <2>2. CASE s # r.sub
    <3>1. subs[s] \in Rows /\ subs[s] = subs'[s]
      BY <1>9, <2>2 DEF QueueInv, TypeOK
    <3>2. subs[s].target \in DiscIds /\ discs[subs[s].target] # None
      BY <3>1 DEF Rows, QueueInv, TargetsExist
    <3> QED BY <1>8, <3>1, <3>2
  <2> QED BY <2>1, <2>2
<1>11. ASSUME NEW e \in Clients \ {c} PROVE ClientInv(e)'
  <2>1. pc[e] \notin InTransaction
    BY DEF QueueInv, LockInv, InTransaction
  <2>2. ~req[e].created /\ pc[e] # "commit"
    BY <2>1 DEF QueueInv, ClientInv, Holds, InTransaction, TypeOK, Requests
  <2>3. \A s \in SubIds : subs[s] # None =>
          /\ subs'[s] # None
          /\ subs'[s].type = subs[s].type
          /\ subs'[s].submitter = subs[s].submitter
    <3> SUFFICES ASSUME NEW s \in SubIds, subs[s] # None
                 PROVE  /\ subs'[s] # None
                        /\ subs'[s].type = subs[s].type
                        /\ subs'[s].submitter = subs[s].submitter
      OBVIOUS
    <3>1. CASE s # r.sub
      BY <1>9, <3>1
    <3>2. CASE s = r.sub
      BY <1>0, <1>4, <1>9, <3>2 DEF old
    <3> QED BY <3>1, <3>2
  <2>4. Undisturbed(e)
    BY <1>6, <1>8, <2>1, <2>2, <2>3 DEF Undisturbed
  <2> QED BY <2>4, UndisturbedStands DEF QueueInv
<1> QED BY <1>6, <1>7, <1>10, <1>11 DEF QueueInv

-----------------------------------------------------------------------------
(* The invariant. *)

LEMMA InitInv == Init => QueueInv
<1> SUFFICES ASSUME Init PROVE QueueInv
  OBVIOUS
<1> USE DEF Init
<1>1. TypeOK
  BY InitAssumption, NoRequestType DEF TypeOK
<1>2. LockInv
  BY ClientAssumption DEF LockInv, InTransaction
<1>3. TargetsExist
  BY InitAssumption DEF TargetsExist
<1>4. \A c \in Clients : ClientInv(c)
  BY DEF ClientInv, Holds, RowStands, NewRowStands, ApprovalStands, NoRequest,
         InTransaction
<1> QED BY <1>1, <1>2, <1>3, <1>4 DEF QueueInv

LEMMA DecideInv ==
  ASSUME QueueInv, NEW c \in Clients, Decide(c)
  PROVE  QueueInv'
<1>0. pc[c] = "loaded"
  BY DEF Decide
<1>1. CASE CommentSubmission(c)
  <2>1. req[c].sub \in SubIds /\ subs[req[c].sub] \in Rows
    BY <1>0, ReviewedExists DEF QueueInv, TypeOK
  <2> DEFINE row == subs[req[c].sub]
  <2>2. [row EXCEPT !.status = row.status, !.reviewer = UserOf[c]]
           = [row EXCEPT !.reviewer = UserOf[c]]
        /\ row.status \in SubmissionStatuses
    BY <2>1 DEF Rows
  <2>3. UpdatePending(c, [row EXCEPT !.status = row.status, !.reviewer = UserOf[c]])
    BY <1>1, <2>2 DEF CommentSubmission
  <2> QED BY <1>0, <2>2, <2>3, UpdatePendingInv
<1>2. CASE RejectSubmission(c)
  BY <1>0, <1>2, UpdatePendingInv DEF RejectSubmission, SubmissionStatuses
<1>3. CASE DraftSubmission(c)
  BY <1>0, <1>3, UpdatePendingInv DEF DraftSubmission, SubmissionStatuses
<1>4. CASE \E d \in DiscIds \cup {None} : ManualRetarget(c, d)
  BY <1>4, ManualRetargetInv
<1>5. CASE \E form \in Forms \cup {req[c].form} : CheckReview(c, form)
  BY <1>0, <1>5, CheckReviewInv
<1> QED BY <1>1, <1>2, <1>3, <1>4, <1>5 DEF Decide

LEMMA HandleInv ==
  ASSUME QueueInv, NEW c \in Clients, Handle(c)
  PROVE  QueueInv'
  BY DecideInv, RetargetToMatchInv, BuildReviewChangesInv, PrecheckInv,
     StoreSubmissionInv, SubmitDraftInv, InsertDirectInv, RecheckInv,
     ResolveApprovalInv, FindConflictsInv, ClaimSubmissionInv, CommitInv
  DEF Handle

LEMMA StepInv == QueueInv /\ [Next]_vars => QueueInv'
<1> SUFFICES ASSUME QueueInv, [Next]_vars PROVE QueueInv'
  OBVIOUS
<1>1. CASE UNCHANGED vars
  <2>1. TypeOK' /\ LockInv' /\ TargetsExist'
    BY <1>1 DEF vars, QueueInv, TypeOK, LockInv, TargetsExist
  <2>2. \A e \in Clients : ClientInv(e)'
    BY <1>1, UndisturbedStands DEF vars, QueueInv, Undisturbed
  <2> QED BY <2>1, <2>2 DEF QueueInv
<1>2. ASSUME NEW c \in Clients,
             \/ StartReview(c) \/ LoadSubmission(c) \/ StartSubmission(c)
             \/ Handle(c) \/ AcquireApprovalLock(c) \/ Abandon(c)
      PROVE  QueueInv'
  <2>1. CASE StartReview(c)
    BY <2>1, OpenReviewInv DEF StartReview
  <2>2. CASE LoadSubmission(c)
    BY <2>2, LoadSubmissionInv
  <2>3. CASE StartSubmission(c)
    BY <2>3, AddSubmitInv, AddSubmitDraftInv, EditSubmitInv DEF StartSubmission
  <2>4. CASE Handle(c)
    BY <2>4, HandleInv
  <2>5. CASE AcquireApprovalLock(c)
    BY <2>5, AcquireInv
  <2>6. CASE Abandon(c)
    BY <2>6, RespondStep DEF Abandon
  <2> QED BY <1>2, <2>1, <2>2, <2>3, <2>4, <2>5, <2>6
<1> QED BY <1>1, <1>2 DEF Next

\* The inductive invariant holds in every state of every behaviour.
THEOREM Invariance == Spec => []QueueInv
  BY InitInv, StepInv, PTL DEF Spec

\* Type correctness.
THEOREM TypeCorrect == Spec => []TypeOK
<1>1. QueueInv => TypeOK
  BY DEF QueueInv
<1> QED BY <1>1, Invariance, PTL

-----------------------------------------------------------------------------
(* What an approval may rely on when it commits. *)

\* A review replaces the content its page was made from and no other.
THEOREM StaleNeverOverwrites == Spec => StaleReviewNeverOverwrites
<1>1. ASSUME QueueInv, NEW c \in Clients, Approves(c), req[c].base # None
      PROVE  discs[req[c].row.target] = req[c].base
  <2>1. ClientInv(c) /\ pc[c] = "commit"
    BY <1>1 DEF QueueInv, Approves
  <2>2. /\ req[c].row.target # None
        /\ req[c].current = TargetContent(discs, req[c].row.target)
        /\ req[c].current = req[c].base
    BY <1>1, <2>1 DEF ClientInv, Holds, ApprovalStands
  <2> QED BY <2>2 DEF TargetContent
<1>2. QueueInv /\ [Next]_vars
        => [\A c \in Clients :
              Approves(c) /\ req[c].base # None
                  => discs[req[c].row.target] = req[c].base]_vars
  BY <1>1
<1> QED BY <1>2, Invariance, PTL DEF Spec, StaleReviewNeverOverwrites

\* The submission is still Pending, and targets what its reviewer saw.
THEOREM OntoReviewedTarget == Spec => ApprovedOntoReviewedTarget
<1>1. ASSUME QueueInv, NEW c \in Clients, Approves(c), subs[req[c].sub] # None
      PROVE  /\ subs[req[c].sub].status = "Pending"
             /\ subs[req[c].sub].target = req[c].row.target
  BY <1>1 DEF QueueInv, ClientInv, NewRowStands, ApprovalStands, Approves
<1>2. QueueInv /\ [Next]_vars
        => [\A c \in Clients :
              Approves(c) /\ subs[req[c].sub] # None
                  => /\ subs[req[c].sub].status = "Pending"
                     /\ subs[req[c].sub].target = req[c].row.target]_vars
  BY <1>1
<1> QED BY <1>2, Invariance, PTL DEF Spec, ApprovedOntoReviewedTarget

-----------------------------------------------------------------------------
(* The handlers implement the atomic queue.                                *)

\* The instance's copies of the operators of QueueData are those operators.
LEMMA SameData ==
  /\ RQ!Rows = Rows /\ RQ!Contents = Contents /\ RQ!Changes = Changes
  /\ \A base, ch : RQ!Apply(base, ch) = Apply(base, ch)
  /\ \A ds, t : RQ!TargetContent(ds, t) = TargetContent(ds, t)
  /\ \A ds : RQ!NextDiscId(ds) = NextDiscId(ds)
  /\ \A ds : RQ!ActiveDiscs(ds) = ActiveDiscs(ds)
  BY DEF RQ!Rows, Rows, RQ!Contents, Contents, RQ!Changes, Changes,
         RQ!Values, Values, RQ!Fields, Fields, RQ!DiscStatuses, DiscStatuses,
         RQ!SubmissionStatuses, SubmissionStatuses, RQ!SubmissionTypes, SubmissionTypes,
         RQ!Apply, Apply, RQ!TargetContent, TargetContent, RQ!Blank, Blank,
         RQ!NextDiscId, NextDiscId, RQ!ActiveDiscs, ActiveDiscs,
         RQ!Existing, Existing, RQ!IsActive, IsActive

LEMMA SameRows == RQ!Rows = Rows
  BY SameData

\* A step that writes one row writes only that submission.
LEMMA OneRow ==
  ASSUME TypeOK, NEW s \in SubIds, NEW row, row \in Rows,
         subs' = [subs EXCEPT ![s] = row], UNCHANGED <<discs, dumpers, dirty>>
  PROVE  /\ subs'[s] = row
         /\ row \in RQ!Rows
         /\ RQ!OnlySubmission(s)
<1>1. subs'[s] = row
  BY DEF TypeOK
<1> QED BY <1>1, SameRows DEF RQ!OnlySubmission

LEMMA SameConflicts ==
  \A ds, type, target, current, ch, eff :
      RQ!Conflicts(ds, type, target, current, ch, eff)
          = Conflicts(ds, type, target, current, ch, eff)
  BY DEF RQ!Conflicts, Conflicts, RQ!NameMatches, NameMatches, RQ!DatMatches, DatMatches,
         RQ!HashMatches, HashMatches, RQ!ArchivedDiscs, ArchivedDiscs,
         RQ!ActiveDiscs, ActiveDiscs, RQ!Existing, Existing, RQ!IsActive, IsActive,
         RQ!IsArchiveEligible, IsArchiveEligible, RQ!SameArchiveName, SameArchiveName

-----------------------------------------------------------------------------
(* The steps that change a table. *)

\* A comment, a rejection, a return to Draft is the review of a Pending row.
LEMMA UpdatePendingRefines ==
  ASSUME QueueInv, NEW c \in Clients, NEW status \in SubmissionStatuses,
         pc[c] = "loaded", status = "Draft" => req[c].row.type = "Disc",
         UpdatePending(c, [subs[req[c].sub] EXCEPT !.status = status,
                                                   !.reviewer = UserOf[c]])
  PROVE  UNCHANGED tables \/ \E s \in SubIds : RQ!Review(s, status)
<1> DEFINE s == req[c].sub
           row == [subs[s] EXCEPT !.status = status, !.reviewer = UserOf[c]]
<1>1. /\ s \in SubIds /\ subs[s] # None /\ subs[s] \in Rows
      /\ subs[s].type = req[c].row.type
  BY ReviewedExists, QueueAssumption DEF QueueInv, TypeOK, ClientInv, RowStands
<1>2. CASE subs[s].status = "Pending"
  <2>1. subs' = [subs EXCEPT ![s] = row] /\ UNCHANGED <<discs, dumpers, dirty>>
    BY <1>2 DEF UpdatePending
  <2>2. row \in Rows /\ row = [subs[s] EXCEPT !.status = status, !.reviewer = row.reviewer]
    BY <1>1, ClientAssumption DEF Rows
  <2> HIDE DEF row
  <2> HIDE DEF s
  <2>3. subs'[s] = row /\ row \in RQ!Rows /\ RQ!OnlySubmission(s)
    BY <1>1, <2>1, <2>2, OneRow DEF QueueInv
  <2>4. status = "Draft" => subs[s].type = "Disc"
    BY <1>1
  <2>5. RQ!Review(s, status)
    BY <1>1, <1>2, <2>2, <2>3, <2>4 DEF RQ!Review
  <2> QED BY <1>1, <2>5
<1>3. CASE subs[s].status # "Pending"
  BY <1>3 DEF UpdatePending, tables
<1> QED BY <1>2, <1>3

LEMMA SetTargetRefines ==
  ASSUME QueueInv, UNCHANGED <<discs, dumpers, dirty>>,
         NEW s \in SubIds, subs[s] # None,
         NEW expected, NEW d \in ActiveDiscs(discs) \cup {None},
         SetTarget(s, expected, d)
  PROVE  UNCHANGED tables \/ RQ!Retarget(s)
<1> DEFINE row == [subs[s] EXCEPT !.target = d]
<1>1. subs[s] \in Rows /\ d \in DiscIds \cup {None}
  BY DEF QueueInv, TypeOK, ActiveDiscs, Existing
<1>2. CASE subs' = subs
  BY <1>2 DEF tables
<1>3. CASE subs' # subs
  <2>1. /\ subs' = [subs EXCEPT ![s] = row]
        /\ subs[s].type = "Disc" /\ subs[s].status = "Pending"
    BY <1>1, <1>3 DEF SetTarget, QueueInv, TypeOK
  <2>2. row \in Rows /\ row.target = d /\ row = [subs[s] EXCEPT !.target = row.target]
    BY <1>1 DEF Rows
  <2> HIDE DEF row
  <2>3. subs'[s] = row /\ row \in RQ!Rows /\ RQ!OnlySubmission(s)
    BY <2>1, <2>2, OneRow DEF QueueInv
  <2>4. d \in RQ!ActiveDiscs(discs) \cup {None}
    BY SameData
  <2> QED BY <2>1, <2>2, <2>3, <2>4 DEF RQ!Retarget
<1> QED BY <1>2, <1>3

LEMMA StoreSubmissionRefines ==
  ASSUME QueueInv, NEW c \in Clients, pc[c] = "store", StoreSubmission(c)
  PROVE  UNCHANGED tables \/ \E s \in SubIds : RQ!Submit(s)
<1> DEFINE row == req[c].row
<1>1. row \in Rows /\ row.status = "Pending" /\ row.reviewer = None
  BY QueueAssumption
  DEF QueueInv, TypeOK, Requests, ClientInv, Holds, NewRowStands
<1>2. UNCHANGED <<discs, dumpers, dirty>>
  BY DEF StoreSubmission
<1>3. CASE UNCHANGED subs
  BY <1>2, <1>3 DEF tables
<1>4. CASE \E s \in FreshIds : subs' = [subs EXCEPT ![s] = row]
  <2>1. PICK s \in FreshIds : subs' = [subs EXCEPT ![s] = row]
    BY <1>4
  <2>2. s \in SubIds /\ subs[s] = None
    BY <2>1 DEF FreshIds
  <2> HIDE DEF row
  <2>3. subs'[s] = row /\ row \in RQ!Rows /\ RQ!OnlySubmission(s)
    BY <1>1, <1>2, <2>1, <2>2, OneRow DEF QueueInv
  <2>4. RQ!Submit(s)
    BY <1>1, <2>2, <2>3 DEF RQ!Submit
  <2> QED BY <2>2, <2>4
<1> QED BY <1>3, <1>4 DEF StoreSubmission

LEMMA SubmitDraftRefines ==
  ASSUME QueueInv, NEW c \in Clients, pc[c] = "redraft", SubmitDraft(c)
  PROVE  UNCHANGED tables \/ \E s \in SubIds : RQ!Resubmit(s)
<1> DEFINE s == req[c].sub
           row == [req[c].row EXCEPT !.reviewer = subs[s].reviewer]
<1>1. /\ s \in SubIds /\ subs[s] # None /\ subs[s] \in Rows
      /\ req[c].row \in Rows /\ req[c].row.status = "Pending"
      /\ req[c].row.type = "Disc" /\ subs[s].type = "Disc"
      /\ subs[s].submitter = req[c].row.submitter
  BY QueueAssumption
  DEF QueueInv, TypeOK, Requests, ClientInv, Holds, RowStands, NewRowStands, InTransaction
<1>2. UNCHANGED <<discs, dumpers, dirty>>
  BY DEF SubmitDraft
<1>3. CASE UNCHANGED subs
  BY <1>2, <1>3 DEF tables
<1>4. CASE subs[s].status = "Draft" /\ subs' = [subs EXCEPT ![s] = row]
  <2>1. /\ row \in Rows
        /\ row = [subs[s] EXCEPT !.status = "Pending", !.target = row.target,
                                 !.changes = row.changes, !.token = row.token,
                                 !.fingerprint = row.fingerprint]
    BY <1>1 DEF Rows
  <2> HIDE DEF row
  <2> HIDE DEF s
  <2>2. subs'[s] = row /\ row \in RQ!Rows /\ RQ!OnlySubmission(s)
    BY <1>1, <1>2, <1>4, <2>1, OneRow DEF QueueInv
  <2>3. RQ!Resubmit(s)
    BY <1>1, <1>4, <2>1, <2>2 DEF RQ!Resubmit
  <2> QED BY <1>1, <2>3
<1> QED BY <1>3, <1>4 DEF SubmitDraft

\* The commit of an approval is the approval of the row as it is at that
\* instant, and finds the catalogue as it was when the conflicts were sought.
LEMMA CommitRefines ==
  ASSUME QueueInv, NEW c \in Clients, pc[c] = "commit", Commit(c)
  PROVE  \E s \in SubIds : RQ!Approve(s) \/ RQ!SubmitApproved(s)
<1> DEFINE r == req[c]
           s == r.sub
           old == IF r.created THEN r.row ELSE subs[s]
           eff == Effective(r)
           target == r.row.target
<1>0. /\ s \in SubIds /\ old \in Rows /\ old.status = "Pending"
      /\ r.created => subs[s] = None
      /\ ~r.created => subs[s] # None
      /\ old.type = r.row.type /\ old.submitter = r.row.submitter
      /\ old.target = target
      /\ target \in DiscIds \cup {None} /\ (target # None => discs[target] # None)
      /\ r.current = TargetContent(discs, target)
      /\ r.current \in Contents /\ r.changes \in Changes
      /\ eff \in Contents /\ eff = Apply(r.current, r.changes)
      /\ Conflicts(discs, r.row.type, target, r.current, r.changes, eff) = {}
  BY CommitWrites, InTransactionHolds DEF Effective
<1>1. PICK d \in IF target = None THEN NextDiscId(discs) ELSE {target} :
          /\ discs' = [discs EXCEPT ![d] = eff]
          /\ dumpers' = [dumpers EXCEPT ![d] =
                             IF target = None \/ r.row.type = "Disc"
                             THEN @ \cup {r.row.submitter} ELSE @]
          /\ subs' = [subs EXCEPT ![s] =
                          [old EXCEPT !.status = "Approved", !.target = d,
                                      !.changes = r.changes,
                                      !.reviewer = UserOf[c]]]
  BY DEF Commit
<1> DEFINE new == [old EXCEPT !.status = "Approved", !.target = d,
                              !.changes = r.changes, !.reviewer = UserOf[c]]
<1>2. d \in DiscIds
  BY <1>0 DEF NextDiscId
<1>3. /\ dirty' = dirty \cup ({r.current["system_code"], eff["system_code"]} \ {None})
      /\ subs' = [subs EXCEPT ![s] = new]
  BY <1>1 DEF Commit
<1>4. /\ new \in Rows /\ new.target = d /\ new.changes = r.changes
      /\ new.type = old.type /\ new.submitter = old.submitter
      /\ new = [old EXCEPT !.status = "Approved", !.target = new.target,
                           !.changes = new.changes, !.reviewer = new.reviewer]
  <2>1. UserOf[c] \in Users /\ "Approved" \in SubmissionStatuses
    BY ClientAssumption DEF SubmissionStatuses
  <2> HIDE DEF old, r
  <2> QED BY <1>0, <1>2, <2>1 DEF Rows
<1>5. r.created => /\ old.reviewer = None /\ old.changes = r.row.changes
  BY <1>0 DEF QueueInv, ClientInv, NewRowStands
<1> HIDE DEF new, old, eff, r, s, target
<1>6. subs'[s] = new
  BY <1>0, <1>3 DEF QueueInv, TypeOK
<1>7. ASSUME NEW row \in Rows, row.type = old.type, row.target = target,
             row.submitter = old.submitter,
             new = [row EXCEPT !.status = "Approved", !.target = new.target,
                               !.changes = new.changes, !.reviewer = new.reviewer]
      PROVE  RQ!ApproveRow(s, row)
  <2>1. /\ RQ!TargetContent(discs, row.target) = r.current
        /\ RQ!Apply(r.current, new.changes) = eff
        /\ RQ!NextDiscId(discs) = NextDiscId(discs)
        /\ new \in RQ!Rows
    BY <1>0, <1>4, <1>7, SameData
  <2>2. RQ!Conflicts(discs, row.type, row.target, r.current, new.changes, eff) = {}
    BY <1>0, <1>4, <1>7, SameConflicts
  <2>3. IF row.target = None THEN d \in NextDiscId(discs)
                            ELSE d = row.target /\ discs[d] # None
    BY <1>0, <1>1, <1>7
  <2>4. dumpers' = [dumpers EXCEPT ![d] = IF row.target = None \/ row.type = "Disc"
                                          THEN @ \cup {row.submitter} ELSE @]
    BY <1>0, <1>1, <1>7
  <2>5. /\ discs' = [discs EXCEPT ![new.target] = eff]
        /\ subs' = [subs EXCEPT ![s] = subs'[s]]
        /\ dirty' = dirty \cup ({r.current["system_code"], eff["system_code"]} \ {None})
    BY <1>1, <1>3, <1>4, <1>6
  <2> QED BY <1>4, <1>6, <1>7, <2>1, <2>2, <2>3, <2>4, <2>5 DEF RQ!ApproveRow
<1>8. CASE ~r.created
  <2>1. subs[s] = old
    BY <1>8 DEF old, s
  <2>2. RQ!ApproveRow(s, old)
    BY <1>0, <1>4, <1>7
  <2> QED BY <1>0, <1>8, <2>1, <2>2 DEF RQ!Approve
<1>9. CASE r.created
  <2> DEFINE row == [new EXCEPT !.status = "Pending", !.target = target,
                                !.reviewer = None]
  <2>1. /\ row \in Rows /\ row.type = old.type /\ row.target = target
        /\ row.submitter = old.submitter
        /\ new = [row EXCEPT !.status = "Approved", !.target = new.target,
                             !.changes = new.changes, !.reviewer = new.reviewer]
    BY <1>0, <1>4 DEF Rows, SubmissionStatuses
  <2>2. RQ!ApproveRow(s, row)
    <3> HIDE DEF row
    <3> QED BY <1>7, <2>1
  <2>3. target \in {None, new.target}
    BY <1>0, <1>1, <1>4
  <2>4. RQ!SubmitApproved(s)
    BY <1>0, <1>4, <1>6, <1>9, <2>2, <2>3, SameData DEF RQ!SubmitApproved
  <2> QED BY <1>0, <2>4
<1> QED BY <1>8, <1>9

-----------------------------------------------------------------------------
(* Every step of the program is a step of the atomic queue, or a stutter. *)

LEMMA DecideRefines ==
  ASSUME QueueInv, NEW c \in Clients, Decide(c)
  PROVE  UNCHANGED tables \/ RQ!Next
<1>0. /\ pc[c] = "loaded" /\ req[c].sub \in SubIds /\ subs[req[c].sub] \in Rows
      /\ subs[req[c].sub] # None /\ subs[req[c].sub].type = req[c].row.type
  <2>1. pc[c] = "loaded"
    BY DEF Decide
  <2> QED BY <2>1, ReviewedExists, QueueAssumption
          DEF QueueInv, TypeOK, ClientInv, RowStands
<1>1. CASE CommentSubmission(c)
  <2> DEFINE row == subs[req[c].sub]
  <2>1. CASE row.status = "Pending"
    <3>1. [row EXCEPT !.status = "Pending", !.reviewer = UserOf[c]]
             = [row EXCEPT !.reviewer = UserOf[c]]
      BY <1>0, <2>1 DEF Rows
    <3>2. UpdatePending(c, [row EXCEPT !.status = "Pending", !.reviewer = UserOf[c]])
      BY <1>1, <3>1 DEF CommentSubmission
    <3>3. UNCHANGED tables \/ \E s \in SubIds : RQ!Review(s, "Pending")
      BY <1>0, <3>2, UpdatePendingRefines DEF SubmissionStatuses
    <3> QED BY <3>3 DEF RQ!Next
  <2>2. CASE row.status # "Pending"
    BY <1>1, <2>2 DEF CommentSubmission, UpdatePending, tables
  <2> QED BY <2>1, <2>2
<1>2. CASE RejectSubmission(c)
  <2>1. UNCHANGED tables \/ \E s \in SubIds : RQ!Review(s, "Rejected")
    BY <1>0, <1>2, UpdatePendingRefines DEF RejectSubmission, SubmissionStatuses
  <2> QED BY <2>1 DEF RQ!Next
<1>3. CASE DraftSubmission(c)
  <2>1. UNCHANGED tables \/ \E s \in SubIds : RQ!Review(s, "Draft")
    BY <1>0, <1>3, UpdatePendingRefines DEF DraftSubmission, SubmissionStatuses
  <2> QED BY <2>1 DEF RQ!Next
<1>4. CASE \E d \in DiscIds \cup {None} : ManualRetarget(c, d)
  <2>1. PICK d \in DiscIds \cup {None} : ManualRetarget(c, d)
    BY <1>4
  <2>2. UNCHANGED <<discs, dumpers, dirty>>
    BY <2>1 DEF ManualRetarget
  <2>3. CASE d \in ActiveDiscs(discs) \cup {None}
    <3>1. SetTarget(req[c].sub, req[c].row.target, d)
      BY <2>1, <2>3 DEF ManualRetarget
    <3>2. UNCHANGED tables \/ RQ!Retarget(req[c].sub)
      BY <1>0, <2>2, <2>3, <3>1, SetTargetRefines
    <3> QED BY <1>0, <3>2 DEF RQ!Next
  <2>4. CASE d \notin ActiveDiscs(discs) \cup {None}
    BY <2>1, <2>2, <2>4 DEF ManualRetarget, tables
  <2> QED BY <2>3, <2>4
<1>5. CASE \E form \in Forms \cup {req[c].form} : CheckReview(c, form)
  BY <1>5 DEF CheckReview, Respond, Continue
<1> QED BY <1>1, <1>2, <1>3, <1>4, <1>5 DEF Decide

LEMMA RetargetToMatchRefines ==
  ASSUME QueueInv, NEW c \in Clients, pc[c] = "rematch", RetargetToMatch(c)
  PROVE  UNCHANGED tables \/ \E s \in SubIds : RQ!Retarget(s)
<1>1. UNCHANGED <<discs, dumpers, dirty>>
  BY DEF RetargetToMatch
<1>2. /\ req[c].sub \in SubIds /\ subs[req[c].sub] # None
      /\ req[c].form \in Contents
  BY ReviewedExists
<1>3. PICK d \in ExactMatches(discs, req[c].form) :
          IF d = req[c].match THEN SetTarget(req[c].sub, None, d) ELSE UNCHANGED subs
  BY DEF RetargetToMatch
<1>4. d \in ActiveDiscs(discs) \cup {None}
  BY <1>2, MatchType DEF QueueInv, TypeOK, Catalogues
<1>5. CASE d = req[c].match
  <2>1. SetTarget(req[c].sub, None, d)
    BY <1>3, <1>5
  <2>2. UNCHANGED tables \/ RQ!Retarget(req[c].sub)
    BY <1>1, <1>2, <1>4, <2>1, SetTargetRefines
  <2> QED BY <1>2, <2>2
<1>6. CASE d # req[c].match
  BY <1>1, <1>3, <1>6 DEF tables
<1> QED BY <1>5, <1>6

LEMMA HandleRefines ==
  ASSUME QueueInv, NEW c \in Clients, Handle(c)
  PROVE  UNCHANGED tables \/ RQ!Next
<1>1. CASE Decide(c)
  BY <1>1, DecideRefines
<1>2. CASE pc[c] = "rematch" /\ RetargetToMatch(c)
  BY <1>2, RetargetToMatchRefines DEF RQ!Next
<1>3. CASE pc[c] = "store" /\ StoreSubmission(c)
  BY <1>3, StoreSubmissionRefines DEF RQ!Next
<1>4. CASE pc[c] = "redraft" /\ SubmitDraft(c)
  BY <1>4, SubmitDraftRefines DEF RQ!Next
<1>5. CASE pc[c] = "commit" /\ Commit(c)
  BY <1>5, CommitRefines DEF RQ!Next
<1>6. CASE \/ BuildReviewChanges(c) \/ Precheck(c) \/ InsertDirect(c) \/ Recheck(c)
           \/ ResolveApproval(c) \/ FindConflicts(c) \/ ClaimSubmission(c)
  BY <1>6 DEF BuildReviewChanges, Precheck, InsertDirect, Recheck, ResolveApproval,
              FindConflicts, ClaimSubmission, Continue, Respond
<1> QED BY <1>1, <1>2, <1>3, <1>4, <1>5, <1>6 DEF Handle

LEMMA StepRefines ==
  ASSUME QueueInv, [Next]_vars
  PROVE  UNCHANGED tables \/ RQ!Next
<1>1. CASE UNCHANGED vars
  BY <1>1 DEF vars, tables
<1>2. ASSUME NEW c \in Clients,
             \/ StartReview(c) \/ LoadSubmission(c) \/ StartSubmission(c)
             \/ Handle(c) \/ AcquireApprovalLock(c) \/ Abandon(c)
      PROVE  UNCHANGED tables \/ RQ!Next
  <2>1. CASE StartReview(c) \/ LoadSubmission(c)
    BY <2>1 DEF StartReview, OpenReview, LoadSubmission, Continue, Respond
  <2>2. CASE StartSubmission(c)
    BY <2>2 DEF StartSubmission, AddSubmit, AddSubmitDraft, EditSubmit, Continue
  <2>3. CASE Handle(c)
    BY <2>3, HandleRefines
  <2>4. CASE AcquireApprovalLock(c) \/ Abandon(c)
    BY <2>4 DEF AcquireApprovalLock, Abandon, Respond
  <2> QED BY <1>2, <2>1, <2>2, <2>3, <2>4
<1> QED BY <1>1, <1>2 DEF Next

\* The handlers and transactions of the program, however they interleave,
\* implement the atomic review queue.
THEOREM Refinement == Spec => AtomicOperations
<1>1. Init => RQ!Init
  BY DEF Init, RQ!Init
<1>2. QueueInv /\ [Next]_vars => [RQ!Next]_(RQ!vars)
  BY StepRefines DEF tables, RQ!vars
<1> QED BY <1>1, <1>2, Invariance, PTL DEF Spec, RQ!Spec, AtomicOperations

-----------------------------------------------------------------------------
(* What the atomic queue gives the program. *)

\* The step of an approval, as it is seen in the tables.
LEMMA ApprovalWrites ==
  ASSUME QueueInv, NEW s \in SubIds, NEW old, RQ!ApproveRow(s, old),
         old.target \in DiscIds \cup {None},
         old.target # None => discs[old.target] # None
  PROVE  LET current == TargetContent(discs, old.target)
             eff == Apply(current, subs'[s].changes)
             d == subs'[s].target
         IN  /\ eff \in Contents /\ d \in DiscIds /\ subs'[s].changes \in Changes
             /\ IF old.target = None THEN discs[d] = None ELSE d = old.target
             /\ Conflicts(discs, old.type, old.target, current, subs'[s].changes, eff) = {}
             /\ discs' = [discs EXCEPT ![d] = eff]
             /\ dumpers' = [dumpers EXCEPT ![d] = dumpers'[d]]
<1> DEFINE new == subs'[s]
           current == TargetContent(discs, old.target)
           eff == Apply(current, new.changes)
           d == new.target
<1>1. /\ RQ!TargetContent(discs, old.target) = current
      /\ RQ!Apply(current, new.changes) = eff
      /\ RQ!NextDiscId(discs) = NextDiscId(discs)
      /\ new \in Rows
  BY SameData DEF RQ!ApproveRow
<1>2. Conflicts(discs, old.type, old.target, current, new.changes, eff) = {}
  BY <1>1, SameConflicts DEF RQ!ApproveRow
<1>3. IF old.target = None THEN d \in NextDiscId(discs) ELSE d = old.target
  BY <1>1 DEF RQ!ApproveRow
<1>4. discs' = [discs EXCEPT ![d] = eff]
  BY <1>1 DEF RQ!ApproveRow
<1>5. d \in DiscIds /\ IF old.target = None THEN discs[d] = None ELSE d = old.target
  <2> HIDE DEF d
  <2>1. ASSUME d \in NextDiscId(discs) PROVE d \in DiscIds /\ discs[d] = None
    <3>1. d \in DiscIds /\ \A e \in DiscIds : e < d <=> discs[e] # None
      BY <2>1 DEF NextDiscId
    <3>2. ~(d < d)
      BY <3>1, QueueAssumption
    <3> QED BY <3>1, <3>2
  <2> QED BY <1>3, <2>1
<1>6. current \in Contents
  BY TargetType DEF QueueInv, TypeOK, Catalogues
<1>7. new.changes \in Changes
  BY <1>1 DEF Rows
<1>8. eff \in Contents
  BY <1>6, <1>7, ApplyType
<1>9. dumpers' = [dumpers EXCEPT ![d] = dumpers'[d]]
  BY <1>5 DEF RQ!ApproveRow, QueueInv, TypeOK
<1> QED BY <1>2, <1>4, <1>5, <1>7, <1>8, <1>9

\* A step of the atomic queue leaves the catalogue and its dumpers alone, or is
\* the approval of a row whose target is there.
LEMMA StepKinds ==
  ASSUME QueueInv, RQ!Next
  PROVE  \/ UNCHANGED <<discs, dumpers>>
         \/ \E s \in SubIds, old \in Rows :
               /\ RQ!ApproveRow(s, old)
               /\ old.target # None => discs[old.target] # None
<1>1. PICK s \in SubIds :
          \/ RQ!Submit(s) \/ RQ!Resubmit(s) \/ RQ!Retarget(s)
          \/ \E status \in {"Pending", "Rejected", "Draft"} : RQ!Review(s, status)
          \/ RQ!Approve(s) \/ RQ!SubmitApproved(s)
  BY DEF RQ!Next
<1>2. CASE RQ!Submit(s) \/ RQ!Resubmit(s) \/ RQ!Retarget(s)
  BY <1>2 DEF RQ!Submit, RQ!Resubmit, RQ!Retarget, RQ!OnlySubmission
<1>3. CASE \E status \in {"Pending", "Rejected", "Draft"} : RQ!Review(s, status)
  BY <1>3 DEF RQ!Review, RQ!OnlySubmission
<1>4. CASE RQ!Approve(s)
  <2>1. subs[s] # None /\ RQ!ApproveRow(s, subs[s])
    BY <1>4 DEF RQ!Approve
  <2>2. subs[s] \in Rows /\ (subs[s].target # None => discs[subs[s].target] # None)
    BY <2>1 DEF QueueInv, TypeOK, TargetsExist
  <2> QED BY <2>1, <2>2
<1>5. CASE RQ!SubmitApproved(s)
  <2> DEFINE row(t) == [subs'[s] EXCEPT !.status = "Pending", !.target = t,
                                        !.reviewer = None]
  <2>1. subs'[s] \in Rows
    BY <1>5, SameRows DEF RQ!SubmitApproved
  <2>2. PICK t \in {None, subs'[s].target} : RQ!ApproveRow(s, row(t))
    BY <1>5 DEF RQ!SubmitApproved
  <2>3. /\ row(t) \in Rows /\ row(t).target = t
        /\ subs'[s].target \in DiscIds \cup {None}
    BY <2>1 DEF Rows, SubmissionStatuses
  <2>4. t # None => discs[t] # None
    BY <2>2, <2>3, SameData DEF RQ!ApproveRow
  <2> HIDE DEF row
  <2> QED BY <2>2, <2>3, <2>4
<1> QED BY <1>1, <1>2, <1>3, <1>4, <1>5

LEMMA NamesStep ==
  ASSUME QueueInv, ArchiveNamesUnique, [Next]_vars
  PROVE  ArchiveNamesUnique'
<1>1. CASE UNCHANGED discs
  BY <1>1 DEF ArchiveNamesUnique
<1>2. ASSUME NEW s \in SubIds, NEW old \in Rows, RQ!ApproveRow(s, old),
             old.target # None => discs[old.target] # None
      PROVE  ArchiveNamesUnique'
  <2>1. old.target \in DiscIds \cup {None} /\ discs \in Catalogues
    BY DEF Rows, QueueInv, TypeOK, Catalogues
  <2> DEFINE current == TargetContent(discs, old.target)
             ch == subs'[s].changes
             eff == Apply(current, ch)
             d == subs'[s].target
  <2>2. /\ eff \in Contents /\ d \in DiscIds /\ ch \in Changes
        /\ old.target # None => d = old.target
        /\ Conflicts(discs, old.type, old.target, current, ch, eff) = {}
        /\ discs' = [discs EXCEPT ![d] = eff]
    BY <1>2, <2>1, ApprovalWrites
  <2> HIDE DEF current, ch, eff, d
  <2>3. ArchiveNamesUniqueIn([discs EXCEPT ![d] = eff])
    BY <2>1, <2>2, NoConflictKeepsNamesUnique DEF ArchiveNamesUnique
  <2> QED BY <2>2, <2>3 DEF ArchiveNamesUnique
<1> QED BY <1>1, <1>2, StepRefines, StepKinds DEF tables

\* Two discs of the archives of one system never share a generated name,
\* however submissions, retries, retargets and approvals interleave.
THEOREM NamesUnique == Spec => []ArchiveNamesUnique
<1>1. Init => ArchiveNamesUnique
  BY InitAssumption DEF Init, ArchiveNamesUnique
<1>2. QueueInv /\ ArchiveNamesUnique /\ [Next]_vars => ArchiveNamesUnique'
  BY NamesStep
<1> QED BY <1>1, <1>2, Invariance, PTL DEF Spec

\* The row of an approved or rejected submission never changes again.
THEOREM Frozen == Spec => FinalIsFrozen
<1> DEFINE Final(s) == subs[s] # None /\ subs[s].status \in {"Approved", "Rejected"}
<1>1. ASSUME QueueInv, [Next]_vars, NEW s \in SubIds, Final(s)
      PROVE  subs'[s] = subs[s]
  <2>1. CASE UNCHANGED tables
    BY <2>1 DEF tables
  <2>2. ASSUME NEW t \in SubIds,
               \/ RQ!Submit(t) \/ RQ!Resubmit(t) \/ RQ!Retarget(t)
               \/ \E status \in {"Pending", "Rejected", "Draft"} : RQ!Review(t, status)
               \/ RQ!Approve(t) \/ RQ!SubmitApproved(t)
        PROVE  subs'[s] = subs[s]
    <3>1. subs' = [subs EXCEPT ![t] = subs'[t]]
      BY <2>2 DEF RQ!Submit, RQ!Resubmit, RQ!Retarget, RQ!Review, RQ!OnlySubmission,
                  RQ!Approve, RQ!SubmitApproved, RQ!ApproveRow
    <3>2. subs[t] = None \/ subs[t].status \in {"Pending", "Draft"}
      BY <2>2 DEF RQ!Submit, RQ!Resubmit, RQ!Retarget, RQ!Review,
                  RQ!Approve, RQ!SubmitApproved
    <3>3. s # t
      BY <1>1, <3>2
    <3> DEFINE row == subs'[t]
    <3> HIDE DEF row
    <3>4. subs' = [subs EXCEPT ![t] = row] /\ DOMAIN subs = SubIds
      BY <1>1, <3>1 DEF row, QueueInv, TypeOK
    <3> QED BY <3>3, <3>4
  <2> QED BY <1>1, <2>1, <2>2, StepRefines DEF RQ!Next
<1>2. QueueInv /\ [Next]_vars
        => [\A s \in SubIds : Final(s) => subs'[s] = subs[s]]_vars
  BY <1>1
<1> QED BY <1>2, Invariance, PTL DEF Spec, FinalIsFrozen

\* No verification is approved onto a disc that is Disabled.
THEOREM NeverVerified == Spec => DisabledIsNeverVerified
<1>1. ASSUME QueueInv, [Next]_vars, NEW d \in Existing(discs), ~IsActive(discs[d])
      PROVE  dumpers'[d] = dumpers[d]
  <2>1. CASE UNCHANGED dumpers
    BY <2>1
  <2>2. ASSUME NEW s \in SubIds, NEW old \in Rows, RQ!ApproveRow(s, old),
               old.target # None => discs[old.target] # None
        PROVE  dumpers'[d] = dumpers[d]
    <3> DEFINE current == TargetContent(discs, old.target)
               t == subs'[s].target
               credit == dumpers'[t]
    <3>1. old.target \in DiscIds \cup {None}
      BY DEF Rows
    <3>2. /\ IF old.target = None THEN discs[t] = None ELSE t = old.target
          /\ Conflicts(discs, old.type, old.target, current, subs'[s].changes,
                       Apply(current, subs'[s].changes)) = {}
          /\ dumpers' = [dumpers EXCEPT ![t] = credit]
      BY <1>1, <2>2, <3>1, ApprovalWrites
    <3> HIDE DEF credit
    <3>3. CASE t # d
      BY <3>2, <3>3 DEF QueueInv, TypeOK, Existing
    <3>4. CASE t = d
      <4>1. old.target = d
        BY <1>1, <3>2, <3>4 DEF Existing
      <4>2. current["status"] = "Disabled"
        BY <1>1, <4>1, QueueAssumption DEF TargetContent, IsActive, Existing
      <4>3. old.type # "Disc"
        BY <3>2, <4>2 DEF Conflicts
      <4>4. dumpers' = [dumpers EXCEPT ![t] = IF old.target = None \/ old.type = "Disc"
                                               THEN @ \cup {old.submitter} ELSE @]
        BY <2>2 DEF RQ!ApproveRow
      <4>5. dumpers' = [dumpers EXCEPT ![d] = dumpers[d]]
        BY <1>1, <3>4, <4>1, <4>3, <4>4, QueueAssumption DEF Existing
      <4> QED BY <4>5 DEF QueueInv, TypeOK, Existing
    <3> QED BY <3>3, <3>4
  <2> QED BY <1>1, <2>1, <2>2, StepRefines, StepKinds DEF tables
<1>2. QueueInv /\ [Next]_vars
        => [\A d \in Existing(discs) :
               ~IsActive(discs[d]) => dumpers'[d] = dumpers[d]]_vars
  BY <1>1
<1> QED BY <1>2, Invariance, PTL DEF Spec, DisabledIsNeverVerified

\* A disc that enters the catalogue, or whose DAT or universal hash changes,
\* shares it with no other active disc: what find_approval_conflicts read under
\* the lock is still so when approve_submission_on commits.
THEOREM IntroducedAreUnique == Spec => IntroducedHashIsUnique
<1>1. ASSUME QueueInv, [Next]_vars PROVE NewHashesAreUnique(discs, discs')
  <2>1. CASE UNCHANGED discs
    BY <2>1 DEF NewHashesAreUnique, ActiveDiscs, Existing
  <2>2. ASSUME NEW s \in SubIds, NEW old \in Rows, RQ!ApproveRow(s, old),
               old.target # None => discs[old.target] # None
        PROVE  NewHashesAreUnique(discs, discs')
    <3>1. old.target \in DiscIds \cup {None} /\ discs \in Catalogues
      BY <1>1 DEF Rows, QueueInv, TypeOK, Catalogues
    <3> DEFINE current == TargetContent(discs, old.target)
               ch == subs'[s].changes
               eff == Apply(current, ch)
               d == subs'[s].target
    <3>2. /\ eff \in Contents /\ d \in DiscIds /\ ch \in Changes
          /\ IF old.target = None THEN discs[d] = None ELSE d = old.target
          /\ Conflicts(discs, old.type, old.target, current, ch, eff) = {}
          /\ discs' = [discs EXCEPT ![d] = eff]
      BY <1>1, <2>2, <3>1, ApprovalWrites
    <3>3. eff = Apply(TargetContent(discs, old.target), ch)
      OBVIOUS
    <3> HIDE DEF ch, eff, d
    <3>4. NewHashesAreUnique(discs, [discs EXCEPT ![d] = eff])
      BY <2>2, <3>1, <3>2, <3>3, NoConflictKeepsHashesApart
    <3> QED BY <3>2, <3>4
  <2> QED BY <1>1, <2>1, <2>2, StepRefines, StepKinds DEF tables
<1>2. ASSUME NewHashesAreUnique(discs, discs')
      PROVE  \A d \in ActiveDiscs(discs') :
                LET new(f) == discs[d] = None \/ discs[d][f] # discs'[d][f]
                IN  /\ new("dat") => DatMatches(discs', discs'[d]["dat"]) \subseteq {d}
                    /\ new("universal_hash") =>
                          HashMatches(discs', discs'[d]["universal_hash"]) \subseteq {d}
  BY <1>2 DEF NewHashesAreUnique
<1>3. QueueInv /\ [Next]_vars
        => [\A d \in ActiveDiscs(discs') :
                LET new(f) == discs[d] = None \/ discs[d][f] # discs'[d][f]
                IN  /\ new("dat") => DatMatches(discs', discs'[d]["dat"]) \subseteq {d}
                    /\ new("universal_hash") =>
                          HashMatches(discs', discs'[d]["universal_hash"]) \subseteq {d}]_vars
  BY <1>1, <1>2
<1> QED BY <1>3, Invariance, PTL DEF Spec, IntroducedHashIsUnique

-----------------------------------------------------------------------------
(* Tokens, credits and roles: the invariant.                               *)

\* The token of an insert that is not committed is in no row.  (The lock
\* allows one such insert at a time.)
InsertsAreNew == \A c \in Clients : Inserting(c) => WithToken(req[c].row.token) = {}

\* An edit has the disc it is an edit of.
HasTarget(row) == row # None /\ row.type = "Edit" => row.target # None
EditsHaveTargets ==
    /\ \A s \in SubIds : subs[s] # None /\ subs[s].status = "Pending" => HasTarget(subs[s])
    /\ \A c \in Clients : HasTarget(req[c].row)

\* What was approved before the first request is as it was.
InitialStands ==
    \A s \in SubIds : InitSubs[s] # None /\ InitSubs[s].status = "Approved" => subs[s] = InitSubs[s]

LedgerInv ==
    /\ OneSubmissionPerToken
    /\ InsertsAreNew
    /\ EditsHaveTargets
    /\ InitialStands
    /\ CreditMatchesApprovals

-----------------------------------------------------------------------------
(* Steps that change no submission. *)

\* A handler goes on with the row it holds, or with one that has its target,
\* and begins no insert.
LEMMA QuietStep ==
  ASSUME QueueInv, LedgerInv, NEW c \in Clients, UNCHANGED <<subs, dumpers>>,
         \A e \in Clients \ {c} : pc'[e] = pc[e] /\ req'[e] = req[e],
         HasTarget(req'[c].row),
         Inserting(c)' => Inserting(c) /\ req'[c].row = req[c].row
  PROVE  LedgerInv'
<1> USE DEF LedgerInv
<1>1. OneSubmissionPerToken' /\ InitialStands' /\ CreditMatchesApprovals'
  BY DEF OneSubmissionPerToken, InitialStands, CreditMatchesApprovals
<1>2. EditsHaveTargets'
  BY DEF EditsHaveTargets, HasTarget
<1>3. ASSUME NEW e \in Clients, Inserting(e)' PROVE WithToken(req[e].row.token)' = {}
  <2>1. Inserting(e) /\ req'[e].row = req[e].row
    BY <1>3 DEF Inserting
  <2>2. WithToken(req[e].row.token) = {}
    BY <2>1 DEF InsertsAreNew
  <2> QED BY <2>1, <2>2 DEF WithToken
<1> QED BY <1>1, <1>2, <1>3 DEF InsertsAreNew

LEMMA HeldHasTarget == ASSUME LedgerInv, NEW c \in Clients PROVE HasTarget(req[c].row)
  BY DEF LedgerInv, EditsHaveTargets

\* The handler keeps its row, or has not inserted it.
LEMMA ContinueKeepsLedger ==
  ASSUME QueueInv, LedgerInv, NEW c \in Clients, NEW from \in Locations, NEW to \in Locations, NEW r,
         Continue(c, from, to, r), HasTarget(r.row),
         r.created => r.row = req[c].row /\ req[c].created
  PROVE  LedgerInv'
<1>1. /\ pc'[c] = to /\ req'[c] = r /\ pc[c] = from
      /\ \A e \in Clients \ {c} : pc'[e] = pc[e] /\ req'[e] = req[e]
      /\ UNCHANGED <<subs, dumpers>>
  BY DEF Continue, Goto, tables, QueueInv, TypeOK
<1>2. Inserting(c)' => Inserting(c) /\ req'[c].row = req[c].row
  BY <1>1 DEF Inserting, QueueInv, ClientInv, Holds
<1> QED BY <1>1, <1>2, QuietStep

LEMMA FinishLeavesNothing ==
  ASSUME QueueInv, NEW c \in Clients, NEW from, Finish(c, from)
  PROVE  /\ req'[c] = NoRequest /\ pc'[c] = "idle" /\ pc[c] = from
         /\ \A e \in Clients \ {c} : pc'[e] = pc[e] /\ req'[e] = req[e]
         /\ HasTarget(req'[c].row) /\ ~Inserting(c)'
  BY DEF Finish, Goto, QueueInv, TypeOK, HasTarget, Inserting, NoRequest

LEMMA RespondKeepsLedger ==
  ASSUME QueueInv, LedgerInv, NEW c \in Clients, NEW from, Respond(c, from) PROVE LedgerInv'
  BY FinishLeavesNothing, QuietStep DEF Respond, tables

-----------------------------------------------------------------------------
(* Steps that change one submission and approve nothing. *)

LEMMA RowStep ==
  ASSUME QueueInv, LedgerInv, NEW c \in Clients, NEW from, Finish(c, from), UNCHANGED dumpers,
         NEW s \in SubIds, NEW row \in Rows, subs' = [subs EXCEPT ![s] = row],
         subs[s] # None => subs[s].status # "Approved",
         row.status # "Approved", row.status = "Pending" => HasTarget(row),
         WithToken(row.token) \subseteq {s},
         row.token # None => \A e \in Clients \ {c} : Inserting(e) => req[e].row.token # row.token
  PROVE  LedgerInv'
<1> USE DEF LedgerInv
<1>0. /\ subs'[s] = row /\ row # None
      /\ \A t \in SubIds \ {s} : subs'[t] = subs[t]
  BY QueueAssumption DEF QueueInv, TypeOK
<1>1. /\ \A e \in Clients \ {c} : pc'[e] = pc[e] /\ req'[e] = req[e]
      /\ HasTarget(req'[c].row) /\ ~Inserting(c)'
  BY FinishLeavesNothing
<1>2. OneSubmissionPerToken'
  <2>1. ASSUME NEW t \in SubIds, NEW u \in SubIds, subs'[t] # None, subs'[t].token # None,
               subs'[u] # None, subs'[u].token = subs'[t].token
        PROVE  t = u
    <3>1. CASE t # s /\ u # s
      BY <1>0, <2>1, <3>1 DEF OneSubmissionPerToken
    <3>2. CASE t = s \/ u = s
      BY <1>0, <2>1, <3>2 DEF WithToken
    <3> QED BY <3>1, <3>2
  <2> QED BY <2>1 DEF OneSubmissionPerToken
<1>3. ASSUME NEW e \in Clients, Inserting(e)' PROVE WithToken(req[e].row.token)' = {}
  <2>1. e # c /\ Inserting(e) /\ req'[e].row = req[e].row
    BY <1>1, <1>3 DEF Inserting
  <2>2. WithToken(req[e].row.token) = {}
    BY <2>1 DEF InsertsAreNew
  <2>3. req[e].row.token # None => req[e].row.token # row.token
    BY <2>1
  <2> QED BY <1>0, <2>1, <2>2, <2>3 DEF WithToken
<1>4. EditsHaveTargets'
  <2>1. ASSUME NEW t \in SubIds, subs'[t] # None, subs'[t].status = "Pending" PROVE HasTarget(subs'[t])
    BY <1>0, <2>1 DEF EditsHaveTargets
  <2>2. ASSUME NEW e \in Clients PROVE HasTarget(req'[e].row)
    BY <1>1 DEF EditsHaveTargets
  <2> QED BY <2>1, <2>2 DEF EditsHaveTargets, HasTarget
<1>5. InitialStands'
  BY <1>0, QueueAssumption, InitAssumption DEF InitialStands
<1>6. CreditMatchesApprovals'
  <2>1. \A t \in SubIds : /\ subs'[t] # None /\ subs'[t].status = "Approved"
                              <=> subs[t] # None /\ subs[t].status = "Approved"
                          /\ subs[t] # None /\ subs[t].status = "Approved" => subs'[t] = subs[t]
    BY <1>0
  <2> DEFINE Approved(d) == {t \in SubIds : /\ subs[t] # None /\ subs[t] # InitSubs[t]
                                            /\ subs[t].status = "Approved"
                                            /\ subs[t].type = "Disc"
                                            /\ subs[t].target = d}
             Approved1(d) == {t \in SubIds : /\ subs'[t] # None /\ subs'[t] # InitSubs[t]
                                             /\ subs'[t].status = "Approved"
                                             /\ subs'[t].type = "Disc"
                                             /\ subs'[t].target = d}
  <2>2. \A d \in DiscIds : Approved1(d) = Approved(d)
    BY <2>1
  <2>3. \A d \in DiscIds : \A t \in Approved(d) : subs'[t].submitter = subs[t].submitter
    BY <2>1
  <2>4. \A d \in DiscIds : {subs'[t].submitter : t \in Approved1(d)} = {subs[t].submitter : t \in Approved(d)}
    <3> HIDE DEF Approved, Approved1
    <3> QED BY <2>2, <2>3
  <2> QED BY <2>4 DEF CreditMatchesApprovals
<1> QED BY <1>2, <1>3, <1>4, <1>5, <1>6 DEF InsertsAreNew

\* A token that a row has is free for that row.
LEMMA OwnToken ==
  ASSUME LedgerInv, NEW c \in Clients, NEW s \in SubIds, subs[s] # None
  PROVE  /\ WithToken(subs[s].token) \subseteq {s}
         /\ subs[s].token # None =>
               \A e \in Clients \ {c} : Inserting(e) => req[e].row.token # subs[s].token
<1>1. WithToken(subs[s].token) \subseteq {s}
  BY DEF LedgerInv, OneSubmissionPerToken, WithToken
<1>2. ASSUME subs[s].token # None, NEW e \in Clients, Inserting(e), req[e].row.token = subs[s].token PROVE FALSE
  <2>1. WithToken(subs[s].token) = {}
    BY <1>2 DEF LedgerInv, InsertsAreNew
  <2>2. s \in WithToken(subs[s].token)
    BY <1>2 DEF WithToken
  <2> QED BY <2>1, <2>2
<1> QED BY <1>1, <1>2

-----------------------------------------------------------------------------
(* Every action keeps the ledger. *)

LEMMA OpenReviewLedger ==
  ASSUME QueueInv, LedgerInv, NEW c \in Clients, NEW s \in SubIds, OpenReview(c, s)
  PROVE  LedgerInv'
<1> DEFINE base == TargetContent(discs, subs[s].target)
           r == [NoRequest EXCEPT !.sub = s, !.base = base,
                                  !.form = Apply(base, subs[s].changes)]
<1>1. Continue(c, "idle", "page", r)
  BY DEF OpenReview
<1>2. HasTarget(r.row) /\ ~r.created
  BY DEF NoRequest, HasTarget
<1> HIDE DEF r
<1> QED BY <1>1, <1>2, ContinueKeepsLedger DEF Locations

LEMMA LoadSubmissionLedger ==
  ASSUME QueueInv, LedgerInv, NEW c \in Clients, LoadSubmission(c)
  PROVE  LedgerInv'
<1> DEFINE row == subs[req[c].sub]
           r == [req[c] EXCEPT !.row = row]
<1>1. CASE Respond(c, "page")
  BY <1>1, RespondKeepsLedger
<1>2. CASE Continue(c, "page", "loaded", r) /\ row.status = "Pending"
  <2>1. pc[c] = "page" /\ req[c] \in Requests /\ ClientInv(c)
    BY DEF LoadSubmission, QueueInv, TypeOK
  <2>2. req[c].sub \in SubIds /\ subs[req[c].sub] # None /\ ~req[c].created
    BY <2>1 DEF ClientInv, Holds, RowStands, Requests, InTransaction
  <2>3. HasTarget(row)
    BY <1>2, <2>2 DEF LedgerInv, EditsHaveTargets
  <2>4. r.row = row /\ r.created = req[c].created
    BY <2>1 DEF Requests
  <2> HIDE DEF r, row
  <2> QED BY <1>2, <2>2, <2>3, <2>4, ContinueKeepsLedger DEF Locations
<1> QED BY <1>1, <1>2 DEF LoadSubmission

\* A handler that keeps its row.
LEMMA KeepsRowLedger ==
  ASSUME QueueInv, LedgerInv, NEW c \in Clients, NEW from \in Locations, NEW to \in Locations, NEW r,
         Continue(c, from, to, r), r.row = req[c].row, r.created = req[c].created
  PROVE  LedgerInv'
  BY ContinueKeepsLedger, HeldHasTarget

LEMMA CheckReviewLedger ==
  ASSUME QueueInv, LedgerInv, NEW c \in Clients, pc[c] = "loaded",
         NEW form \in Forms \cup {req[c].form}, CheckReview(c, form)
  PROVE  LedgerInv'
<1> DEFINE posted == [req[c] EXCEPT !.form = form]
<1>1. req[c] \in Requests
  BY DEF QueueInv, TypeOK
<1>2. posted.row = req[c].row /\ posted.created = req[c].created
  BY <1>1 DEF Requests
<1>3. \A m : [posted EXCEPT !.match = m].row = req[c].row
             /\ [posted EXCEPT !.match = m].created = req[c].created
  BY <1>1 DEF Requests
<1>4. \/ Respond(c, "loaded")
      \/ Continue(c, "loaded", "diff", posted)
      \/ \E m : Continue(c, "loaded", "rematch", [posted EXCEPT !.match = m])
  BY DEF CheckReview
<1>5. {"loaded", "diff", "rematch"} \subseteq Locations
  BY DEF Locations
<1> HIDE DEF posted
<1>6. CASE Continue(c, "loaded", "diff", posted)
  BY <1>2, <1>5, <1>6, KeepsRowLedger
<1>7. ASSUME NEW m, Continue(c, "loaded", "rematch", [posted EXCEPT !.match = m]) PROVE LedgerInv'
  BY <1>3, <1>5, <1>7, KeepsRowLedger
<1> QED BY <1>4, <1>6, <1>7, RespondKeepsLedger

LEMMA BuildReviewChangesLedger ==
  ASSUME QueueInv, LedgerInv, NEW c \in Clients, BuildReviewChanges(c)
  PROVE  LedgerInv'
<1> DEFINE old == TargetContent(discs, req[c].row.target)
           ch == IF req[c].row.type = "Disc" THEN DiscChanges(old, req[c].form)
                                             ELSE EditChanges(old, req[c].form)
           base == IF req[c].row.target = None THEN None ELSE req[c].base
           r == [req[c] EXCEPT !.changes = ch, !.form = None, !.base = base]
<1>1. Continue(c, "diff", "wait", r)
  BY DEF BuildReviewChanges
<1>2. req[c] \in Requests
  BY DEF QueueInv, TypeOK
<1>3. r.row = req[c].row /\ r.created = req[c].created
  <2> HIDE DEF ch, base
  <2> QED BY <1>2 DEF Requests
<1> HIDE DEF r
<1> QED BY <1>1, <1>3, KeepsRowLedger DEF Locations

LEMMA AddSubmitLedger ==
  ASSUME QueueInv, LedgerInv, NEW c \in Clients, NEW t \in Tokens, NEW form \in Forms,
         NEW who \in Users, AddSubmit(c, t, form, who)
  PROVE  LedgerInv'
<1>1. PICK d \in AddMatches(discs, form) :
          Continue(c, "idle",
              IF CanEditDirectly(UserOf[c]) /\ d = None THEN "precheck" ELSE "store",
              [NoRequest EXCEPT
                  !.row = NewRow("Disc", who, d, DiscChanges(Blank, form), t, form)])
  BY DEF AddSubmit
<1> DEFINE r == [NoRequest EXCEPT
                  !.row = NewRow("Disc", who, d, DiscChanges(Blank, form), t, form)]
           to == IF CanEditDirectly(UserOf[c]) /\ d = None THEN "precheck" ELSE "store"
<1>2. HasTarget(r.row) /\ ~r.created /\ to \in Locations /\ "idle" \in Locations
  BY DEF NoRequest, NewRow, HasTarget, Locations
<1>3. Continue(c, "idle", to, r)
  BY <1>1
<1> HIDE DEF r, to
<1> QED BY <1>2, <1>3, ContinueKeepsLedger

LEMMA AddSubmitDraftLedger ==
  ASSUME QueueInv, LedgerInv, NEW c \in Clients, NEW t \in Tokens, NEW form \in Forms,
         NEW s \in SubIds, AddSubmitDraft(c, s, t, form)
  PROVE  LedgerInv'
<1>1. PICK d \in AddMatches(discs, form) :
          Continue(c, "idle", "redraft",
              [NoRequest EXCEPT
                  !.sub = s,
                  !.row = NewRow("Disc", UserOf[c], d, DiscChanges(Blank, form), t, form)])
  BY DEF AddSubmitDraft
<1> DEFINE r == [NoRequest EXCEPT
                  !.sub = s,
                  !.row = NewRow("Disc", UserOf[c], d, DiscChanges(Blank, form), t, form)]
<1>2. HasTarget(r.row) /\ ~r.created /\ {"idle", "redraft"} \subseteq Locations
  BY DEF NoRequest, NewRow, HasTarget, Locations
<1>3. Continue(c, "idle", "redraft", r)
  BY <1>1
<1> HIDE DEF r
<1> QED BY <1>2, <1>3, ContinueKeepsLedger

LEMMA EditSubmitLedger ==
  ASSUME QueueInv, LedgerInv, NEW c \in Clients, NEW t \in Tokens, NEW form \in Forms,
         NEW d \in DiscIds, EditSubmit(c, t, form, d)
  PROVE  LedgerInv'
<1> DEFINE u == UserOf[c]
           kept == IF CanEditDirectly(u) THEN form
                   ELSE [form EXCEPT !["status"] = discs[d]["status"]]
           row == NewRow("Edit", u, d, EditChanges(discs[d], kept), t, kept)
           r == [NoRequest EXCEPT !.row = row]
           to == IF CanEditDirectly(u) THEN "precheck" ELSE "store"
<1>1. Continue(c, "idle", to, r)
  BY DEF EditSubmit
<1>2. HasTarget(row)
  <2> HIDE DEF kept, u
  <2> QED BY QueueAssumption DEF NewRow, HasTarget
<1> HIDE DEF row
<1>3. r.row = row /\ ~r.created /\ to \in Locations /\ "idle" \in Locations
  BY DEF NoRequest, Locations
<1> HIDE DEF r, to
<1> QED BY <1>1, <1>2, <1>3, ContinueKeepsLedger

LEMMA PrecheckLedger ==
  ASSUME QueueInv, LedgerInv, NEW c \in Clients, Precheck(c)
  PROVE  LedgerInv'
<1>1. Continue(c, "precheck", "wait", req[c]) \/ Respond(c, "precheck")
  BY DEF Precheck
<1> QED BY <1>1, RespondKeepsLedger, KeepsRowLedger DEF Locations

LEMMA RecheckLedger ==
  ASSUME QueueInv, LedgerInv, NEW c \in Clients, Recheck(c)
  PROVE  LedgerInv'
<1>1. Continue(c, "recheck", "resolve", req[c]) \/ Respond(c, "recheck")
  BY DEF Recheck
<1> QED BY <1>1, RespondKeepsLedger, KeepsRowLedger DEF Locations

LEMMA ResolveApprovalLedger ==
  ASSUME QueueInv, LedgerInv, NEW c \in Clients, ResolveApproval(c)
  PROVE  LedgerInv'
<1> DEFINE current == TargetContent(discs, req[c].row.target)
           kept == PreserveSubmittedStatus(req[c].row.type, req[c].row.changes,
                                           req[c].changes)
           ch == Resolve(req[c].row.type, current, kept)
           r == [req[c] EXCEPT !.current = current, !.changes = ch]
<1>1. Respond(c, "resolve") \/ Continue(c, "resolve", "conflicts", r)
  BY DEF ResolveApproval
<1>2. req[c] \in Requests
  BY DEF QueueInv, TypeOK
<1>3. r.row = req[c].row /\ r.created = req[c].created
  <2> HIDE DEF ch, current
  <2> QED BY <1>2 DEF Requests
<1> HIDE DEF r
<1> QED BY <1>1, <1>3, RespondKeepsLedger, KeepsRowLedger DEF Locations

LEMMA FindConflictsLedger ==
  ASSUME QueueInv, LedgerInv, NEW c \in Clients, FindConflicts(c)
  PROVE  LedgerInv'
<1>1. Continue(c, "conflicts", "claim", req[c]) \/ Respond(c, "conflicts")
  BY DEF FindConflicts
<1> QED BY <1>1, RespondKeepsLedger, KeepsRowLedger DEF Locations

LEMMA ClaimSubmissionLedger ==
  ASSUME QueueInv, LedgerInv, NEW c \in Clients, ClaimSubmission(c)
  PROVE  LedgerInv'
<1>1. Continue(c, "claim", "commit", req[c]) \/ Respond(c, "claim")
  BY DEF ClaimSubmission
<1> QED BY <1>1, RespondKeepsLedger, KeepsRowLedger DEF Locations

LEMMA AcquireLedger ==
  ASSUME QueueInv, LedgerInv, NEW c \in Clients, AcquireApprovalLock(c)
  PROVE  LedgerInv'
<1>1. /\ \A e \in Clients \ {c} : pc'[e] = pc[e] /\ req'[e] = req[e]
      /\ req'[c] = req[c] /\ pc[c] = "wait" /\ UNCHANGED <<subs, dumpers>>
  BY DEF AcquireApprovalLock, Goto, tables, QueueInv, TypeOK
<1>2. ~req[c].created
  BY <1>1 DEF QueueInv, TypeOK, ClientInv, Holds, InTransaction, Requests
<1>3. ~Inserting(c)'
  BY <1>1, <1>2 DEF Inserting
<1> QED BY <1>1, <1>3, HeldHasTarget, QuietStep

\* The insert finds no row of its token; another's committed row it takes over.
LEMMA InsertDirectLedger ==
  ASSUME QueueInv, LedgerInv, NEW c \in Clients, InsertDirect(c)
  PROVE  LedgerInv'
<1> DEFINE row == req[c].row
<1>0. /\ req[c] \in Requests /\ ClientInv(c) /\ pc[c] = "insert" /\ ~req[c].created
  BY DEF InsertDirect, QueueInv, TypeOK, ClientInv, Holds, Requests
<1>1. CASE Respond(c, "insert")
  BY <1>1, RespondKeepsLedger
<1>2. ASSUME NEW s \in WithToken(row.token), subs[s].status = "Pending",
             Continue(c, "insert", "recheck",
                 [req[c] EXCEPT !.sub = s, !.row = subs[s],
                                !.changes = subs[s].changes])
      PROVE  LedgerInv'
  <2> DEFINE r == [req[c] EXCEPT !.sub = s, !.row = subs[s], !.changes = subs[s].changes]
  <2>1. r.row = subs[s] /\ ~r.created
    BY <1>0 DEF Requests
  <2>2. HasTarget(subs[s])
    BY <1>2 DEF WithToken, LedgerInv, EditsHaveTargets
  <2>3. Continue(c, "insert", "recheck", r)
    BY <1>2
  <2> HIDE DEF r
  <2> QED BY <2>1, <2>2, <2>3, ContinueKeepsLedger DEF Locations
<1>3. ASSUME NEW s \in FreshIds, WithToken(row.token) = {},
             Continue(c, "insert", "recheck",
                 [req[c] EXCEPT !.sub = s, !.changes = row.changes, !.created = TRUE])
      PROVE  LedgerInv'
  <2> DEFINE r == [req[c] EXCEPT !.sub = s, !.changes = row.changes, !.created = TRUE]
  <2>1. r.row = row
    BY <1>0 DEF Requests
  <2>2. /\ req'[c] = r /\ UNCHANGED <<subs, dumpers>>
        /\ \A e \in Clients \ {c} : pc'[e] = pc[e] /\ req'[e] = req[e]
    BY <1>3 DEF Continue, Goto, tables, QueueInv, TypeOK
  <2> HIDE DEF r
  <2>3. OneSubmissionPerToken' /\ InitialStands' /\ CreditMatchesApprovals'
    BY <2>2 DEF LedgerInv, OneSubmissionPerToken, InitialStands, CreditMatchesApprovals
  <2>4. EditsHaveTargets'
    BY <2>1, <2>2 DEF LedgerInv, EditsHaveTargets, HasTarget
  <2>5. ASSUME NEW e \in Clients, Inserting(e)' PROVE WithToken(req[e].row.token)' = {}
    <3>1. CASE e = c
      BY <1>3, <2>1, <2>2, <3>1 DEF WithToken
    <3>2. CASE e # c
      <4>1. Inserting(e)
        BY <2>2, <2>5, <3>2 DEF Inserting
      <4> QED BY <2>2, <3>2, <4>1 DEF LedgerInv, InsertsAreNew, WithToken
    <3> QED BY <3>1, <3>2
  <2> QED BY <2>3, <2>4, <2>5 DEF LedgerInv, InsertsAreNew
<1> QED BY <1>1, <1>2, <1>3 DEF InsertDirect

\* A comment, a rejection, a return to Draft.
LEMMA UpdatePendingLedger ==
  ASSUME QueueInv, LedgerInv, NEW c \in Clients, pc[c] = "loaded",
         NEW status \in SubmissionStatuses \ {"Approved"},
         UpdatePending(c, [subs[req[c].sub] EXCEPT !.status = status,
                                                   !.reviewer = UserOf[c]])
  PROVE  LedgerInv'
<1> DEFINE s == req[c].sub
           row == [subs[s] EXCEPT !.status = status, !.reviewer = UserOf[c]]
<1>1. s \in SubIds /\ subs[s] # None /\ subs[s] \in Rows
  BY ReviewedExists DEF QueueInv, TypeOK
<1>2. /\ row \in Rows /\ row.status = status /\ row.type = subs[s].type
      /\ row.target = subs[s].target /\ row.token = subs[s].token
  BY <1>1, ClientAssumption DEF Rows
<1>3. Finish(c, "loaded") /\ UNCHANGED dumpers
  BY DEF UpdatePending
<1>4. CASE subs[s].status = "Pending"
  <2>1. subs' = [subs EXCEPT ![s] = row]
    BY <1>4 DEF UpdatePending
  <2>2. HasTarget(row)
    BY <1>1, <1>2, <1>4 DEF LedgerInv, EditsHaveTargets, HasTarget
  <2>3. /\ WithToken(row.token) \subseteq {s}
        /\ row.token # None => \A e \in Clients \ {c} : Inserting(e) => req[e].row.token # row.token
    BY <1>1, <1>2, OwnToken
  <2> HIDE DEF s, row
  <2> QED BY <1>1, <1>2, <1>3, <1>4, <2>1, <2>2, <2>3, RowStep
<1>5. CASE subs[s].status # "Pending"
  <2>1. UNCHANGED <<subs, dumpers>>
    BY <1>5 DEF UpdatePending
  <2> QED BY <1>3, <2>1, FinishLeavesNothing, QuietStep
<1> QED BY <1>4, <1>5

LEMMA SetTargetLedger ==
  ASSUME QueueInv, LedgerInv, NEW c \in Clients, NEW from, Finish(c, from), UNCHANGED dumpers,
         NEW s \in SubIds, subs[s] # None, NEW expected,
         NEW d \in DiscIds \cup {None}, SetTarget(s, expected, d)
  PROVE  LedgerInv'
<1> DEFINE row == [subs[s] EXCEPT !.target = d]
<1>1. subs[s] \in Rows
  BY DEF QueueInv, TypeOK
<1>2. /\ row \in Rows /\ row.status = subs[s].status /\ row.type = subs[s].type
      /\ row.token = subs[s].token
  BY <1>1 DEF Rows
<1>3. CASE /\ subs[s].status = "Pending" /\ subs[s].type = "Disc"
           /\ subs' = [subs EXCEPT ![s] = row]
  <2>1. HasTarget(row)
    BY <1>2, <1>3 DEF HasTarget
  <2>2. /\ WithToken(row.token) \subseteq {s}
        /\ row.token # None => \A e \in Clients \ {c} : Inserting(e) => req[e].row.token # row.token
    BY <1>2, OwnToken
  <2> HIDE DEF row
  <2> QED BY <1>2, <1>3, <2>1, <2>2, RowStep
<1>4. CASE subs' = subs
  BY <1>4, FinishLeavesNothing, QuietStep
<1>5. \/ /\ subs[s].status = "Pending" /\ subs[s].type = "Disc"
         /\ subs' = [subs EXCEPT ![s] = row]
      \/ subs' = subs
  BY <1>1 DEF SetTarget, QueueInv, TypeOK
<1> QED BY <1>3, <1>4, <1>5

LEMMA ManualRetargetLedger ==
  ASSUME QueueInv, LedgerInv, NEW c \in Clients, NEW d \in DiscIds \cup {None},
         ManualRetarget(c, d)
  PROVE  LedgerInv'
<1>1. pc[c] = "loaded" /\ Finish(c, "loaded") /\ UNCHANGED dumpers
  BY DEF ManualRetarget
<1>2. req[c].sub \in SubIds /\ subs[req[c].sub] # None
  BY <1>1, ReviewedExists
<1>3. SetTarget(req[c].sub, req[c].row.target, d) \/ UNCHANGED subs
  BY DEF ManualRetarget
<1> QED BY <1>1, <1>2, <1>3, SetTargetLedger, FinishLeavesNothing, QuietStep

LEMMA RetargetToMatchLedger ==
  ASSUME QueueInv, LedgerInv, NEW c \in Clients, pc[c] = "rematch", RetargetToMatch(c)
  PROVE  LedgerInv'
<1>1. Finish(c, "rematch") /\ UNCHANGED dumpers
  BY DEF RetargetToMatch
<1>2. /\ req[c].sub \in SubIds /\ subs[req[c].sub] # None
      /\ req[c].form \in Contents
  BY ReviewedExists
<1>3. PICK d \in ExactMatches(discs, req[c].form) : SetTarget(req[c].sub, None, d) \/ UNCHANGED subs
  BY DEF RetargetToMatch
<1>4. d \in DiscIds \cup {None}
  BY <1>2, MatchType DEF QueueInv, TypeOK, Catalogues, ActiveDiscs, Existing
<1> QED BY <1>1, <1>2, <1>3, <1>4, SetTargetLedger, FinishLeavesNothing, QuietStep

LEMMA StoreSubmissionLedger ==
  ASSUME QueueInv, LedgerInv, NEW c \in Clients, pc[c] = "store", StoreSubmission(c)
  PROVE  LedgerInv'
<1> DEFINE row == req[c].row
<1>1. row \in Rows /\ row.status = "Pending" /\ HasTarget(row)
  BY HeldHasTarget, QueueAssumption
  DEF QueueInv, TypeOK, Requests, ClientInv, Holds, NewRowStands
<1>2. Finish(c, "store") /\ UNCHANGED dumpers /\ ~TokenHeld(row.token)
  BY DEF StoreSubmission
<1>3. CASE UNCHANGED subs
  BY <1>2, <1>3, FinishLeavesNothing, QuietStep
<1>4. CASE WithToken(row.token) = {} /\ \E s \in FreshIds : subs' = [subs EXCEPT ![s] = row]
  <2>1. PICK s \in FreshIds : subs' = [subs EXCEPT ![s] = row]
    BY <1>4
  <2>2. s \in SubIds /\ subs[s] = None
    BY <2>1 DEF FreshIds
  <2>3. \A e \in Clients \ {c} : Inserting(e) => req[e].row.token # row.token
    BY <1>2 DEF TokenHeld
  <2> HIDE DEF row
  <2> QED BY <1>1, <1>2, <1>4, <2>1, <2>2, <2>3, RowStep
<1> QED BY <1>3, <1>4 DEF StoreSubmission

LEMMA SubmitDraftLedger ==
  ASSUME QueueInv, LedgerInv, NEW c \in Clients, pc[c] = "redraft", SubmitDraft(c)
  PROVE  LedgerInv'
<1> DEFINE s == req[c].sub
           row == [req[c].row EXCEPT !.reviewer = subs[s].reviewer]
<1>0. req[c] \in Requests /\ ClientInv(c)
  BY DEF QueueInv, TypeOK
<1>1. /\ s \in SubIds /\ subs[s] # None /\ subs[s] \in Rows /\ req[c].row \in Rows
      /\ req[c].row.status = "Pending" /\ req[c].row.type = "Disc"
      /\ ~req[c].created
  BY <1>0 DEF ClientInv, Holds, RowStands, NewRowStands, Requests, QueueInv, TypeOK,
              InTransaction
<1>2. /\ row \in Rows /\ row.status = "Pending" /\ row.type = "Disc"
      /\ row.token = req[c].row.token
  BY <1>1 DEF Rows
<1>3. Finish(c, "redraft") /\ UNCHANGED dumpers /\ ~TokenHeld(row.token)
  <2>1. Finish(c, "redraft") /\ UNCHANGED dumpers /\ ~TokenHeld(req[c].row.token)
    BY DEF SubmitDraft
  <2> HIDE DEF row
  <2> QED BY <1>2, <2>1
<1>4. CASE UNCHANGED subs
  BY <1>3, <1>4, FinishLeavesNothing, QuietStep
<1>5. CASE /\ subs[s].status = "Draft" /\ WithToken(req[c].row.token) \subseteq {s}
           /\ subs' = [subs EXCEPT ![s] = row]
  <2> HIDE DEF row, s
  <2>1. HasTarget(row)
    BY <1>2 DEF HasTarget
  <2>2. \A e \in Clients \ {c} : Inserting(e) => req[e].row.token # row.token
    BY <1>3 DEF TokenHeld
  <2>3. WithToken(row.token) \subseteq {s}
    BY <1>2, <1>5
  <2> QED BY <1>1, <1>2, <1>3, <1>5, <2>1, <2>2, <2>3, RowStep
<1> QED BY <1>4, <1>5 DEF SubmitDraft

-----------------------------------------------------------------------------
(* An approval: a new Approved row and its submitter's credit. *)

LEMMA CommitLedger ==
  ASSUME QueueInv, LedgerInv, NEW c \in Clients, pc[c] = "commit", Commit(c)
  PROVE  LedgerInv'
<1> DEFINE r == req[c]
           old == IF r.created THEN r.row ELSE subs[r.sub]
           target == r.row.target
<1>0. /\ r.sub \in SubIds /\ old \in Rows
      /\ ~r.created => subs[r.sub] # None /\ subs[r.sub].status = "Pending"
      /\ r.created => subs[r.sub] = None
      /\ old.type = r.row.type /\ old.submitter = r.row.submitter
      /\ r.row.type \in {"Disc", "Edit"}
      /\ target \in DiscIds \cup {None}
      /\ r.changes \in Changes
  BY CommitWrites DEF SubmissionTypes
<1>1. PICK d \in IF target = None THEN NextDiscId(discs) ELSE {target} :
          /\ dumpers' = [dumpers EXCEPT ![d] =
                             IF target = None \/ r.row.type = "Disc"
                             THEN @ \cup {r.row.submitter} ELSE @]
          /\ subs' = [subs EXCEPT ![r.sub] =
                          [old EXCEPT !.status = "Approved", !.target = d,
                                      !.changes = r.changes,
                                      !.reviewer = UserOf[c]]]
  BY DEF Commit
<1> DEFINE new == [old EXCEPT !.status = "Approved", !.target = d,
                              !.changes = r.changes, !.reviewer = UserOf[c]]
<1>2. d \in DiscIds
  BY <1>0 DEF NextDiscId
<1>3. /\ new # None /\ new.status = "Approved" /\ new.target = d
      /\ new.type = r.row.type /\ new.submitter = r.row.submitter
      /\ new.token = old.token
  <2>1. /\ new \in Rows /\ new.status = "Approved" /\ new.target = d
        /\ new.type = old.type /\ new.submitter = old.submitter
        /\ new.token = old.token
    <3>1. UserOf[c] \in Users /\ "Approved" \in SubmissionStatuses
      BY ClientAssumption DEF SubmissionStatuses
    <3> HIDE DEF old, r
    <3> QED BY <1>0, <1>2, <3>1 DEF Rows
  <2> HIDE DEF new, old
  <2> QED BY <1>0, <2>1, QueueAssumption
<1>4. subs' = [subs EXCEPT ![r.sub] = new]
  BY <1>1
<1>5. target = None => r.row.type = "Disc"
  <2>1. r.row # None
    BY DEF QueueInv, ClientInv, Holds
  <2> QED BY <1>0, <2>1, HeldHasTarget DEF HasTarget
<1>6. WithToken(old.token) \subseteq {r.sub}
  <2>1. CASE r.created
    <3>1. Inserting(c)
      BY <2>1 DEF Inserting, InTransaction
    <3> QED BY <2>1, <3>1 DEF LedgerInv, InsertsAreNew
  <2>2. CASE ~r.created
    BY <1>0, <2>2, OwnToken
  <2> QED BY <2>1, <2>2
<1>7. Finish(c, "commit")
  BY DEF Commit
<1> HIDE DEF new, old, r, target
<1> DEFINE x == r.sub
<1>8. /\ x \in SubIds /\ subs'[x] = new
      /\ \A s \in SubIds \ {x} : subs'[s] = subs[s]
  BY <1>0, <1>4 DEF QueueInv, TypeOK
<1>9. subs[x] = None \/ subs[x].status = "Pending"
  BY <1>0
<1>10. /\ \A e \in Clients \ {c} : pc'[e] = pc[e] /\ req'[e] = req[e]
       /\ HasTarget(req'[c].row) /\ ~Inserting(c)'
  BY <1>7, FinishLeavesNothing
<1>11. InsertsAreNew'
  <2>1. \A e \in Clients \ {c} : pc[e] \notin InTransaction
    BY DEF QueueInv, LockInv, InTransaction
  <2> QED BY <1>10, <2>1 DEF InsertsAreNew, Inserting
<1> HIDE DEF x
<1>12. OneSubmissionPerToken'
  <2>1. ASSUME NEW t \in SubIds, NEW u \in SubIds, subs'[t] # None, subs'[t].token # None,
               subs'[u] # None, subs'[u].token = subs'[t].token
        PROVE  t = u
    <3>1. CASE t # x /\ u # x
      BY <1>8, <2>1, <3>1 DEF LedgerInv, OneSubmissionPerToken
    <3>2. CASE t = x \/ u = x
      <4>1. WithToken(new.token) \subseteq {x}
        BY <1>3, <1>6 DEF x
      <4> QED BY <1>8, <2>1, <3>2, <4>1 DEF WithToken
    <3> QED BY <3>1, <3>2
  <2> QED BY <2>1 DEF OneSubmissionPerToken
<1>13. EditsHaveTargets'
  <2>1. ASSUME NEW t \in SubIds, subs'[t] # None, subs'[t].status = "Pending" PROVE HasTarget(subs'[t])
    BY <1>3, <1>8, <2>1 DEF LedgerInv, EditsHaveTargets
  <2>2. ASSUME NEW e \in Clients PROVE HasTarget(req'[e].row)
    BY <1>10 DEF LedgerInv, EditsHaveTargets
  <2> QED BY <2>1, <2>2 DEF EditsHaveTargets, HasTarget
<1>14. ~(InitSubs[x] # None /\ InitSubs[x].status = "Approved")
  BY <1>8, <1>9, QueueAssumption, InitAssumption DEF LedgerInv, InitialStands
<1>15. InitialStands'
  BY <1>8, <1>14 DEF LedgerInv, InitialStands
<1>16. CreditMatchesApprovals'
  <2> DEFINE Approved(e) == {t \in SubIds : /\ subs[t] # None /\ subs[t] # InitSubs[t]
                                            /\ subs[t].status = "Approved"
                                            /\ subs[t].type = "Disc"
                                            /\ subs[t].target = e}
             Approved1(e) == {t \in SubIds : /\ subs'[t] # None /\ subs'[t] # InitSubs[t]
                                             /\ subs'[t].status = "Approved"
                                             /\ subs'[t].type = "Disc"
                                             /\ subs'[t].target = e}
             Of(T) == {subs[t].submitter : t \in T}
             Of1(T) == {subs'[t].submitter : t \in T}
  <2>1. new # InitSubs[x]
    BY <1>3, <1>14
  <2>2. ASSUME NEW e \in DiscIds
        PROVE  Approved1(e) = Approved(e) \cup IF e = d /\ r.row.type = "Disc" THEN {x} ELSE {}
    <3>1. x \notin Approved(e)
      BY <1>9
    <3>2. x \in Approved1(e) <=> e = d /\ r.row.type = "Disc"
      BY <1>3, <1>8, <2>1
    <3>3. \A t \in SubIds \ {x} : t \in Approved1(e) <=> t \in Approved(e)
      BY <1>8
    <3>4. Approved1(e) \subseteq SubIds /\ Approved(e) \subseteq SubIds
      OBVIOUS
    <3> HIDE DEF Approved, Approved1
    <3> QED BY <1>8, <3>1, <3>2, <3>3, <3>4
  <2>3. ASSUME NEW e \in DiscIds
        PROVE  x \notin Approved(e) /\ \A t \in Approved(e) : subs'[t] = subs[t]
    BY <1>8, <1>9
  <2>4. subs'[x].submitter = r.row.submitter
    BY <1>3, <1>8
  <2>5. dumpers[d] = Of(Approved(d)) /\ \A e \in DiscIds : dumpers[e] = Of(Approved(e))
    BY <1>2 DEF LedgerInv, CreditMatchesApprovals
  <2>6. ASSUME NEW e \in DiscIds
        PROVE  Of1(Approved1(e)) = Of(Approved(e))
                  \cup IF e = d /\ r.row.type = "Disc" THEN {r.row.submitter} ELSE {}
    <3>1. Approved1(e) = Approved(e) \cup IF e = d /\ r.row.type = "Disc" THEN {x} ELSE {}
      BY <2>2
    <3>2. \A t \in Approved(e) : subs'[t] = subs[t]
      BY <2>3
    <3> HIDE DEF Approved, Approved1
    <3> QED BY <2>4, <3>1, <3>2
  <2>7. ASSUME NEW e \in DiscIds
        PROVE  dumpers'[e] = dumpers[e]
                  \cup IF e = d /\ r.row.type = "Disc" THEN {r.row.submitter} ELSE {}
    <3>1. dumpers \in [DiscIds -> SUBSET Users]
      BY DEF QueueInv, TypeOK
    <3>2. dumpers' = [dumpers EXCEPT ![d] =
                             IF r.row.type = "Disc"
                             THEN @ \cup {r.row.submitter} ELSE @]
      BY <1>1, <1>5 DEF target
    <3> QED BY <1>2, <3>1, <3>2
  <2>8. \A e \in DiscIds : dumpers'[e] = Of1(Approved1(e))
    <3> HIDE DEF Approved, Approved1, Of, Of1
    <3> QED BY <2>5, <2>6, <2>7
  <2> QED BY <2>8 DEF CreditMatchesApprovals
<1> QED BY <1>11, <1>12, <1>13, <1>15, <1>16 DEF LedgerInv

-----------------------------------------------------------------------------
(* The ledger. *)

LEMMA LedgerInit == Init => LedgerInv
<1> SUFFICES ASSUME Init PROVE LedgerInv
  OBVIOUS
<1> USE DEF Init
<1>1. OneSubmissionPerToken
  BY InitAssumption DEF OneSubmissionPerToken
<1>2. InsertsAreNew
  BY DEF InsertsAreNew, Inserting, InTransaction
<1>3. EditsHaveTargets
  BY InitAssumption DEF EditsHaveTargets, HasTarget, NoRequest
<1>4. InitialStands
  BY DEF InitialStands
<1>5. CreditMatchesApprovals
  BY DEF CreditMatchesApprovals
<1> QED BY <1>1, <1>2, <1>3, <1>4, <1>5 DEF LedgerInv

LEMMA DecideLedger ==
  ASSUME QueueInv, LedgerInv, NEW c \in Clients, Decide(c)
  PROVE  LedgerInv'
<1>0. pc[c] = "loaded"
  BY DEF Decide
<1>1. CASE CommentSubmission(c)
  <2> DEFINE row == subs[req[c].sub]
  <2>1. row \in Rows
    BY <1>0, ReviewedExists DEF QueueInv, TypeOK
  <2>2. CASE row.status # "Approved"
    <3>1. [row EXCEPT !.status = row.status, !.reviewer = UserOf[c]]
             = [row EXCEPT !.reviewer = UserOf[c]]
          /\ row.status \in SubmissionStatuses \ {"Approved"}
      BY <2>1, <2>2 DEF Rows
    <3>2. UpdatePending(c, [row EXCEPT !.status = row.status, !.reviewer = UserOf[c]])
      BY <1>1, <3>1 DEF CommentSubmission
    <3> QED BY <1>0, <3>1, <3>2, UpdatePendingLedger
  <2>3. CASE row.status = "Approved"
    <3>1. Finish(c, "loaded") /\ UNCHANGED <<subs, dumpers>>
      BY <1>1, <2>3 DEF CommentSubmission, UpdatePending
    <3> QED BY <3>1, FinishLeavesNothing, QuietStep
  <2> QED BY <2>2, <2>3
<1>2. CASE RejectSubmission(c)
  <2>1. "Rejected" \in SubmissionStatuses \ {"Approved"}
    BY DEF SubmissionStatuses
  <2>2. UpdatePending(c, [subs[req[c].sub] EXCEPT !.status = "Rejected",
                                                  !.reviewer = UserOf[c]])
    BY <1>2 DEF RejectSubmission
  <2> QED BY <1>0, <2>1, <2>2, UpdatePendingLedger
<1>3. CASE DraftSubmission(c)
  <2>1. "Draft" \in SubmissionStatuses \ {"Approved"}
    BY DEF SubmissionStatuses
  <2>2. UpdatePending(c, [subs[req[c].sub] EXCEPT !.status = "Draft",
                                                  !.reviewer = UserOf[c]])
    BY <1>3 DEF DraftSubmission
  <2> QED BY <1>0, <2>1, <2>2, UpdatePendingLedger
<1>4. CASE \E d \in DiscIds \cup {None} : ManualRetarget(c, d)
  BY <1>4, ManualRetargetLedger
<1>5. CASE \E form \in Forms \cup {req[c].form} : CheckReview(c, form)
  BY <1>0, <1>5, CheckReviewLedger
<1> QED BY <1>1, <1>2, <1>3, <1>4, <1>5 DEF Decide

LEMMA LedgerStep == QueueInv /\ LedgerInv /\ [Next]_vars => LedgerInv'
<1> SUFFICES ASSUME QueueInv, LedgerInv, [Next]_vars PROVE LedgerInv'
  OBVIOUS
<1>1. CASE UNCHANGED vars
  BY <1>1 DEF vars, LedgerInv, OneSubmissionPerToken, InsertsAreNew, Inserting, WithToken,
              EditsHaveTargets, HasTarget, InitialStands, CreditMatchesApprovals
<1>2. ASSUME NEW c \in Clients,
             \/ StartReview(c) \/ LoadSubmission(c) \/ StartSubmission(c)
             \/ Handle(c) \/ AcquireApprovalLock(c) \/ Abandon(c)
      PROVE  LedgerInv'
  <2>1. CASE StartReview(c)
    BY <2>1, OpenReviewLedger DEF StartReview
  <2>2. CASE LoadSubmission(c)
    BY <2>2, LoadSubmissionLedger
  <2>3. CASE StartSubmission(c)
    BY <2>3, AddSubmitLedger, AddSubmitDraftLedger, EditSubmitLedger DEF StartSubmission
  <2>4. CASE Handle(c)
    BY <2>4, DecideLedger, RetargetToMatchLedger, BuildReviewChangesLedger, PrecheckLedger,
       StoreSubmissionLedger, SubmitDraftLedger, InsertDirectLedger, RecheckLedger,
       ResolveApprovalLedger, FindConflictsLedger, ClaimSubmissionLedger, CommitLedger
    DEF Handle
  <2>5. CASE AcquireApprovalLock(c)
    BY <2>5, AcquireLedger
  <2>6. CASE Abandon(c)
    BY <2>6, RespondKeepsLedger DEF Abandon
  <2> QED BY <1>2, <2>1, <2>2, <2>3, <2>4, <2>5, <2>6
<1> QED BY <1>1, <1>2 DEF Next

\* The ledger of tokens, edits and credits holds in every state of every
\* behaviour (create_submission_on, submit_draft_submission, add_disc_dumper).
THEOREM LedgerInvariance == Spec => []LedgerInv
<1>1. QueueInv /\ LedgerInv /\ [Next]_vars => LedgerInv'
  BY LedgerStep
<1> QED BY <1>1, LedgerInit, Invariance, PTL DEF Spec

\* A form that is posted twice, or retried while its first POST is still in
\* its transaction, is one submission (the partial unique index on
\* submission_token and ON CONFLICT DO NOTHING of create_submission_on).
THEOREM OneSubmission == Spec => []OneSubmissionPerToken
<1>1. LedgerInv => OneSubmissionPerToken
  BY DEF LedgerInv
<1> QED BY <1>1, LedgerInvariance, PTL

\* The dumpers of a disc are exactly the submitters of what was approved onto
\* it (approve_submission_on credits in the transaction that claims the row).
THEOREM CreditsMatch == Spec => []CreditMatchesApprovals
<1>1. LedgerInv => CreditMatchesApprovals
  BY DEF LedgerInv
<1> QED BY <1>1, LedgerInvariance, PTL

-----------------------------------------------------------------------------
(* Who decides. *)

Deciding == {"loaded", "rematch", "diff", "precheck", "wait"} \cup InTransaction

\* The user may approve what the handler holds; what is not stored yet comes
\* from a form of theirs.
Entitled(c) ==
    LET r == req[c]
        u == UserOf[c]
    IN  pc[c] \in Deciding =>
            \/ CanModerate(u)
            \/ /\ CanEditDirectly(u)
               /\ r.row.submitter = u
               /\ OwnForm(u, r.row.token) \/ (r.row.type = "Disc" /\ r.row.target # None)
               /\ r.sub = None => OwnForm(u, r.row.token)

EntitledInv == \A c \in Clients : Entitled(c)

\* One handler's step is nothing to what the others may do.
LEMMA OthersStayEntitled ==
  ASSUME EntitledInv, NEW c \in Clients,
         \A e \in Clients \ {c} : pc'[e] = pc[e] /\ req'[e] = req[e],
         Entitled(c)'
  PROVE  EntitledInv'
<1>1. ASSUME NEW e \in Clients \ {c} PROVE Entitled(e)'
  BY DEF EntitledInv, Entitled
<1> QED BY <1>1 DEF EntitledInv

LEMMA FinishEntitled ==
  ASSUME QueueInv, EntitledInv, NEW c \in Clients, NEW from, Finish(c, from)
  PROVE  EntitledInv'
<1>1. pc'[c] = "idle" /\ \A e \in Clients \ {c} : pc'[e] = pc[e] /\ req'[e] = req[e]
  BY FinishLeavesNothing
<1>2. Entitled(c)'
  BY <1>1 DEF Entitled, Deciding, InTransaction
<1> QED BY <1>1, <1>2, OthersStayEntitled

LEMMA ContinueEntitled ==
  ASSUME QueueInv, EntitledInv, NEW c \in Clients, NEW from, NEW to \in Locations, NEW r,
         Continue(c, from, to, r),
         to \in Deciding =>
            \/ CanModerate(UserOf[c])
            \/ /\ CanEditDirectly(UserOf[c])
               /\ r.row.submitter = UserOf[c]
               /\ OwnForm(UserOf[c], r.row.token) \/ (r.row.type = "Disc" /\ r.row.target # None)
               /\ r.sub = None => OwnForm(UserOf[c], r.row.token)
  PROVE  EntitledInv'
<1>1. /\ pc'[c] = to /\ req'[c] = r
      /\ \A e \in Clients \ {c} : pc'[e] = pc[e] /\ req'[e] = req[e]
  BY DEF Continue, Goto, QueueInv, TypeOK
<1>2. Entitled(c)'
  BY <1>1 DEF Entitled
<1> QED BY <1>1, <1>2, OthersStayEntitled

\* A handler that goes on with its row, or answers.
LEMMA GoesOnEntitled ==
  ASSUME QueueInv, EntitledInv, NEW c \in Clients, NEW from \in Deciding, NEW to \in Locations,
         NEW r, Continue(c, from, to, r), r.row = req[c].row,
         r.sub = None => req[c].sub = None
  PROVE  EntitledInv'
<1>1. pc[c] = from
  BY DEF Continue, Goto
<1>2. Entitled(c)
  BY DEF EntitledInv
<1> QED BY <1>1, <1>2, ContinueEntitled DEF Entitled

LEMMA RespondEntitled ==
  ASSUME QueueInv, EntitledInv, NEW c \in Clients, NEW from, Respond(c, from) PROVE EntitledInv'
  BY FinishEntitled DEF Respond

LEMMA LoadSubmissionEntitled ==
  ASSUME QueueInv, EntitledInv, NEW c \in Clients, LoadSubmission(c) PROVE EntitledInv'
<1> DEFINE row == subs[req[c].sub]
           r == [req[c] EXCEPT !.row = row]
<1>1. CASE Respond(c, "page")
  BY <1>1, RespondEntitled
<1>2. CASE Continue(c, "page", "loaded", r) /\ CanReview(UserOf[c], row)
  <2>1. pc[c] = "page" /\ req[c] \in Requests /\ ClientInv(c)
    BY DEF LoadSubmission, QueueInv, TypeOK
  <2>2. r.row = row /\ r.sub = req[c].sub /\ r.sub # None
    BY <2>1 DEF Requests, ClientInv, Holds
  <2> HIDE DEF r, row
  <2> QED BY <1>2, <2>2, ContinueEntitled DEF Locations, CanReview
<1> QED BY <1>1, <1>2 DEF LoadSubmission

\* Opening a page and posting a form to be stored decide nothing; posting one
\* to be approved does, with a form of one's own.
LEMMA StartEntitled ==
  ASSUME QueueInv, EntitledInv, NEW c \in Clients, StartReview(c) \/ StartSubmission(c)
  PROVE  EntitledInv'
<1>1. ASSUME NEW to \in Locations \ Deciding, NEW r, Continue(c, "idle", to, r) PROVE EntitledInv'
  BY <1>1, ContinueEntitled
<1>2. {"page", "store", "redraft"} \subseteq Locations \ Deciding
  BY DEF Locations, Deciding, InTransaction
<1>3. ASSUME NEW s \in SubIds, OpenReview(c, s) PROVE EntitledInv'
  <2>1. PICK r : Continue(c, "idle", "page", r)
    BY <1>3 DEF OpenReview
  <2> QED BY <1>1, <1>2, <2>1
<1>4. ASSUME NEW t \in Tokens, NEW form \in Forms, NEW s \in SubIds, AddSubmitDraft(c, s, t, form)
      PROVE  EntitledInv'
  <2>1. PICK r : Continue(c, "idle", "redraft", r)
    BY <1>4 DEF AddSubmitDraft
  <2> QED BY <1>1, <1>2, <2>1
<1>5. ASSUME NEW t \in Tokens, NEW form, NEW who, NEW type, NEW target, NEW ch,
             PageOf[t].user = UserOf[c], PageOf[t].kind # "Draft",
             who = UserOf[c] \/ CanModerate(UserOf[c]), CanEditDirectly(UserOf[c]),
             Continue(c, "idle", "precheck",
                      [NoRequest EXCEPT !.row = NewRow(type, who, target, ch, t, form)])
      PROVE  EntitledInv'
  <2> DEFINE row == NewRow(type, who, target, ch, t, form)
             r == [NoRequest EXCEPT !.row = row]
  <2>1. OwnForm(UserOf[c], row.token) /\ row.submitter = who
    BY <1>5, QueueAssumption DEF NewRow, OwnForm
  <2> HIDE DEF row
  <2>2. r.row = row
    BY DEF NoRequest
  <2>3. Continue(c, "idle", "precheck", r) /\ "precheck" \in Locations
    BY <1>5 DEF row, Locations
  <2> HIDE DEF r
  <2> QED BY <1>5, <2>1, <2>2, <2>3, ContinueEntitled
<1>6. ASSUME NEW t \in Tokens, NEW form \in Forms, NEW who \in Users, AddSubmit(c, t, form, who)
      PROVE  EntitledInv'
  <2>1. PICK d \in AddMatches(discs, form) :
            Continue(c, "idle",
                IF CanEditDirectly(UserOf[c]) /\ d = None THEN "precheck" ELSE "store",
                [NoRequest EXCEPT
                    !.row = NewRow("Disc", who, d, DiscChanges(Blank, form), t, form)])
    BY <1>6 DEF AddSubmit
  <2> DEFINE ch == DiscChanges(Blank, form)
             r == [NoRequest EXCEPT !.row = NewRow("Disc", who, d, ch, t, form)]
  <2>2. /\ PageOf[t].user = UserOf[c] /\ PageOf[t].kind # "Draft"
        /\ who = UserOf[c] \/ CanModerate(UserOf[c])
    BY <1>6 DEF AddSubmit
  <2>3. \/ Continue(c, "idle", "store", r)
        \/ CanEditDirectly(UserOf[c]) /\ Continue(c, "idle", "precheck", r)
    BY <2>1
  <2> HIDE DEF ch
  <2> QED BY <1>1, <1>2, <1>5, <2>2, <2>3
<1>7. ASSUME NEW t \in Tokens, NEW form \in Forms, NEW d \in DiscIds, EditSubmit(c, t, form, d)
      PROVE  EntitledInv'
  <2> DEFINE u == UserOf[c]
             kept == IF CanEditDirectly(u) THEN form
                     ELSE [form EXCEPT !["status"] = discs[d]["status"]]
             ch == EditChanges(discs[d], kept)
             r == [NoRequest EXCEPT !.row = NewRow("Edit", u, d, ch, t, kept)]
  <2>1. PageOf[t].user = u /\ PageOf[t].kind # "Draft"
    BY <1>7 DEF EditSubmit
  <2>2. \/ Continue(c, "idle", "store", r)
        \/ CanEditDirectly(u) /\ Continue(c, "idle", "precheck", r)
    BY <1>7 DEF EditSubmit
  <2> HIDE DEF ch, kept
  <2> QED BY <1>1, <1>2, <1>5, <2>1, <2>2
<1> QED BY <1>3, <1>4, <1>6, <1>7 DEF StartReview, StartSubmission

\* A row found by the form's token is of the same user, and the form's.
LEMMA InsertDirectEntitled ==
  ASSUME QueueInv, EntitledInv, NEW c \in Clients, InsertDirect(c) PROVE EntitledInv'
<1> DEFINE row == req[c].row
<1>0. /\ req[c] \in Requests /\ ClientInv(c) /\ pc[c] = "insert" /\ Entitled(c)
      /\ {"insert", "recheck"} \subseteq Locations /\ "insert" \in Deciding
  BY DEF InsertDirect, QueueInv, TypeOK, EntitledInv, Locations, Deciding, InTransaction
<1>1. CASE Respond(c, "insert")
  BY <1>1, RespondEntitled
<1>2. \/ CanModerate(UserOf[c])
      \/ /\ CanEditDirectly(UserOf[c]) /\ row.submitter = UserOf[c]
         /\ OwnForm(UserOf[c], row.token)
  BY <1>0 DEF Entitled, ClientInv, Holds
<1>3. ASSUME NEW s \in WithToken(row.token), SameRequest(subs[s], row),
             Continue(c, "insert", "recheck",
                 [req[c] EXCEPT !.sub = s, !.row = subs[s],
                                !.changes = subs[s].changes])
      PROVE  EntitledInv'
  <2> DEFINE r == [req[c] EXCEPT !.sub = s, !.row = subs[s], !.changes = subs[s].changes]
  <2>1. r.row = subs[s] /\ subs[s].token = row.token /\ subs[s].submitter = row.submitter
    BY <1>0, <1>3 DEF Requests, WithToken, SameRequest
  <2>2. Continue(c, "insert", "recheck", r)
    BY <1>3
  <2> HIDE DEF r, row
  <2> QED BY <1>0, <1>2, <2>1, <2>2, ContinueEntitled
<1>4. ASSUME NEW s \in FreshIds,
             Continue(c, "insert", "recheck",
                 [req[c] EXCEPT !.sub = s, !.changes = row.changes, !.created = TRUE])
      PROVE  EntitledInv'
  <2> DEFINE r == [req[c] EXCEPT !.sub = s, !.changes = row.changes, !.created = TRUE]
  <2>1. r.row = row
    BY <1>0 DEF Requests
  <2>2. Continue(c, "insert", "recheck", r)
    BY <1>4
  <2> HIDE DEF r, row
  <2> QED BY <1>0, <1>2, <2>1, <2>2, ContinueEntitled
<1> QED BY <1>1, <1>3, <1>4 DEF InsertDirect

LEMMA AcquireEntitled ==
  ASSUME QueueInv, EntitledInv, NEW c \in Clients, AcquireApprovalLock(c) PROVE EntitledInv'
<1>1. /\ \A e \in Clients \ {c} : pc'[e] = pc[e] /\ req'[e] = req[e]
      /\ req'[c] = req[c] /\ pc[c] = "wait"
  BY DEF AcquireApprovalLock, Goto, QueueInv, TypeOK
<1>2. Entitled(c)'
  BY <1>1 DEF EntitledInv, Entitled, Deciding
<1> QED BY <1>1, <1>2, OthersStayEntitled

LEMMA CheckReviewEntitled ==
  ASSUME QueueInv, EntitledInv, NEW c \in Clients,
         NEW form \in Forms \cup {req[c].form}, CheckReview(c, form)
  PROVE  EntitledInv'
<1> DEFINE posted == [req[c] EXCEPT !.form = form]
<1>1. req[c] \in Requests
  BY DEF QueueInv, TypeOK
<1>2. posted.row = req[c].row /\ posted.sub = req[c].sub
  BY <1>1 DEF Requests
<1>3. \A m : [posted EXCEPT !.match = m].row = req[c].row
             /\ [posted EXCEPT !.match = m].sub = req[c].sub
  BY <1>1 DEF Requests
<1>4. \/ Respond(c, "loaded")
      \/ Continue(c, "loaded", "diff", posted)
      \/ \E m : Continue(c, "loaded", "rematch", [posted EXCEPT !.match = m])
  BY DEF CheckReview
<1>5. {"diff", "rematch"} \subseteq Locations /\ "loaded" \in Deciding
  BY DEF Locations, Deciding
<1> HIDE DEF posted
<1>6. CASE Continue(c, "loaded", "diff", posted)
  BY <1>2, <1>5, <1>6, GoesOnEntitled
<1>7. ASSUME NEW m, Continue(c, "loaded", "rematch", [posted EXCEPT !.match = m]) PROVE EntitledInv'
  BY <1>3, <1>5, <1>7, GoesOnEntitled
<1> QED BY <1>4, <1>6, <1>7, RespondEntitled

\* From the loaded row, or the form's, to the commit the handler holds one row.
LEMMA HandleEntitled ==
  ASSUME QueueInv, EntitledInv, NEW c \in Clients, Handle(c) PROVE EntitledInv'
<1>1. req[c] \in Requests
  BY DEF QueueInv, TypeOK
<1>2. /\ {"diff", "rematch", "wait", "resolve", "conflicts", "claim", "commit"} \subseteq Locations
      /\ {"loaded", "diff", "precheck", "recheck", "resolve", "conflicts", "claim"} \subseteq Deciding
  BY DEF Locations, Deciding, InTransaction
<1>3. ASSUME NEW from, Finish(c, from) PROVE EntitledInv'
  BY <1>3, FinishEntitled
<1>4. CASE Decide(c)
  <2>1. CASE \E form \in Forms \cup {req[c].form} : CheckReview(c, form)
    BY <2>1, CheckReviewEntitled
  <2>2. CASE \/ CommentSubmission(c) \/ RejectSubmission(c) \/ DraftSubmission(c)
             \/ \E d \in DiscIds \cup {None} : ManualRetarget(c, d)
    <3>1. Finish(c, "loaded")
      BY <2>2 DEF CommentSubmission, RejectSubmission, DraftSubmission, UpdatePending, ManualRetarget
    <3> QED BY <3>1, FinishEntitled
  <2> QED BY <1>4, <2>1, <2>2 DEF Decide
<1>5. CASE RetargetToMatch(c) \/ StoreSubmission(c) \/ SubmitDraft(c) \/ Commit(c)
  <2>1. PICK from : Finish(c, from)
    BY <1>5 DEF RetargetToMatch, StoreSubmission, SubmitDraft, Commit
  <2> QED BY <2>1, FinishEntitled
<1>6. CASE BuildReviewChanges(c)
  <2> DEFINE old == TargetContent(discs, req[c].row.target)
             ch == IF req[c].row.type = "Disc" THEN DiscChanges(old, req[c].form)
                                               ELSE EditChanges(old, req[c].form)
             base == IF req[c].row.target = None THEN None ELSE req[c].base
             r == [req[c] EXCEPT !.changes = ch, !.form = None, !.base = base]
  <2>1. Continue(c, "diff", "wait", r)
    BY <1>6 DEF BuildReviewChanges
  <2> HIDE DEF ch, base
  <2>2. r.row = req[c].row /\ r.sub = req[c].sub
    BY <1>1 DEF Requests
  <2> HIDE DEF r
  <2> QED BY <1>2, <2>1, <2>2, GoesOnEntitled
<1>7. CASE ResolveApproval(c)
  <2> DEFINE current == TargetContent(discs, req[c].row.target)
             ch == Resolve(req[c].row.type, current,
                           PreserveSubmittedStatus(req[c].row.type, req[c].row.changes,
                                                   req[c].changes))
             r == [req[c] EXCEPT !.current = current, !.changes = ch]
  <2>1. Respond(c, "resolve") \/ Continue(c, "resolve", "conflicts", r)
    BY <1>7 DEF ResolveApproval
  <2> HIDE DEF ch, current
  <2>2. r.row = req[c].row /\ r.sub = req[c].sub
    BY <1>1 DEF Requests
  <2> HIDE DEF r
  <2> QED BY <1>2, <2>1, <2>2, GoesOnEntitled, RespondEntitled
<1>8. CASE Precheck(c) \/ Recheck(c) \/ FindConflicts(c) \/ ClaimSubmission(c)
  <2>1. \/ \E from : Respond(c, from)
        \/ Continue(c, "precheck", "wait", req[c])
        \/ Continue(c, "recheck", "resolve", req[c])
        \/ Continue(c, "conflicts", "claim", req[c])
        \/ Continue(c, "claim", "commit", req[c])
    BY <1>8 DEF Precheck, Recheck, FindConflicts, ClaimSubmission
  <2> QED BY <1>2, <2>1, GoesOnEntitled, RespondEntitled
<1> QED BY <1>4, <1>5, <1>6, <1>7, <1>8, InsertDirectEntitled DEF Handle

LEMMA EntitledStep == QueueInv /\ EntitledInv /\ [Next]_vars => EntitledInv'
<1> SUFFICES ASSUME QueueInv, EntitledInv, [Next]_vars PROVE EntitledInv'
  OBVIOUS
<1>1. CASE UNCHANGED vars
  BY <1>1 DEF vars, EntitledInv, Entitled
<1>2. ASSUME NEW c \in Clients,
             \/ StartReview(c) \/ LoadSubmission(c) \/ StartSubmission(c)
             \/ Handle(c) \/ AcquireApprovalLock(c) \/ Abandon(c)
      PROVE  EntitledInv'
  BY <1>2, StartEntitled, LoadSubmissionEntitled, HandleEntitled, AcquireEntitled,
     RespondEntitled DEF Abandon
<1> QED BY <1>1, <1>2 DEF Next

\* Who approves a row (review_submit, create_and_approve_submission) may do so
\* when it is approved: the row still has the type, the submitter and the
\* target of the one the handler held when it decided.
THEOREM OnlyEntitledApprove == Spec => ApprovedByEntitled
<1> DEFINE Right(c) ==
        LET row == IF req[c].created THEN req[c].row ELSE subs[req[c].sub]
        IN  \/ CanModerate(UserOf[c])
            \/ /\ CanEditDirectly(UserOf[c])
               /\ row.submitter = UserOf[c]
               /\ \/ row.type = "Disc" /\ row.target # None
                  \/ OwnForm(UserOf[c], req[c].row.token)
<1>1. Init => EntitledInv
  BY DEF Init, EntitledInv, Entitled, Deciding, InTransaction
<1>2. ASSUME QueueInv, EntitledInv, NEW c \in Clients, Approves(c) PROVE Right(c)
  <2>1. pc[c] = "commit" /\ ClientInv(c) /\ Entitled(c) /\ "commit" \in Deciding
    BY <1>2 DEF Approves, QueueInv, EntitledInv, Deciding, InTransaction
  <2>2. CASE req[c].created
    BY <2>1, <2>2 DEF Entitled
  <2>3. CASE ~req[c].created
    <3>1. /\ subs[req[c].sub].type = req[c].row.type
          /\ subs[req[c].sub].submitter = req[c].row.submitter
          /\ subs[req[c].sub].target = req[c].row.target
      BY <2>1, <2>3 DEF ClientInv, Holds, RowStands, ApprovalStands
    <3> QED BY <2>1, <2>3, <3>1 DEF Entitled
  <2> QED BY <2>2, <2>3
<1>3. QueueInv /\ EntitledInv /\ [Next]_vars => [\A c \in Clients : Approves(c) => Right(c)]_vars
  BY <1>2
<1>4. Spec => []EntitledInv
  <2>1. QueueInv /\ EntitledInv /\ [Next]_vars => EntitledInv'
    BY EntitledStep
  <2> QED BY <1>1, <2>1, Invariance, PTL DEF Spec
<1> QED BY <1>3, <1>4, Invariance, PTL DEF Spec, ApprovedByEntitled
=============================================================================
