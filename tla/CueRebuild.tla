----------------------------- MODULE CueRebuild -----------------------------
(***************************************************************************)
(* The cue sheet of a disc and the file entry that holds its hash          *)
(* (services/disc_service.rs).  An approval writes both in its             *)
(* transaction; Rebuild CUE reads all discs in one query, computes, and    *)
(* writes cues, then entries, then deletions in chunks that each commit.   *)
(* Saving a region or a system changes what a cue should look like and     *)
(* rebuilds nothing.                                                       *)
(*                                                                         *)
(* A cue is a body and the base name its FILE lines carry, None for those  *)
(* a form was posted with; the hash of a cue is the cue.  Approvals come   *)
(* one at a time, by their advisory lock.                                  *)
(***************************************************************************)
EXTENDS Integers, FiniteSets

CONSTANTS
    Discs,         \* discs.id
    Bodies,        \* cue sheets, but for their FILE lines
    Titles,        \* what a disc itself contributes to its base name
    Regions,       \* what the lookup tables contribute to it
    Rebuilders,    \* requests that rebuild the cues
    ChunkSize,     \* CUE_REBUILD_WRITE_CHUNK_SIZE
    None,
    MaxEdits,      \* bound: approvals
    MaxSaves,      \* bound: saves of regions and systems
    MaxRebuilds    \* bound: rebuilds

Cues == [body : Bodies, name : (Titles \X Regions) \cup {None}]
Lookups == [region : Regions, cd : BOOLEAN]

ASSUME CueAssumption ==
    /\ Discs \subseteq Nat
    /\ ChunkSize \in Nat \ {0}
    /\ None \notin Discs \cup Bodies \cup Cues \cup Lookups \cup (Titles \X Regions)
    /\ {MaxEdits, MaxSaves, MaxRebuilds} \subseteq Nat

VARIABLES
    disc,          \* the discs table: title, on a CD or not, cue
    entry,         \* the cue entry in the files table
    lookup,        \* region name; does the system have CD media
    edit,          \* the approval under way
    rebuild,       \* each rebuild: where it is and what it has still to write
    counts,        \* approvals, saves and rebuilds so far
    approved,      \* history: the body last approved for each disc
    raced,         \* history: discs approved while a rebuild had them to write
    stale,         \* history: discs that only a rebuild brings up to date
    touched        \* history: what changed under each rebuild since it loaded

history == <<approved, raced, stale, touched>>
vars == <<disc, entry, lookup, edit, rebuild, counts, history>>

Rows == [title : Titles, cd : BOOLEAN, cue : Cues \cup {None}]
Edits == [stage : {"none", "written", "regenerated"}, disc : Discs \cup {None},
          row : Rows \cup {None}, entry : Cues \cup {None},
          lookup : Lookups \cup {None}, body : Bodies \cup {None}]
Rebuilds == [stage : {"idle", "cues", "files", "deletes"},
             cues : [Discs -> Cues \cup {None}], files : [Discs -> Cues \cup {None}],
             deletes : SUBSET Discs]

NoEdit == [stage |-> "none", disc |-> None, row |-> None, entry |-> None,
           lookup |-> None, body |-> None]
Nothing == [d \in Discs |-> None]
NoRebuild == [stage |-> "idle", cues |-> Nothing, files |-> Nothing, deletes |-> {}]

HasCue(row, lk) == row.cue # None /\ row.cd /\ lk.cd
Finalize(row, lk) == [row.cue EXCEPT !.name = <<row.title, lk.region>>]
BodyOf(c) == IF c = None THEN None ELSE c.body

\* The discs a rebuild has still something to write for.
Pending(r) ==
    {d \in Discs : \/ rebuild[r].cues[d] # None
                   \/ rebuild[r].files[d] # None
                   \/ d \in rebuild[r].deletes}
AllPending == UNION {Pending(r) : r \in Rebuilders}
Touch(S) == touched' = [r \in Rebuilders |-> touched[r] \cup S]

Init ==
    /\ disc \in [Discs -> {[title |-> t, cd |-> TRUE, cue |-> None] : t \in Titles}]
    /\ entry = Nothing
    /\ lookup \in [region : Regions, cd : {TRUE}]
    /\ edit = NoEdit
    /\ rebuild = [r \in Rebuilders |-> NoRebuild]
    /\ counts = [edits |-> 0, saves |-> 0, rebuilds |-> 0]
    /\ approved = Nothing
    /\ raced = {}
    /\ stale = {}
    /\ touched = [r \in Rebuilders |-> {}]

-----------------------------------------------------------------------------
(* An approval: update_disc, whose last step is regenerate_cue_entry. *)

\* UPDATE discs: the row is locked until the transaction ends.
WriteDisc(d, row) ==
    /\ edit.stage = "none"
    /\ counts.edits < MaxEdits
    /\ counts' = [counts EXCEPT !.edits = @ + 1]
    /\ edit' = [NoEdit EXCEPT !.stage = "written", !.disc = d, !.row = row,
                              !.body = BodyOf(row.cue)]
    /\ UNCHANGED <<disc, entry, lookup, rebuild, history>>

\* Mutant: the entry is regenerated through the pool, not in the transaction.
RegenerateOutside ==
    LET row == [edit.row EXCEPT !.cue = disc[edit.disc].cue]
        final == IF HasCue(row, lookup) THEN Finalize(row, lookup) ELSE row.cue
    IN  /\ edit.stage = "written"
        /\ edit' = [edit EXCEPT !.stage = "regenerated", !.row.cue = final,
                                !.entry = IF HasCue(row, lookup) THEN final ELSE None,
                                !.lookup = lookup]
        /\ UNCHANGED <<disc, entry, lookup, rebuild, counts, history>>

\* The names its FILE lines get come from the committed lookup tables.
RegenerateCueEntry ==
    LET row == edit.row
        final == IF HasCue(row, lookup) THEN Finalize(row, lookup) ELSE row.cue
    IN  /\ edit.stage = "written"
        /\ edit' = [edit EXCEPT !.stage = "regenerated", !.row.cue = final,
                                !.entry = IF HasCue(row, lookup) THEN final ELSE None,
                                !.lookup = lookup]
        /\ UNCHANGED <<disc, entry, lookup, rebuild, counts, history>>

CommitEdit ==
    LET d == edit.disc
    IN  /\ edit.stage = "regenerated"
        /\ disc' = [disc EXCEPT ![d] = edit.row]
        /\ entry' = [entry EXCEPT ![d] = edit.entry]
        /\ edit' = NoEdit
        /\ approved' = [approved EXCEPT ![d] = edit.body]
        /\ raced' = IF d \in AllPending THEN raced \cup {d} ELSE raced \ {d}
        /\ stale' = IF edit.lookup = lookup THEN stale \ {d} ELSE stale \cup {d}
        /\ Touch({d})
        /\ UNCHANGED <<lookup, rebuild, counts>>

\* An error or a stop of the server: the transaction is rolled back.
AbortEdit ==
    /\ edit.stage # "none"
    /\ edit' = NoEdit
    /\ UNCHANGED <<disc, entry, lookup, rebuild, counts, history>>

-----------------------------------------------------------------------------
(* save_validated_lookup_rows, save_validated_systems *)

SaveLookups(new) ==
    /\ new # lookup
    /\ counts.saves < MaxSaves
    /\ counts' = [counts EXCEPT !.saves = @ + 1]
    /\ lookup' = new
    /\ stale' = Discs
    /\ Touch(Discs)
    /\ UNCHANGED <<disc, entry, edit, rebuild, approved, raced>>

-----------------------------------------------------------------------------
(* regenerate_all_cue_entries *)

\* What the rebuild writes, from the one query it reads.
WithCue == {d \in Discs : disc[d].cue # None}
ToFinalize == {d \in WithCue : HasCue(disc[d], lookup)}
Final(d) == Finalize(disc[d], lookup)

PlannedCues == {d \in ToFinalize : disc[d].cue # Final(d)}

\* Mutant: an entry is written where the text of the cue is.
FilesOfPlannedCues == PlannedCues

PlannedFiles == {d \in ToFinalize : entry[d] # Final(d)}
PlannedDeletes == {d \in WithCue \ ToFinalize : entry[d] # None}
Planned == PlannedCues \cup PlannedFiles \cup PlannedDeletes

LoadCues(r) ==
    /\ rebuild[r].stage = "idle"
    /\ counts.rebuilds < MaxRebuilds
    /\ counts' = [counts EXCEPT !.rebuilds = @ + 1]
    /\ rebuild' = [rebuild EXCEPT ![r] =
          [stage |-> "cues",
           cues |-> [d \in Discs |-> IF d \in PlannedCues THEN Final(d) ELSE None],
           files |-> [d \in Discs |-> IF d \in PlannedFiles THEN Final(d) ELSE None],
           deletes |-> PlannedDeletes]]
    /\ touched' = [q \in Rebuilders |->
          IF q = r THEN AllPending ELSE touched[q] \cup Planned]
    /\ stale' = stale \cup (AllPending \cap Planned)
    /\ UNCHANGED <<disc, entry, lookup, edit, approved, raced>>

\* chunks(CUE_REBUILD_WRITE_CHUNK_SIZE) of discs in the order of their ids.
FirstChunk(S) == {d \in S : Cardinality({e \in S : e < d}) < ChunkSize}
ChunkOf(plan) == FirstChunk({d \in Discs : plan[d] # None})
Without(plan, S) == [d \in Discs |-> IF d \in S THEN None ELSE plan[d]]

\* UPDATE discs ... FROM UNNEST: waits for the row an approval has written.
UpdateCues(r) ==
    LET todo == ChunkOf(rebuild[r].cues)
    IN  /\ rebuild[r].stage = "cues"
        /\ todo # {}
        /\ edit.disc \notin todo
        /\ disc' = [d \in Discs |-> IF d \in todo
                       THEN [disc[d] EXCEPT !.cue = rebuild[r].cues[d]] ELSE disc[d]]
        /\ rebuild' = [rebuild EXCEPT ![r].cues = Without(@, todo)]
        /\ UNCHANGED <<entry, lookup, edit, counts, history>>

\* A row of files is locked once the approval has regenerated its entry.
EntryLocked(d) == edit.stage = "regenerated" /\ edit.disc = d

UpsertCueFiles(r) ==
    LET todo == ChunkOf(rebuild[r].files)
    IN  /\ rebuild[r].stage = "files"
        /\ todo # {}
        /\ \A d \in todo : ~EntryLocked(d)
        /\ entry' = [d \in Discs |-> IF d \in todo THEN rebuild[r].files[d] ELSE entry[d]]
        /\ rebuild' = [rebuild EXCEPT ![r].files = Without(@, todo)]
        /\ UNCHANGED <<disc, lookup, edit, counts, history>>

DeleteCueFiles(r) ==
    LET todo == FirstChunk(rebuild[r].deletes)
    IN  /\ rebuild[r].stage = "deletes"
        /\ todo # {}
        /\ \A d \in todo : ~EntryLocked(d)
        /\ entry' = [d \in Discs |-> IF d \in todo THEN None ELSE entry[d]]
        /\ rebuild' = [rebuild EXCEPT ![r].deletes = @ \ todo]
        /\ UNCHANGED <<disc, lookup, edit, counts, history>>

CuesWritten(r) ==
    /\ rebuild[r].stage = "cues"
    /\ rebuild[r].cues = Nothing
    /\ rebuild' = [rebuild EXCEPT ![r].stage = "files"]
    /\ UNCHANGED <<disc, entry, lookup, edit, counts, history>>

FilesWritten(r) ==
    /\ rebuild[r].stage = "files"
    /\ rebuild[r].files = Nothing
    /\ rebuild' = [rebuild EXCEPT ![r].stage = "deletes"]
    /\ UNCHANGED <<disc, entry, lookup, edit, counts, history>>

FinishRebuild(r) ==
    /\ rebuild[r].stage = "deletes"
    /\ rebuild[r].deletes = {}
    /\ rebuild' = [rebuild EXCEPT ![r] = NoRebuild]
    /\ stale' = stale \cap touched[r]
    /\ UNCHANGED <<disc, entry, lookup, edit, counts, approved, raced, touched>>

\* An error, a closed tab or a stop of the server: the chunks written stay.
RebuildFails(r) ==
    /\ rebuild[r].stage # "idle"
    /\ rebuild' = [rebuild EXCEPT ![r] = NoRebuild]
    /\ stale' = stale \cup Pending(r)
    /\ UNCHANGED <<disc, entry, lookup, edit, counts, approved, raced, touched>>

-----------------------------------------------------------------------------

\* What an approval leaves of the cue: the one there is, a posted one, none.
Approvable(d) ==
    [title : Titles, cd : BOOLEAN,
     cue : {disc[d].cue, None} \cup [body : Bodies, name : {None}]]

Next ==
    \/ \E d \in Discs : \E row \in Approvable(d) : WriteDisc(d, row)
    \/ RegenerateCueEntry
    \/ CommitEdit
    \/ AbortEdit
    \/ \E new \in Lookups : SaveLookups(new)
    \/ \E r \in Rebuilders :
        \/ LoadCues(r)
        \/ UpdateCues(r)
        \/ UpsertCueFiles(r)
        \/ DeleteCueFiles(r)
        \/ CuesWritten(r)
        \/ FilesWritten(r)
        \/ FinishRebuild(r)
        \/ RebuildFails(r)

Spec == Init /\ [][Next]_vars

-----------------------------------------------------------------------------
(* Properties. *)

\* An approval has a row while it runs, and an entry once it has regenerated it;
\* a rebuild has written all cues before it writes an entry, and all entries
\* before it deletes one.
InOrder ==
    /\ edit.stage = "none" <=> edit = NoEdit
    /\ edit.stage = "written" => edit.entry = None /\ edit.lookup = None
    /\ edit.stage # "none" => edit.disc \in Discs /\ edit.row \in Rows
    /\ \A r \in Rebuilders :
        /\ rebuild[r].stage = "idle" => rebuild[r] = NoRebuild
        /\ rebuild[r].stage \in {"files", "deletes"} => rebuild[r].cues = Nothing
        /\ rebuild[r].stage = "deletes" => rebuild[r].files = Nothing

\* The types of the tables, of the approval and of the rebuilds, and the order
\* in which an approval and a rebuild write.
TypeOK ==
    /\ disc \in [Discs -> Rows]
    /\ entry \in [Discs -> Cues \cup {None}]
    /\ lookup \in Lookups
    /\ edit \in Edits
    /\ rebuild \in [Rebuilders -> Rebuilds]
    /\ counts \in [edits : Nat, saves : Nat, rebuilds : Nat]
    /\ approved \in [Discs -> Bodies \cup {None}]
    /\ raced \subseteq Discs
    /\ stale \subseteq Discs
    /\ touched \in [Rebuilders -> SUBSET Discs]
    /\ InOrder

HashMatches(d) == HasCue(disc[d], lookup) => entry[d] = disc[d].cue

\* The cue has the names of its files and ent is its hash, or there is neither.
Matches(row, ent, lk) ==
    IF HasCue(row, lk) THEN row.cue = Finalize(row, lk) /\ ent = row.cue ELSE ent = None

UpToDate(d) == Matches(disc[d], entry[d], lookup)

\* A cue names the files of its disc and its entry holds its hash, unless a
\* rebuild has still to write it, or the tables that name it were saved, or a
\* rebuild failed or overlapped another one, and no later approval of the disc
\* or undisturbed rebuild has repaired it, or an approval raced a rebuild.
HashIsOfCue == \A d \in Discs : UpToDate(d) \/ d \in raced \cup stale \cup AllPending

\* A rebuild, whole or broken off, never changes what a cue says, unless it was
\* overtaken by an approval of that disc.
ApprovedCueStands == \A d \in Discs : BodyOf(disc[d].cue) = approved[d] \/ d \in raced

\* What disc d and its entry will be when r has written what it planned.
RowAfter(r, d) ==
    IF rebuild[r].cues[d] = None THEN disc[d] ELSE [disc[d] EXCEPT !.cue = rebuild[r].cues[d]]
EntryAfter(r, d) ==
    IF d \in rebuild[r].deletes THEN None
    ELSE IF rebuild[r].files[d] # None THEN rebuild[r].files[d] ELSE entry[d]

\* The approval under way has a row and an entry that belong together.
EditInv ==
    edit.stage # "none" =>
        /\ edit.body = BodyOf(edit.row.cue)
        /\ edit.stage = "regenerated" => /\ edit.lookup \in Lookups
                                        /\ Matches(edit.row, edit.entry, edit.lookup)

\* A rebuild under which nothing has changed a disc brings it up to date, and a
\* disc out of date is one it is about to write, or history says why.
PlanInv ==
    /\ \A r \in Rebuilders, d \in Discs :
        rebuild[r].stage # "idle" /\ d \notin touched[r]
            => /\ Matches(RowAfter(r, d), EntryAfter(r, d), lookup) \/ d \in raced
               /\ \A q \in Rebuilders \ {r} : d \notin Pending(q)
    /\ \A r \in Rebuilders : Pending(r) \cap touched[r] \subseteq raced \cup stale

\* A disc without a cue has no entry, and no rebuild will give it one.
OrphanInv ==
    \A d \in Discs :
        disc[d].cue = None => (entry[d] = None /\ d \notin AllPending) \/ d \in raced

\* What a rebuild has still to write has the body approved last.
BodyInv ==
    \A r \in Rebuilders, d \in Discs :
        rebuild[r].cues[d] # None => rebuild[r].cues[d].body = approved[d] \/ d \in raced

\* The inductive invariant: types and order, the approval, the rebuilds and the
\* two properties.
CueInv ==
    /\ TypeOK /\ EditInv /\ PlanInv /\ OrphanInv /\ BodyInv
    /\ HashIsOfCue /\ ApprovedCueStands

\* The maintenance page: Rebuild CUE updates CUE sheets and hashes; so when it
\* reports success the hashes it leaves are those of the cues.
RebuiltHashesMatch ==
    [][\A r \in Rebuilders : FinishRebuild(r) => \A d \in Discs : HashMatches(d)]_vars
=============================================================================
