-------------------------- MODULE CueRebuildProofs --------------------------
(***************************************************************************)
(* Proofs about CueRebuild.  CueInv is inductive: its parts are proved one *)
(* after the other for every action, and the two safety properties are     *)
(* parts of it.                                                            *)
(***************************************************************************)
EXTENDS CueRebuild, TLAPS

\* A rebuild writes a chunk or goes on to the next list.
WriteStep(r) ==
    \/ UpdateCues(r)
    \/ UpsertCueFiles(r)
    \/ DeleteCueFiles(r)
    \/ CuesWritten(r)
    \/ FilesWritten(r)

\* A rebuild ends.
EndStep(r) == FinishRebuild(r) \/ RebuildFails(r)

-----------------------------------------------------------------------------
(* Lemmas about the operators. *)

\* finalize_cue keeps what the cue says and makes a cue that it would not change.
LEMMA FinalizeFacts ==
    ASSUME NEW row \in Rows, NEW lk \in Lookups, row.cue # None
    PROVE  /\ Finalize(row, lk) \in Cues
           /\ Finalize(row, lk) # None
           /\ Finalize(row, lk).body = row.cue.body
           /\ Finalize([row EXCEPT !.cue = Finalize(row, lk)], lk) = Finalize(row, lk)
<1>1. row.cue \in Cues /\ row.title \in Titles /\ lk.region \in Regions
  BY DEF Rows, Lookups
<1>2. PICK b \in Bodies, n \in (Titles \X Regions) \cup {None} :
        row.cue = [body |-> b, name |-> n]
  BY <1>1 DEF Cues
<1>3. Finalize(row, lk) = [body |-> b, name |-> <<row.title, lk.region>>]
  BY <1>2 DEF Finalize
<1>4. Finalize(row, lk) \in Cues
  BY <1>1, <1>3 DEF Cues
<1>5. [row EXCEPT !.cue = Finalize(row, lk)].cue = Finalize(row, lk)
      /\ [row EXCEPT !.cue = Finalize(row, lk)].title = row.title
  BY DEF Rows
<1>6. Finalize([row EXCEPT !.cue = Finalize(row, lk)], lk) = Finalize(row, lk)
  BY <1>3, <1>5 DEF Finalize
<1> QED
  BY <1>2, <1>3, <1>4, <1>6, CueAssumption

\* A row with its finalized cue and the hash of it belong together.
LEMMA FinalMatches ==
    ASSUME NEW row \in Rows, NEW lk \in Lookups, HasCue(row, lk)
    PROVE  /\ [row EXCEPT !.cue = Finalize(row, lk)] \in Rows
           /\ Matches([row EXCEPT !.cue = Finalize(row, lk)], Finalize(row, lk), lk)
<1>1. row.cue # None
  BY DEF HasCue
<1>2. [row EXCEPT !.cue = Finalize(row, lk)] \in Rows
      /\ [row EXCEPT !.cue = Finalize(row, lk)].cue = Finalize(row, lk)
  BY <1>1, FinalizeFacts DEF Rows
<1> QED
  BY <1>1, <1>2, FinalizeFacts DEF Matches, HasCue, Rows

\* A chunk is part of what there is to write.
LEMMA ChunkIsPart ==
    /\ \A S : FirstChunk(S) \subseteq S
    /\ \A plan : ChunkOf(plan) \subseteq {d \in Discs : plan[d] # None}
BY DEF FirstChunk, ChunkOf

\* Without sets a plan to nothing where the chunk was and nowhere else.
LEMMA WithoutFacts ==
    ASSUME NEW plan \in [Discs -> Cues \cup {None}], NEW S
    PROVE  /\ Without(plan, S) \in [Discs -> Cues \cup {None}]
           /\ \A d \in Discs : Without(plan, S)[d] = IF d \in S THEN None ELSE plan[d]
BY DEF Without

-----------------------------------------------------------------------------
(* What the steps of a rebuild do. *)

\* Only rebuilds under way have something to write.
LEMMA IdleHasNothing ==
    ASSUME TypeOK, NEW r \in Rebuilders, rebuild[r].stage = "idle"
    PROVE  Pending(r) = {}
<1>1. rebuild[r] = NoRebuild
  BY DEF TypeOK, InOrder
<1> QED
  BY <1>1 DEF NoRebuild, Nothing, Pending

\* A step that writes brings disc and entry to what they would be when the
\* rebuild has ended, and touches only what it had to write.
LEMMA WriteFacts ==
    ASSUME TypeOK, NEW r \in Rebuilders, WriteStep(r)
    PROVE  /\ rebuild[r].stage # "idle"
           /\ \A q \in Rebuilders \ {r} : rebuild'[q] = rebuild[q]
           /\ \A d \in Discs : /\ RowAfter(r, d)' = RowAfter(r, d)
                             /\ EntryAfter(r, d)' = EntryAfter(r, d)
                             /\ rebuild'[r].cues[d] \in {None, rebuild[r].cues[d]}
           /\ Pending(r)' \subseteq Pending(r)
           /\ \A d \in Discs \ Pending(r) : disc'[d] = disc[d] /\ entry'[d] = entry[d]
           /\ \A d \in Discs :
                \/ disc'[d] = disc[d]
                \/ /\ rebuild[r].cues[d] # None
                   /\ disc'[d] = [disc[d] EXCEPT !.cue = rebuild[r].cues[d]]
           /\ TypeOK'
           /\ UNCHANGED <<lookup, edit, approved, raced, stale, touched>>
<1> USE DEF TypeOK
<1>0. rebuild[r] \in Rebuilds
  OBVIOUS
<1>1. CASE UpdateCues(r)
  <2> DEFINE todo == ChunkOf(rebuild[r].cues)
  <2>1. todo \subseteq {d \in Discs : rebuild[r].cues[d] # None}
    BY ChunkIsPart
  <2>2. /\ rebuild[r].stage = "cues"
        /\ disc' = [d \in Discs |-> IF d \in todo
               THEN [disc[d] EXCEPT !.cue = rebuild[r].cues[d]] ELSE disc[d]]
        /\ rebuild' = [rebuild EXCEPT ![r].cues = Without(@, todo)]
        /\ UNCHANGED <<entry, lookup, edit, counts, approved, raced, stale, touched>>
    BY <1>1 DEF UpdateCues, history
  <2> HIDE DEF todo
  <2>3. Without(rebuild[r].cues, todo) \in [Discs -> Cues \cup {None}]
        /\ \A d \in Discs : Without(rebuild[r].cues, todo)[d]
                = IF d \in todo THEN None ELSE rebuild[r].cues[d]
    BY <1>0, WithoutFacts DEF Rebuilds
  <2>4. /\ rebuild'[r] = [rebuild[r] EXCEPT !.cues = Without(rebuild[r].cues, todo)]
        /\ \A q \in Rebuilders \ {r} : rebuild'[q] = rebuild[q]
        /\ rebuild'[r] \in Rebuilds
        /\ rebuild'[r].stage = "cues"
        /\ rebuild'[r].files = rebuild[r].files
        /\ rebuild'[r].deletes = rebuild[r].deletes
        /\ \A d \in Discs : rebuild'[r].cues[d] = IF d \in todo THEN None ELSE rebuild[r].cues[d]
    BY <1>0, <2>2, <2>3 DEF Rebuilds
  <2>5. \A d \in Discs : disc'[d] = IF d \in todo
               THEN [disc[d] EXCEPT !.cue = rebuild[r].cues[d]] ELSE disc[d]
    BY <2>2
  <2>6. \A d \in Discs : d \in todo => rebuild[r].cues[d] \in Cues /\ rebuild[r].cues[d] # None
    BY <1>0, <2>1 DEF Rebuilds
  <2>7. \A d \in Discs : disc'[d] \in Rows
    BY <2>5, <2>6 DEF Rows
  <2>8. disc' \in [Discs -> Rows] /\ rebuild' \in [Rebuilders -> Rebuilds]
    BY <2>2, <2>4, <2>7
  <2>9. TypeOK'
    BY <2>2, <2>4, <2>8 DEF InOrder
  <2>10. \A d \in Discs : RowAfter(r, d)' = RowAfter(r, d)
    BY <2>4, <2>5, <2>6 DEF RowAfter
  <2>11. \A d \in Discs : EntryAfter(r, d)' = EntryAfter(r, d)
    BY <2>2, <2>4 DEF EntryAfter
  <2>12. Pending(r)' \subseteq Pending(r)
    BY <2>4 DEF Pending
  <2>13. todo \subseteq Pending(r)
    BY <2>1 DEF Pending
  <2> QED
    BY <2>2, <2>4, <2>5, <2>6, <2>9, <2>10, <2>11, <2>12, <2>13
<1>2. CASE UpsertCueFiles(r)
  <2> DEFINE todo == ChunkOf(rebuild[r].files)
  <2>1. todo \subseteq {d \in Discs : rebuild[r].files[d] # None}
    BY ChunkIsPart
  <2>2. /\ rebuild[r].stage = "files"
        /\ entry' = [d \in Discs |-> IF d \in todo THEN rebuild[r].files[d] ELSE entry[d]]
        /\ rebuild' = [rebuild EXCEPT ![r].files = Without(@, todo)]
        /\ UNCHANGED <<disc, lookup, edit, counts, approved, raced, stale, touched>>
    BY <1>2 DEF UpsertCueFiles, history
  <2> HIDE DEF todo
  <2>3. Without(rebuild[r].files, todo) \in [Discs -> Cues \cup {None}]
        /\ \A d \in Discs : Without(rebuild[r].files, todo)[d]
                = IF d \in todo THEN None ELSE rebuild[r].files[d]
    BY <1>0, WithoutFacts DEF Rebuilds
  <2>4. /\ rebuild'[r] = [rebuild[r] EXCEPT !.files = Without(rebuild[r].files, todo)]
        /\ \A q \in Rebuilders \ {r} : rebuild'[q] = rebuild[q]
        /\ rebuild'[r] \in Rebuilds
        /\ rebuild'[r].stage = "files"
        /\ rebuild'[r].cues = rebuild[r].cues
        /\ rebuild'[r].deletes = rebuild[r].deletes
        /\ \A d \in Discs : rebuild'[r].files[d] = IF d \in todo THEN None ELSE rebuild[r].files[d]
    BY <1>0, <2>2, <2>3 DEF Rebuilds
  <2>5. \A d \in Discs : entry'[d] = IF d \in todo THEN rebuild[r].files[d] ELSE entry[d]
    BY <2>2
  <2>6. \A d \in Discs : rebuild[r].files[d] \in Cues \cup {None}
    BY <1>0 DEF Rebuilds
  <2>7. entry' \in [Discs -> Cues \cup {None}] /\ rebuild' \in [Rebuilders -> Rebuilds]
    BY <2>2, <2>4, <2>6
  <2>8. TypeOK'
    BY <2>2, <2>4, <2>7 DEF InOrder
  <2>9. \A d \in Discs : RowAfter(r, d)' = RowAfter(r, d)
    BY <2>2, <2>4 DEF RowAfter
  <2>10. \A d \in Discs : EntryAfter(r, d)' = EntryAfter(r, d)
    BY <2>1, <2>4, <2>5 DEF EntryAfter
  <2>11. Pending(r)' \subseteq Pending(r)
    BY <2>4 DEF Pending
  <2>12. todo \subseteq Pending(r)
    BY <2>1 DEF Pending
  <2> QED
    BY <2>2, <2>4, <2>5, <2>8, <2>9, <2>10, <2>11, <2>12
<1>3. CASE DeleteCueFiles(r)
  <2> DEFINE todo == FirstChunk(rebuild[r].deletes)
  <2>1. todo \subseteq rebuild[r].deletes /\ rebuild[r].deletes \subseteq Discs
    BY <1>0, ChunkIsPart DEF Rebuilds
  <2>2. /\ rebuild[r].stage = "deletes"
        /\ entry' = [d \in Discs |-> IF d \in todo THEN None ELSE entry[d]]
        /\ rebuild' = [rebuild EXCEPT ![r].deletes = @ \ todo]
        /\ UNCHANGED <<disc, lookup, edit, counts, approved, raced, stale, touched>>
    BY <1>3 DEF DeleteCueFiles, history
  <2> HIDE DEF todo
  <2>3. /\ rebuild'[r] = [rebuild[r] EXCEPT !.deletes = rebuild[r].deletes \ todo]
        /\ \A q \in Rebuilders \ {r} : rebuild'[q] = rebuild[q]
        /\ rebuild'[r] \in Rebuilds
        /\ rebuild'[r].stage = "deletes"
        /\ rebuild'[r].cues = rebuild[r].cues
        /\ rebuild'[r].files = rebuild[r].files
        /\ rebuild'[r].deletes = rebuild[r].deletes \ todo
    BY <1>0, <2>1, <2>2 DEF Rebuilds
  <2>4. \A d \in Discs : entry'[d] = IF d \in todo THEN None ELSE entry[d]
    BY <2>2
  <2>5. entry' \in [Discs -> Cues \cup {None}] /\ rebuild' \in [Rebuilders -> Rebuilds]
    BY <2>2, <2>3
  <2>6. TypeOK'
    BY <2>2, <2>3, <2>5 DEF InOrder
  <2>7. \A d \in Discs : rebuild[r].files[d] = None
    BY <2>2 DEF InOrder, Nothing
  <2>8. \A d \in Discs : RowAfter(r, d)' = RowAfter(r, d)
    BY <2>2, <2>3 DEF RowAfter
  <2>9. \A d \in Discs : EntryAfter(r, d)' = EntryAfter(r, d)
    BY <2>1, <2>3, <2>4, <2>7 DEF EntryAfter
  <2>10. Pending(r)' \subseteq Pending(r)
    BY <2>3 DEF Pending
  <2>11. todo \subseteq Pending(r)
    BY <2>1 DEF Pending
  <2> QED
    BY <2>2, <2>3, <2>4, <2>6, <2>8, <2>9, <2>10, <2>11
<1>4. CASE CuesWritten(r) \/ FilesWritten(r)
  <2>1. /\ rebuild[r].stage \in {"cues", "files"}
        /\ UNCHANGED <<disc, entry, lookup, edit, counts, approved, raced, stale, touched>>
    BY <1>4 DEF CuesWritten, FilesWritten, history
  <2>2. PICK s \in {"files", "deletes"} :
            /\ rebuild' = [rebuild EXCEPT ![r].stage = s]
            /\ rebuild[r].cues = Nothing
            /\ s = "deletes" => rebuild[r].files = Nothing
    BY <1>4 DEF CuesWritten, FilesWritten, InOrder
  <2>3. /\ rebuild'[r] = [rebuild[r] EXCEPT !.stage = s]
        /\ \A q \in Rebuilders \ {r} : rebuild'[q] = rebuild[q]
        /\ rebuild'[r] \in Rebuilds
        /\ rebuild'[r].stage = s
        /\ rebuild'[r].cues = rebuild[r].cues
        /\ rebuild'[r].files = rebuild[r].files
        /\ rebuild'[r].deletes = rebuild[r].deletes
        /\ rebuild' \in [Rebuilders -> Rebuilds]
    BY <1>0, <2>2 DEF Rebuilds
  <2>4. TypeOK'
    BY <2>1, <2>2, <2>3 DEF InOrder
  <2> QED
    BY <2>1, <2>3, <2>4 DEF RowAfter, EntryAfter, Pending
<1> QED
  BY <1>1, <1>2, <1>3, <1>4 DEF WriteStep

\* A rebuild that ends has nothing to write any more.
LEMMA EndFacts ==
    ASSUME TypeOK, NEW r \in Rebuilders, EndStep(r)
    PROVE  /\ rebuild' = [rebuild EXCEPT ![r] = NoRebuild]
           /\ rebuild'[r] = NoRebuild
           /\ \A q \in Rebuilders \ {r} : rebuild'[q] = rebuild[q]
           /\ Pending(r)' = {}
           /\ rebuild[r].stage # "idle"
           /\ stale' \subseteq Discs
           /\ UNCHANGED <<disc, entry, lookup, edit, counts, approved, raced, touched>>
<1>1. rebuild \in [Rebuilders -> Rebuilds] /\ stale \subseteq Discs /\ touched \in [Rebuilders -> SUBSET Discs]
  BY DEF TypeOK
<1>2. /\ rebuild' = [rebuild EXCEPT ![r] = NoRebuild]
      /\ rebuild[r].stage # "idle"
      /\ stale' \subseteq Discs
      /\ UNCHANGED <<disc, entry, lookup, edit, counts, approved, raced, touched>>
  BY <1>1 DEF EndStep, FinishRebuild, RebuildFails, Pending
<1>3. rebuild'[r] = NoRebuild /\ \A q \in Rebuilders \ {r} : rebuild'[q] = rebuild[q]
  BY <1>1, <1>2
<1>4. Pending(r)' = {}
  BY <1>3 DEF Pending, NoRebuild, Nothing
<1> QED
  BY <1>2, <1>3, <1>4

\* A rebuild plans to bring every disc that has a cue up to date.
LEMMA LoadFacts ==
    ASSUME TypeOK, NEW r \in Rebuilders, LoadCues(r)
    PROVE  /\ rebuild[r].stage = "idle"
           /\ rebuild'[r].stage = "cues"
           /\ \A q \in Rebuilders \ {r} : rebuild'[q] = rebuild[q]
           /\ Pending(r)' = Planned
           /\ Planned \subseteq WithCue
           /\ \A d \in WithCue :
                Matches(RowAfter(r, d)', EntryAfter(r, d)', lookup)
           /\ \A d \in Discs \ WithCue :
                RowAfter(r, d)' = disc[d] /\ EntryAfter(r, d)' = entry[d]
           /\ \A d \in Discs : rebuild'[r].cues[d] # None
                => d \in WithCue /\ rebuild'[r].cues[d].body = disc[d].cue.body
           /\ touched' = [q \in Rebuilders |->
                IF q = r THEN AllPending ELSE touched[q] \cup Planned]
           /\ stale' = stale \cup (AllPending \cap Planned)
           /\ TypeOK'
           /\ UNCHANGED <<disc, entry, lookup, edit, approved, raced>>
<1> USE DEF TypeOK
<1>1. /\ rebuild[r].stage = "idle"
      /\ counts' = [counts EXCEPT !.rebuilds = @ + 1]
      /\ rebuild' = [rebuild EXCEPT ![r] =
            [stage |-> "cues",
             cues |-> [d \in Discs |-> IF d \in PlannedCues THEN Final(d) ELSE None],
             files |-> [d \in Discs |-> IF d \in PlannedFiles THEN Final(d) ELSE None],
             deletes |-> PlannedDeletes]]
      /\ touched' = [q \in Rebuilders |->
            IF q = r THEN AllPending ELSE touched[q] \cup Planned]
      /\ stale' = stale \cup (AllPending \cap Planned)
      /\ UNCHANGED <<disc, entry, lookup, edit, approved, raced>>
  BY DEF LoadCues
<1>2. /\ rebuild'[r].stage = "cues"
      /\ \A d \in Discs : /\ rebuild'[r].cues[d] = IF d \in PlannedCues THEN Final(d) ELSE None
                        /\ rebuild'[r].files[d] = IF d \in PlannedFiles THEN Final(d) ELSE None
      /\ rebuild'[r].deletes = PlannedDeletes
      /\ \A q \in Rebuilders \ {r} : rebuild'[q] = rebuild[q]
  BY <1>1
<1>3. /\ WithCue \subseteq Discs /\ ToFinalize \subseteq WithCue
      /\ PlannedCues \subseteq ToFinalize /\ PlannedFiles \subseteq ToFinalize
      /\ PlannedDeletes \subseteq WithCue \ ToFinalize
  BY DEF WithCue, ToFinalize, PlannedCues, PlannedFiles, PlannedDeletes
<1>4. ASSUME NEW d \in ToFinalize
      PROVE  /\ disc[d] \in Rows /\ disc[d].cue # None
             /\ Final(d) \in Cues /\ Final(d) # None
             /\ Final(d).body = disc[d].cue.body
             /\ [disc[d] EXCEPT !.cue = Final(d)] \in Rows
             /\ Matches([disc[d] EXCEPT !.cue = Final(d)], Final(d), lookup)
  <2>1. disc[d] \in Rows /\ disc[d].cue # None /\ lookup \in Lookups /\ HasCue(disc[d], lookup)
    BY <1>3 DEF ToFinalize, WithCue
  <2> QED
    BY <2>1, FinalizeFacts, FinalMatches DEF Final
<1>5. Planned \subseteq WithCue /\ Planned \subseteq Discs
  BY <1>3 DEF Planned
<1>6. Pending(r)' = Planned
  BY <1>2, <1>3, <1>4 DEF Pending, Planned
<1>7. ASSUME NEW d \in WithCue
      PROVE  Matches(RowAfter(r, d)', EntryAfter(r, d)', lookup)
  <2>1. CASE d \in ToFinalize
    <3>1. RowAfter(r, d)' = [disc[d] EXCEPT !.cue = Final(d)]
      <4>1. CASE d \in PlannedCues
        BY <1>1, <1>2, <1>3, <1>4, <2>1, <4>1 DEF RowAfter
      <4>2. CASE d \notin PlannedCues
        <5>1. disc[d].cue = Final(d)
          BY <2>1, <4>2 DEF PlannedCues
        <5>2. [disc[d] EXCEPT !.cue = Final(d)] = disc[d]
          BY <1>4, <2>1, <5>1 DEF Rows
        <5> QED
          BY <1>1, <1>2, <1>3, <4>2, <5>2 DEF RowAfter
      <4> QED
        BY <4>1, <4>2
    <3>2. EntryAfter(r, d)' = Final(d)
      <4>1. d \notin PlannedDeletes
        BY <1>3, <2>1
      <4>2. d \notin PlannedFiles => entry[d] = Final(d)
        BY <2>1 DEF PlannedFiles
      <4> QED
        BY <1>1, <1>2, <1>3, <1>4, <2>1, <4>1, <4>2 DEF EntryAfter
    <3> QED
      BY <1>4, <2>1, <3>1, <3>2
  <2>2. CASE d \notin ToFinalize
    <3>1. d \notin PlannedCues /\ d \notin PlannedFiles
      BY <1>3, <2>2
    <3>2. ~HasCue(disc[d], lookup)
      BY <2>2 DEF ToFinalize
    <3>3. RowAfter(r, d)' = disc[d]
      BY <1>1, <1>2, <1>3, <3>1 DEF RowAfter
    <3>4. EntryAfter(r, d)' = None
      <4>1. d \in PlannedDeletes \/ entry[d] = None
        BY <2>2 DEF PlannedDeletes
      <4> QED
        BY <1>1, <1>2, <1>3, <3>1, <4>1 DEF EntryAfter
    <3> QED
      BY <3>2, <3>3, <3>4 DEF Matches
  <2> QED
    BY <2>1, <2>2
<1>8. \A d \in Discs \ WithCue : RowAfter(r, d)' = disc[d] /\ EntryAfter(r, d)' = entry[d]
  BY <1>1, <1>2, <1>3 DEF RowAfter, EntryAfter
<1>9. \A d \in Discs : rebuild'[r].cues[d] # None
          => d \in WithCue /\ rebuild'[r].cues[d].body = disc[d].cue.body
  BY <1>2, <1>3, <1>4
<1>10. TypeOK'
  <2>1. rebuild' \in [Rebuilders -> Rebuilds]
    <3>1. [d \in Discs |-> IF d \in PlannedCues THEN Final(d) ELSE None] \in [Discs -> Cues \cup {None}]
      BY <1>3, <1>4
    <3>2. [d \in Discs |-> IF d \in PlannedFiles THEN Final(d) ELSE None] \in [Discs -> Cues \cup {None}]
      BY <1>3, <1>4
    <3>3. PlannedDeletes \in SUBSET Discs
      BY <1>3
    <3> QED
      BY <1>1, <3>1, <3>2, <3>3 DEF Rebuilds
  <2>2. counts' \in [edits : Nat, saves : Nat, rebuilds : Nat]
    BY <1>1
  <2>3. AllPending \subseteq Discs
    BY DEF AllPending, Pending
  <2>4. stale' \subseteq Discs /\ touched' \in [Rebuilders -> SUBSET Discs]
    BY <1>1, <1>5, <2>3
  <2>5. InOrder'
    BY <1>1, <1>2 DEF InOrder
  <2> QED
    BY <1>1, <2>1, <2>2, <2>4, <2>5
<1> QED
  BY <1>1, <1>2, <1>5, <1>6, <1>7, <1>8, <1>9, <1>10

-----------------------------------------------------------------------------
(* The invariant, by the kind of step. *)

LEMMA InitInv == Init => CueInv
<1> SUFFICES ASSUME Init PROVE CueInv
  OBVIOUS
<1>1. \A r \in Rebuilders : rebuild[r] = NoRebuild /\ Pending(r) = {}
  BY DEF Init, Pending, NoRebuild, Nothing
<1>2. AllPending = {}
  BY <1>1 DEF AllPending
<1>3. /\ \A d \in Discs : disc[d] \in Rows /\ disc[d].cue = None /\ entry[d] = None
      /\ disc \in [Discs -> Rows]
  <2>1. disc \in [Discs -> {[title |-> t, cd |-> TRUE, cue |-> None] : t \in Titles}]
    BY DEF Init
  <2>2. ASSUME NEW d \in Discs
        PROVE  disc[d] \in Rows /\ disc[d].cue = None
    <3>1. disc[d] \in {[title |-> t, cd |-> TRUE, cue |-> None] : t \in Titles}
      BY <2>1
    <3>2. PICK t \in Titles : disc[d] = [title |-> t, cd |-> TRUE, cue |-> None]
      BY <3>1
    <3> QED
      BY <3>2 DEF Rows
  <2>3. disc = [d \in Discs |-> disc[d]]
    BY <2>1
  <2> QED
    BY <2>2, <2>3 DEF Init, Nothing
<1>4. TypeOK
  <2>1. NoRebuild \in Rebuilds
    BY DEF NoRebuild, Rebuilds, Nothing
  <2>2. NoEdit \in Edits
    BY DEF NoEdit, Edits
  <2>3. disc \in [Discs -> Rows] /\ entry \in [Discs -> Cues \cup {None}]
    BY <1>3 DEF Init, Nothing
  <2>4. InOrder
    BY <1>1 DEF Init, InOrder, NoEdit, NoRebuild
  <2>5. lookup \in Lookups
    BY DEF Init, Lookups
  <2> QED
    BY <2>1, <2>2, <2>3, <2>4, <2>5 DEF Init, TypeOK, Nothing
<1>5. EditInv
  BY DEF Init, EditInv, NoEdit
<1>6. PlanInv
  BY <1>1 DEF PlanInv, NoRebuild
<1>7. OrphanInv
  BY <1>2, <1>3 DEF OrphanInv
<1>8. BodyInv
  BY <1>1 DEF BodyInv, NoRebuild, Nothing
<1>9. HashIsOfCue
  BY <1>3 DEF HashIsOfCue, UpToDate, Matches, HasCue
<1>10. ApprovedCueStands
  BY <1>3 DEF ApprovedCueStands, BodyOf, Init, Nothing
<1> QED
  BY <1>4, <1>5, <1>6, <1>7, <1>8, <1>9, <1>10 DEF CueInv

\* Steps of an approval before its commit change nothing that others see.
LEMMA QuietKeeps ==
    ASSUME CueInv,
           \/ \E d \in Discs : \E row \in Approvable(d) : WriteDisc(d, row)
           \/ RegenerateCueEntry
           \/ AbortEdit
           \/ UNCHANGED vars
    PROVE  CueInv'
<1>1. UNCHANGED <<disc, entry, lookup, rebuild, approved, raced, stale, touched>>
  BY DEF WriteDisc, RegenerateCueEntry, AbortEdit, vars, history
<1>2. PlanInv' /\ OrphanInv' /\ BodyInv' /\ HashIsOfCue' /\ ApprovedCueStands'
  <2>1. \A r \in Rebuilders : Pending(r)' = Pending(r)
    BY <1>1 DEF Pending
  <2>2. AllPending' = AllPending
    BY <2>1 DEF AllPending
  <2>3. PlanInv'
    BY <1>1, <2>1 DEF CueInv, PlanInv, RowAfter, EntryAfter
  <2> QED
    BY <1>1, <2>2, <2>3 DEF CueInv, OrphanInv, BodyInv, HashIsOfCue, UpToDate, ApprovedCueStands
<1>3. CASE UNCHANGED vars
  BY <1>2, <1>3 DEF vars, history, CueInv, TypeOK, InOrder, EditInv
<1>4. SUFFICES ASSUME edit' \in Edits,
                      counts' \in [edits : Nat, saves : Nat, rebuilds : Nat],
                      edit'.stage = "none" <=> edit' = NoEdit,
                      edit'.stage = "written" => edit'.entry = None /\ edit'.lookup = None,
                      edit'.stage # "none" => edit'.disc \in Discs /\ edit'.row \in Rows,
                      EditInv'
               PROVE  CueInv'
  <2>1. CASE \E d \in Discs : \E row \in Approvable(d) : WriteDisc(d, row)
    <3>0. PICK d \in Discs : \E row \in Approvable(d) : WriteDisc(d, row)
      BY <2>1
    <3>1. PICK row \in Approvable(d) : WriteDisc(d, row)
      BY <3>0
    <3>2. row \in Rows
      <4>1. disc[d].cue \in Cues \cup {None}
        BY DEF CueInv, TypeOK, Rows
      <4> QED
        BY <4>1 DEF Approvable, Cues, Rows
    <3>3. BodyOf(row.cue) \in Bodies \cup {None}
      BY <3>2 DEF BodyOf, Rows, Cues
    <3>4. edit' = [stage |-> "written", disc |-> d, row |-> row, entry |-> None,
                   lookup |-> None, body |-> BodyOf(row.cue)]
      BY <3>1 DEF WriteDisc, NoEdit
    <3>5. edit' \in Edits
      BY <3>2, <3>3, <3>4 DEF Edits
    <3>6. counts' \in [edits : Nat, saves : Nat, rebuilds : Nat]
      <4>1. counts \in [edits : Nat, saves : Nat, rebuilds : Nat]
        BY DEF CueInv, TypeOK
      <4>2. counts' = [counts EXCEPT !.edits = @ + 1]
        BY <3>1 DEF WriteDisc
      <4> QED
        BY <4>1, <4>2
    <3> QED
      BY <1>4, <3>2, <3>4, <3>5, <3>6 DEF EditInv, NoEdit
  <2>2. CASE RegenerateCueEntry
    <3> DEFINE final == IF HasCue(edit.row, lookup) THEN Finalize(edit.row, lookup) ELSE edit.row.cue
               ent == IF HasCue(edit.row, lookup) THEN final ELSE None
               row2 == [edit.row EXCEPT !.cue = final]
    <3>1. edit.stage = "written" /\ edit.row \in Rows /\ edit.disc \in Discs
          /\ lookup \in Lookups /\ edit \in Edits
      BY <2>2 DEF RegenerateCueEntry, CueInv, TypeOK, InOrder
    <3>2. /\ final \in Cues \cup {None} /\ ent \in Cues \cup {None}
          /\ row2 \in Rows /\ row2.cue = final
          /\ Matches(row2, ent, lookup)
          /\ BodyOf(final) = BodyOf(edit.row.cue)
      <4>1. CASE HasCue(edit.row, lookup)
        <5>1. edit.row.cue # None
          BY <4>1 DEF HasCue
        <5>2. final = Finalize(edit.row, lookup) /\ final \in Cues /\ final # None
              /\ final.body = edit.row.cue.body
          BY <3>1, <4>1, <5>1, FinalizeFacts
        <5>3. row2 \in Rows /\ Matches(row2, ent, lookup) /\ row2.cue = final
          BY <3>1, <4>1, <5>2, FinalMatches DEF Rows
        <5>4. BodyOf(final) = BodyOf(edit.row.cue)
          BY <5>1, <5>2 DEF BodyOf
        <5> QED
          BY <4>1, <5>2, <5>3, <5>4
      <4>2. CASE ~HasCue(edit.row, lookup)
        <5>1. row2 = edit.row
          BY <3>1, <4>2 DEF Rows
        <5> QED
          BY <3>1, <4>2, <5>1 DEF Rows, Matches
      <4> QED
        BY <4>1, <4>2
    <3>3. /\ edit'.stage = "regenerated" /\ edit'.row = row2 /\ edit'.entry = ent
          /\ edit'.lookup = lookup /\ edit'.disc = edit.disc /\ edit'.body = edit.body
          /\ edit' \in Edits
          /\ UNCHANGED counts
      <4>1. edit' = [edit EXCEPT !.stage = "regenerated", !.row.cue = final,
                                 !.entry = ent, !.lookup = lookup]
            /\ UNCHANGED counts
        BY <2>2 DEF RegenerateCueEntry
      <4>2. edit' = [edit EXCEPT !.stage = "regenerated", !.row = row2,
                                 !.entry = ent, !.lookup = lookup]
        BY <3>1, <4>1 DEF Edits
      <4> HIDE DEF final, ent, row2
      <4> QED
        BY <3>1, <3>2, <4>1, <4>2 DEF Edits
    <3>4. edit.body = BodyOf(edit.row.cue)
      BY <3>1 DEF CueInv, EditInv
    <3> HIDE DEF final, ent, row2
    <3>5. EditInv'
      BY <3>1, <3>2, <3>3, <3>4, <1>1 DEF EditInv
    <3>6. counts' \in [edits : Nat, saves : Nat, rebuilds : Nat]
      BY <3>3 DEF CueInv, TypeOK
    <3> QED
      BY <1>4, <3>1, <3>2, <3>3, <3>5, <3>6 DEF NoEdit
  <2>3. CASE AbortEdit
    <3>1. edit' = NoEdit /\ counts' = counts
      BY <2>3 DEF AbortEdit
    <3>2. edit' \in Edits
      BY <3>1 DEF NoEdit, Edits
    <3> QED
      BY <1>4, <3>1, <3>2 DEF NoEdit, EditInv, CueInv, TypeOK
  <2> QED
    BY <1>3, <2>1, <2>2, <2>3
<1>5. TypeOK'
  BY <1>1, <1>4 DEF CueInv, TypeOK, InOrder
<1> QED
  BY <1>2, <1>4, <1>5 DEF CueInv

\* A chunk written brings nearer what the plan says, and no other plan is for it.
LEMMA WriteKeeps ==
    ASSUME CueInv, NEW r \in Rebuilders, WriteStep(r)
    PROVE  CueInv'
<1>1. TypeOK
  BY DEF CueInv
<1>2. /\ rebuild[r].stage # "idle"
      /\ \A q \in Rebuilders \ {r} : rebuild'[q] = rebuild[q]
      /\ \A d \in Discs : /\ RowAfter(r, d)' = RowAfter(r, d)
                        /\ EntryAfter(r, d)' = EntryAfter(r, d)
                        /\ rebuild'[r].cues[d] \in {None, rebuild[r].cues[d]}
      /\ Pending(r)' \subseteq Pending(r)
      /\ \A d \in Discs \ Pending(r) : disc'[d] = disc[d] /\ entry'[d] = entry[d]
      /\ \A d \in Discs :
           \/ disc'[d] = disc[d]
           \/ /\ rebuild[r].cues[d] # None
              /\ disc'[d] = [disc[d] EXCEPT !.cue = rebuild[r].cues[d]]
      /\ TypeOK'
      /\ UNCHANGED <<lookup, edit, approved, raced, stale, touched>>
  BY <1>1, WriteFacts
<1>3. /\ \A q \in Rebuilders \ {r} : Pending(q)' = Pending(q)
      /\ AllPending' \subseteq AllPending
      /\ AllPending \subseteq AllPending' \cup Pending(r)
      /\ Pending(r) \subseteq AllPending
  <2>1. \A q \in Rebuilders \ {r} : Pending(q)' = Pending(q)
    BY <1>2 DEF Pending
  <2> QED
    BY <1>2, <2>1 DEF AllPending
<1>4. PlanInv'
  <2>1. ASSUME NEW q \in Rebuilders, NEW d \in Discs,
               rebuild'[q].stage # "idle", d \notin touched'[q]
        PROVE  /\ Matches(RowAfter(q, d)', EntryAfter(q, d)', lookup') \/ d \in raced'
               /\ \A p \in Rebuilders \ {q} : d \notin Pending(p)'
    <3>1. rebuild[q].stage # "idle" /\ d \notin touched[q]
      BY <1>2, <2>1
    <3>2. /\ Matches(RowAfter(q, d), EntryAfter(q, d), lookup) \/ d \in raced
          /\ \A p \in Rebuilders \ {q} : d \notin Pending(p)
      BY <3>1 DEF CueInv, PlanInv
    <3>3. RowAfter(q, d)' = RowAfter(q, d) /\ EntryAfter(q, d)' = EntryAfter(q, d)
      <4>1. CASE q = r
        BY <1>2, <4>1
      <4>2. CASE q # r
        <5>1. d \notin Pending(r)
          BY <3>2, <4>2
        <5> QED
          BY <1>2, <4>2, <5>1 DEF RowAfter, EntryAfter
      <4> QED
        BY <4>1, <4>2
    <3> QED
      BY <1>2, <1>3, <3>2, <3>3
  <2>2. \A q \in Rebuilders : Pending(q)' \subseteq Pending(q)
    BY <1>2, <1>3
  <2>3. \A q \in Rebuilders : (Pending(q) \cap touched[q])' \subseteq raced' \cup stale'
    BY <1>2, <2>2 DEF CueInv, PlanInv
  <2> QED
    BY <2>1, <2>3 DEF PlanInv
<1>5. EditInv'
  BY <1>2 DEF CueInv, EditInv
<1>6. ASSUME NEW d \in Discs, disc'[d].cue = None
      PROVE  (entry'[d] = None /\ d \notin AllPending') \/ d \in raced'
  <2>1. disc[d] \in Rows
    BY <1>1 DEF TypeOK
  <2>2. disc'[d] = disc[d]
    <3>1. CASE rebuild[r].cues[d] # None /\ disc'[d] = [disc[d] EXCEPT !.cue = rebuild[r].cues[d]]
      BY <1>6, <2>1, <3>1 DEF Rows
    <3> QED
      BY <1>2, <3>1
  <2>3. (entry[d] = None /\ d \notin AllPending) \/ d \in raced
    BY <1>6, <2>2 DEF CueInv, OrphanInv
  <2> QED
    BY <1>2, <1>3, <2>3
<1>7. BodyInv'
  <2>1. \A q \in Rebuilders, d \in Discs : rebuild'[q].cues[d] \in {None, rebuild[q].cues[d]}
    BY <1>2
  <2> QED
    BY <1>2, <2>1 DEF CueInv, BodyInv
<1>8. ASSUME NEW d \in Discs
      PROVE  UpToDate(d)' \/ d \in (raced \cup stale \cup AllPending)'
  <2>1. CASE d \in raced \cup stale
    BY <1>2, <2>1
  <2>2. CASE d \notin raced \cup stale /\ d \in Pending(r) /\ d \notin Pending(r)'
    <3>1. d \notin touched[r]
      BY <2>2 DEF CueInv, PlanInv
    <3>2. Matches(RowAfter(r, d), EntryAfter(r, d), lookup)
      BY <1>2, <2>2, <3>1 DEF CueInv, PlanInv
    <3>3. Matches(RowAfter(r, d)', EntryAfter(r, d)', lookup')
      BY <1>2, <3>2
    <3>4. RowAfter(r, d)' = disc'[d] /\ EntryAfter(r, d)' = entry'[d]
      BY <2>2 DEF Pending, RowAfter, EntryAfter
    <3> QED
      BY <3>3, <3>4 DEF UpToDate
  <2>3. CASE d \notin raced \cup stale /\ (d \notin Pending(r) \/ d \in Pending(r)')
    <3>1. CASE d \in Pending(r)'
      BY <3>1 DEF AllPending
    <3>2. CASE d \notin Pending(r)
      <4>1. UpToDate(d) \/ d \in AllPending
        BY <2>3 DEF CueInv, HashIsOfCue
      <4>2. UpToDate(d) => UpToDate(d)'
        BY <1>2, <3>2 DEF UpToDate
      <4> QED
        BY <1>3, <3>2, <4>1, <4>2
    <3> QED
      BY <2>3, <3>1, <3>2
  <2> QED
    BY <2>1, <2>2, <2>3
<1>9. ASSUME NEW d \in Discs
      PROVE  BodyOf(disc'[d].cue) = approved'[d] \/ d \in raced'
  <2>1. CASE disc'[d] = disc[d]
    BY <1>2, <2>1 DEF CueInv, ApprovedCueStands
  <2>2. CASE rebuild[r].cues[d] # None /\ disc'[d] = [disc[d] EXCEPT !.cue = rebuild[r].cues[d]]
    <3>1. disc[d] \in Rows
      BY <1>1 DEF TypeOK
    <3>2. BodyOf(disc'[d].cue) = rebuild[r].cues[d].body
      BY <2>2, <3>1 DEF BodyOf, Rows
    <3>3. rebuild[r].cues[d].body = approved[d] \/ d \in raced
      BY <2>2 DEF CueInv, BodyInv
    <3> QED
      BY <1>2, <3>2, <3>3
  <2> QED
    BY <1>2, <2>1, <2>2
<1> QED
  BY <1>2, <1>4, <1>5, <1>6, <1>7, <1>8, <1>9
  DEF CueInv, OrphanInv, HashIsOfCue, ApprovedCueStands

\* What a rebuild leaves that fails is stale; what it brought up to date is not.
LEMMA EndKeeps ==
    ASSUME CueInv, NEW r \in Rebuilders, EndStep(r)
    PROVE  CueInv'
<1>1. TypeOK
  BY DEF CueInv
<1>2. /\ rebuild' = [rebuild EXCEPT ![r] = NoRebuild]
      /\ rebuild'[r] = NoRebuild
      /\ \A q \in Rebuilders \ {r} : rebuild'[q] = rebuild[q]
      /\ Pending(r)' = {}
      /\ rebuild[r].stage # "idle"
      /\ stale' \subseteq Discs
      /\ UNCHANGED <<disc, entry, lookup, edit, counts, approved, raced, touched>>
  BY <1>1, EndFacts
<1>3. TypeOK'
  <2>1. NoRebuild \in Rebuilds
    BY DEF NoRebuild, Rebuilds, Nothing
  <2>2. rebuild' \in [Rebuilders -> Rebuilds]
    BY <1>1, <1>2, <2>1 DEF TypeOK
  <2>3. InOrder'
    <3>1. \A q \in Rebuilders :
            /\ rebuild'[q].stage = "idle" => rebuild'[q] = NoRebuild
            /\ rebuild'[q].stage \in {"files", "deletes"} => rebuild'[q].cues = Nothing
            /\ rebuild'[q].stage = "deletes" => rebuild'[q].files = Nothing
      BY <1>1, <1>2 DEF TypeOK, InOrder, NoRebuild
    <3> QED
      BY <1>1, <1>2, <3>1 DEF TypeOK, InOrder
  <2> QED
    BY <1>1, <1>2, <2>2, <2>3 DEF TypeOK
<1>4. /\ \A q \in Rebuilders \ {r} : Pending(q)' = Pending(q)
      /\ AllPending' \subseteq AllPending
      /\ AllPending \subseteq AllPending' \cup Pending(r)
  <2>1. \A q \in Rebuilders \ {r} : Pending(q)' = Pending(q)
    BY <1>2 DEF Pending
  <2> QED
    BY <1>2, <2>1 DEF AllPending
\* What leaves the stale ones: the discs nothing has touched, nobody else plans.
<1>5. \A d \in stale \ stale' :
        /\ d \in Discs
        /\ d \notin touched[r] /\ Pending(r) = {}
        /\ Matches(disc[d], entry[d], lookup) \/ d \in raced
        /\ d \notin AllPending
  <2>1. CASE FinishRebuild(r)
    <3>1. stale' = stale \cap touched[r]
      BY <2>1 DEF FinishRebuild
    <3>2. /\ rebuild[r].deletes = {} /\ rebuild[r].files = Nothing /\ rebuild[r].cues = Nothing
      BY <1>1, <2>1 DEF FinishRebuild, TypeOK, InOrder
    <3>3. Pending(r) = {}
      BY <3>2 DEF Pending, Nothing
    <3>4. \A d \in Discs : RowAfter(r, d) = disc[d] /\ EntryAfter(r, d) = entry[d]
      BY <3>2 DEF RowAfter, EntryAfter, Nothing
    <3>5. \A d \in Discs \ touched[r] :
            /\ Matches(disc[d], entry[d], lookup) \/ d \in raced
            /\ \A q \in Rebuilders \ {r} : d \notin Pending(q)
      BY <1>2, <3>4 DEF CueInv, PlanInv
    <3>6. stale \subseteq Discs
      BY <1>1 DEF TypeOK
    <3> QED
      BY <3>1, <3>3, <3>5, <3>6 DEF AllPending
  <2>2. CASE RebuildFails(r)
    BY <2>2 DEF RebuildFails
  <2> QED
    BY <2>1, <2>2 DEF EndStep
<1>6. Pending(r) \subseteq stale'
  <2>1. CASE FinishRebuild(r)
    <3>1. /\ rebuild[r].deletes = {} /\ rebuild[r].files = Nothing /\ rebuild[r].cues = Nothing
      BY <1>1, <2>1 DEF FinishRebuild, TypeOK, InOrder
    <3> QED
      BY <3>1 DEF Pending, Nothing
  <2>2. CASE RebuildFails(r)
    BY <2>2 DEF RebuildFails
  <2> QED
    BY <2>1, <2>2 DEF EndStep
<1>7. PlanInv'
  <2>1. ASSUME NEW q \in Rebuilders, NEW d \in Discs,
               rebuild'[q].stage # "idle", d \notin touched'[q]
        PROVE  /\ Matches(RowAfter(q, d)', EntryAfter(q, d)', lookup') \/ d \in raced'
               /\ \A p \in Rebuilders \ {q} : d \notin Pending(p)'
    <3>1. q # r /\ rebuild'[q] = rebuild[q]
      BY <1>2, <2>1 DEF NoRebuild
    <3>2. /\ Matches(RowAfter(q, d), EntryAfter(q, d), lookup) \/ d \in raced
          /\ \A p \in Rebuilders \ {q} : d \notin Pending(p)
      BY <1>2, <2>1, <3>1 DEF CueInv, PlanInv
    <3>3. RowAfter(q, d)' = RowAfter(q, d) /\ EntryAfter(q, d)' = EntryAfter(q, d)
      BY <1>2, <3>1 DEF RowAfter, EntryAfter
    <3> QED
      BY <1>2, <1>4, <3>2, <3>3
  <2>2. ASSUME NEW q \in Rebuilders, NEW d \in Pending(q)', d \in touched'[q]
        PROVE  d \in raced' \cup stale'
    <3>1. q # r /\ d \in Pending(q)
      BY <1>2, <1>4
    <3>2. d \in raced \cup stale
      BY <1>2, <2>2, <3>1 DEF CueInv, PlanInv
    <3>3. d \in AllPending
      BY <3>1 DEF AllPending
    <3> QED
      BY <1>2, <1>5, <3>2, <3>3
  <2> QED
    BY <2>1, <2>2 DEF PlanInv
<1>8. EditInv'
  BY <1>2 DEF CueInv, EditInv
<1>9. OrphanInv'
  BY <1>2, <1>4 DEF CueInv, OrphanInv
<1>10. BodyInv'
  <2>1. \A d \in Discs : rebuild'[r].cues[d] = None
    BY <1>2 DEF NoRebuild, Nothing
  <2> QED
    BY <1>2, <2>1 DEF CueInv, BodyInv
<1>11. HashIsOfCue'
  <2>1. ASSUME NEW d \in Discs
        PROVE  UpToDate(d)' \/ d \in (raced \cup stale \cup AllPending)'
    <3>1. UpToDate(d)' = UpToDate(d)
      BY <1>2 DEF UpToDate
    <3>2. UpToDate(d) \/ d \in raced \cup stale \cup AllPending
      BY DEF CueInv, HashIsOfCue
    <3>3. d \in AllPending => d \in AllPending' \cup stale'
      BY <1>4, <1>6
    <3>4. d \in stale => d \in stale' \/ UpToDate(d) \/ d \in raced
      BY <1>5 DEF UpToDate
    <3> QED
      BY <1>2, <3>1, <3>2, <3>3, <3>4
  <2> QED
    BY <2>1 DEF HashIsOfCue
<1>12. ApprovedCueStands'
  BY <1>2 DEF CueInv, ApprovedCueStands
<1> QED
  BY <1>3, <1>7, <1>8, <1>9, <1>10, <1>11, <1>12 DEF CueInv

\* What a rebuild plans while another one is writing is stale.
LEMMA LoadKeeps ==
    ASSUME CueInv, NEW r \in Rebuilders, LoadCues(r)
    PROVE  CueInv'
<1>1. TypeOK
  BY DEF CueInv
<1>2. /\ rebuild[r].stage = "idle"
      /\ rebuild'[r].stage = "cues"
      /\ \A q \in Rebuilders \ {r} : rebuild'[q] = rebuild[q]
      /\ Pending(r)' = Planned
      /\ Planned \subseteq WithCue
      /\ \A d \in WithCue : Matches(RowAfter(r, d)', EntryAfter(r, d)', lookup)
      /\ \A d \in Discs \ WithCue :
           RowAfter(r, d)' = disc[d] /\ EntryAfter(r, d)' = entry[d]
      /\ \A d \in Discs : rebuild'[r].cues[d] # None
           => d \in WithCue /\ rebuild'[r].cues[d].body = disc[d].cue.body
      /\ touched' = [q \in Rebuilders |->
           IF q = r THEN AllPending ELSE touched[q] \cup Planned]
      /\ stale' = stale \cup (AllPending \cap Planned)
      /\ TypeOK'
      /\ UNCHANGED <<disc, entry, lookup, edit, approved, raced>>
  BY <1>1, LoadFacts
<1>3. Pending(r) = {}
  BY <1>1, <1>2, IdleHasNothing
<1>4. /\ \A q \in Rebuilders \ {r} : Pending(q)' = Pending(q)
      /\ AllPending' = AllPending \cup Planned
      /\ \A q \in Rebuilders : Pending(q) \subseteq AllPending
  <2>1. \A q \in Rebuilders \ {r} : Pending(q)' = Pending(q)
    BY <1>2 DEF Pending
  <2> QED
    BY <1>2, <1>3, <2>1 DEF AllPending
<1>5. WithCue = {d \in Discs : disc[d].cue # None}
  BY DEF WithCue
<1>6. PlanInv'
  <2>1. ASSUME NEW d \in Discs, d \notin touched'[r]
        PROVE  /\ Matches(RowAfter(r, d)', EntryAfter(r, d)', lookup') \/ d \in raced'
               /\ \A p \in Rebuilders \ {r} : d \notin Pending(p)'
    <3>1. d \notin AllPending
      BY <1>2, <2>1
    <3>2. CASE d \in WithCue
      BY <1>2, <1>4, <3>1, <3>2
    <3>3. CASE d \notin WithCue
      <4>1. disc[d].cue = None
        BY <1>5, <3>3
      <4>2. entry[d] = None \/ d \in raced
        BY <4>1 DEF CueInv, OrphanInv
      <4>3. ~HasCue(disc[d], lookup)
        BY <4>1 DEF HasCue
      <4>4. Matches(disc[d], entry[d], lookup) \/ d \in raced
        BY <4>2, <4>3 DEF Matches
      <4> QED
        BY <1>2, <1>4, <3>1, <3>3, <4>4
    <3> QED
      BY <3>2, <3>3
  <2>2. ASSUME NEW q \in Rebuilders \ {r}, NEW d \in Discs,
               rebuild'[q].stage # "idle", d \notin touched'[q]
        PROVE  /\ Matches(RowAfter(q, d)', EntryAfter(q, d)', lookup') \/ d \in raced'
               /\ \A p \in Rebuilders \ {q} : d \notin Pending(p)'
    <3>1. rebuild[q].stage # "idle" /\ d \notin touched[q] /\ d \notin Planned
      BY <1>2, <2>2
    <3>2. /\ Matches(RowAfter(q, d), EntryAfter(q, d), lookup) \/ d \in raced
          /\ \A p \in Rebuilders \ {q} : d \notin Pending(p)
      BY <3>1 DEF CueInv, PlanInv
    <3>3. RowAfter(q, d)' = RowAfter(q, d) /\ EntryAfter(q, d)' = EntryAfter(q, d)
      BY <1>2 DEF RowAfter, EntryAfter
    <3> QED
      BY <1>2, <1>4, <3>1, <3>2, <3>3
  <2>3. (Pending(r) \cap touched[r])' \subseteq raced' \cup stale'
    BY <1>2
  <2>4. ASSUME NEW q \in Rebuilders \ {r}
        PROVE  (Pending(q) \cap touched[q])' \subseteq raced' \cup stale'
    <3>1. Pending(q)' = Pending(q) /\ touched'[q] = touched[q] \cup Planned
      BY <1>2, <1>4
    <3>2. Pending(q) \cap touched[q] \subseteq raced \cup stale
      BY DEF CueInv, PlanInv
    <3> QED
      BY <1>2, <1>4, <3>1, <3>2
  <2> QED
    BY <2>1, <2>2, <2>3, <2>4 DEF PlanInv
<1>7. EditInv'
  BY <1>2 DEF CueInv, EditInv
<1>8. OrphanInv'
  BY <1>2, <1>4, <1>5 DEF CueInv, OrphanInv
<1>9. BodyInv'
  <2>1. ASSUME NEW d \in Discs, rebuild'[r].cues[d] # None
        PROVE  rebuild'[r].cues[d].body = approved'[d] \/ d \in raced'
    <3>1. disc[d].cue # None /\ rebuild'[r].cues[d].body = disc[d].cue.body
      BY <1>2, <1>5, <2>1
    <3>2. BodyOf(disc[d].cue) = approved[d] \/ d \in raced
      BY DEF CueInv, ApprovedCueStands
    <3> QED
      BY <1>2, <3>1, <3>2 DEF BodyOf
  <2> QED
    BY <1>2, <2>1 DEF CueInv, BodyInv
<1>10. HashIsOfCue'
  BY <1>2, <1>4 DEF CueInv, HashIsOfCue, UpToDate
<1>11. ApprovedCueStands'
  BY <1>2 DEF CueInv, ApprovedCueStands
<1> QED
  BY <1>2, <1>6, <1>7, <1>8, <1>9, <1>10, <1>11 DEF CueInv

\* An approval of a disc that a rebuild has still to write is on record as such;
\* any other brings its disc up to date, by the lookup tables it has read.
LEMMA CommitKeeps ==
    ASSUME CueInv, CommitEdit
    PROVE  CueInv'
<1> DEFINE d == edit.disc
<1>1. TypeOK
  BY DEF CueInv
<1>2. /\ edit.stage = "regenerated" /\ edit \in Edits
      /\ d \in Discs /\ edit.row \in Rows
      /\ edit.body = BodyOf(edit.row.cue)
      /\ Matches(edit.row, edit.entry, edit.lookup)
      /\ edit.entry \in Cues \cup {None} /\ edit.body \in Bodies \cup {None}
  BY <1>1 DEF CommitEdit, CueInv, EditInv, TypeOK, InOrder, Edits
<1>3. /\ disc' = [disc EXCEPT ![d] = edit.row]
      /\ entry' = [entry EXCEPT ![d] = edit.entry]
      /\ edit' = NoEdit
      /\ approved' = [approved EXCEPT ![d] = edit.body]
      /\ raced' = IF d \in AllPending THEN raced \cup {d} ELSE raced \ {d}
      /\ stale' = IF edit.lookup = lookup THEN stale \ {d} ELSE stale \cup {d}
      /\ touched' = [r \in Rebuilders |-> touched[r] \cup {d}]
      /\ UNCHANGED <<lookup, rebuild, counts>>
  BY DEF CommitEdit, Touch
<1> HIDE DEF d
<1>4. disc'[d] = edit.row /\ entry'[d] = edit.entry /\ approved'[d] = edit.body
  BY <1>1, <1>2, <1>3 DEF TypeOK
<1>4a. ASSUME NEW c \in Discs, c # d
       PROVE  /\ disc'[c] = disc[c] /\ entry'[c] = entry[c]
              /\ approved'[c] = approved[c]
              /\ c \in raced => c \in raced'
              /\ c \in stale => c \in stale'
  <2>1. disc'[c] = disc[c] /\ entry'[c] = entry[c] /\ approved'[c] = approved[c]
    BY <1>1, <1>3, <1>4a DEF TypeOK
  <2>2. (c \in raced => c \in raced') /\ (c \in stale => c \in stale')
    BY <1>3, <1>4a
  <2> QED
    BY <2>1, <2>2
<1>5. /\ \A r \in Rebuilders : Pending(r)' = Pending(r)
      /\ AllPending' = AllPending
      /\ \A r \in Rebuilders : Pending(r) \subseteq AllPending
      /\ AllPending \subseteq Discs
  <2>1. \A r \in Rebuilders : Pending(r)' = Pending(r)
    BY <1>3 DEF Pending
  <2> QED
    BY <2>1 DEF AllPending, Pending
<1>6. d \in AllPending => d \in raced'
  BY <1>3
<1>7. TypeOK'
  <2>1. NoEdit \in Edits
    BY DEF NoEdit, Edits
  <2>2. disc' \in [Discs -> Rows] /\ entry' \in [Discs -> Cues \cup {None}]
        /\ approved' \in [Discs -> Bodies \cup {None}]
    BY <1>1, <1>2, <1>3 DEF TypeOK
  <2>3. raced' \subseteq Discs /\ stale' \subseteq Discs /\ touched' \in [Rebuilders -> SUBSET Discs]
    BY <1>1, <1>2, <1>3 DEF TypeOK
  <2>4. InOrder'
    BY <1>1, <1>3 DEF TypeOK, InOrder, NoEdit
  <2> QED
    BY <1>1, <1>3, <2>1, <2>2, <2>3, <2>4 DEF TypeOK
<1>8. EditInv'
  BY <1>3 DEF EditInv, NoEdit
<1>9. PlanInv'
  <2>1. ASSUME NEW q \in Rebuilders, NEW c \in Discs,
               rebuild'[q].stage # "idle", c \notin touched'[q]
        PROVE  /\ Matches(RowAfter(q, c)', EntryAfter(q, c)', lookup') \/ c \in raced'
               /\ \A p \in Rebuilders \ {q} : c \notin Pending(p)'
    <3>1. c # d /\ c \notin touched[q] /\ rebuild[q].stage # "idle"
      BY <1>3, <2>1
    <3>2. /\ Matches(RowAfter(q, c), EntryAfter(q, c), lookup) \/ c \in raced
          /\ \A p \in Rebuilders \ {q} : c \notin Pending(p)
      BY <3>1 DEF CueInv, PlanInv
    <3>3. RowAfter(q, c)' = RowAfter(q, c) /\ EntryAfter(q, c)' = EntryAfter(q, c)
      BY <1>3, <1>4, <1>4a, <3>1 DEF RowAfter, EntryAfter
    <3> QED
      BY <1>3, <1>4, <1>4a, <1>5, <3>1, <3>2, <3>3
  <2>2. ASSUME NEW q \in Rebuilders, NEW c \in Pending(q)', c \in touched'[q]
        PROVE  c \in raced' \cup stale'
    <3>1. c \in Pending(q) /\ c \in AllPending /\ c \in Discs
      BY <1>5
    <3>2. CASE c = d
      BY <1>6, <3>1, <3>2
    <3>3. CASE c # d
      <4>1. c \in touched[q]
        BY <1>3, <2>2, <3>3
      <4>2. c \in raced \cup stale
        BY <3>1, <4>1 DEF CueInv, PlanInv
      <4> QED
        BY <1>4, <1>4a, <3>1, <3>3, <4>2
    <3> QED
      BY <3>2, <3>3
  <2> QED
    BY <2>1, <2>2 DEF PlanInv
<1>10. OrphanInv'
  <2>1. ASSUME NEW c \in Discs, disc'[c].cue = None
        PROVE  (entry'[c] = None /\ c \notin AllPending') \/ c \in raced'
    <3>1. CASE c = d
      <4>1. ~HasCue(edit.row, edit.lookup)
        BY <1>4, <1>4a, <2>1, <3>1 DEF HasCue
      <4>2. entry'[c] = None
        BY <1>2, <1>4, <1>4a, <3>1, <4>1 DEF Matches
      <4> QED
        BY <1>5, <1>6, <3>1, <4>2
    <3>2. CASE c # d
      BY <1>4, <1>4a, <1>5, <2>1, <3>2 DEF CueInv, OrphanInv
    <3> QED
      BY <3>1, <3>2
  <2> QED
    BY <2>1 DEF OrphanInv
<1>11. BodyInv'
  <2>1. ASSUME NEW q \in Rebuilders, NEW c \in Discs, rebuild'[q].cues[c] # None
        PROVE  rebuild'[q].cues[c].body = approved'[c] \/ c \in raced'
    <3>1. rebuild[q].cues[c] # None /\ c \in AllPending
      BY <1>3, <1>5, <2>1 DEF Pending
    <3>2. CASE c = d
      BY <1>6, <3>1, <3>2
    <3>3. CASE c # d
      BY <1>3, <1>4, <1>4a, <3>1, <3>3 DEF CueInv, BodyInv
    <3> QED
      BY <3>2, <3>3
  <2> QED
    BY <2>1 DEF BodyInv
<1>12. HashIsOfCue'
  <2>1. ASSUME NEW c \in Discs
        PROVE  UpToDate(c)' \/ c \in (raced \cup stale \cup AllPending)'
    <3>1. CASE c = d
      <4>1. edit.lookup = lookup => UpToDate(c)'
        BY <1>2, <1>3, <1>4, <1>4a, <3>1 DEF UpToDate
      <4>2. edit.lookup # lookup => c \in stale'
        BY <1>3, <3>1
      <4> QED
        BY <4>1, <4>2
    <3>2. CASE c # d
      <4>1. UpToDate(c)' <=> UpToDate(c)
        BY <1>3, <1>4, <1>4a, <3>2 DEF UpToDate
      <4> QED
        BY <1>4, <1>4a, <1>5, <3>2, <4>1 DEF CueInv, HashIsOfCue
    <3> QED
      BY <3>1, <3>2
  <2> QED
    BY <2>1 DEF HashIsOfCue
<1>13. ApprovedCueStands'
  <2>1. ASSUME NEW c \in Discs
        PROVE  BodyOf(disc'[c].cue) = approved'[c] \/ c \in raced'
    <3>1. CASE c = d
      BY <1>2, <1>4, <1>4a, <3>1
    <3>2. CASE c # d
      BY <1>4, <1>4a, <3>2 DEF CueInv, ApprovedCueStands
    <3> QED
      BY <3>1, <3>2
  <2> QED
    BY <2>1 DEF ApprovedCueStands
<1> QED
  BY <1>7, <1>8, <1>9, <1>10, <1>11, <1>12, <1>13 DEF CueInv

\* Saving a lookup table makes every disc stale, also to the rebuilds under way.
LEMMA SaveKeeps ==
    ASSUME CueInv, NEW new \in Lookups, SaveLookups(new)
    PROVE  CueInv'
<1>1. TypeOK
  BY DEF CueInv
<1>2. /\ lookup' = new /\ stale' = Discs
      /\ counts' = [counts EXCEPT !.saves = @ + 1]
      /\ touched' = [r \in Rebuilders |-> touched[r] \cup Discs]
      /\ UNCHANGED <<disc, entry, edit, rebuild, approved, raced>>
  BY DEF SaveLookups, Touch
<1>3. /\ \A r \in Rebuilders : Pending(r)' = Pending(r) /\ Pending(r) \subseteq Discs
      /\ AllPending' = AllPending
  <2>1. \A r \in Rebuilders : Pending(r)' = Pending(r) /\ Pending(r) \subseteq Discs
    BY <1>2 DEF Pending
  <2> QED
    BY <2>1 DEF AllPending
<1>4. TypeOK'
  <2>1. counts' \in [edits : Nat, saves : Nat, rebuilds : Nat]
    <3>1. counts \in [edits : Nat, saves : Nat, rebuilds : Nat]
      BY <1>1 DEF TypeOK
    <3> QED
      BY <1>2, <3>1
  <2>2. touched' \in [Rebuilders -> SUBSET Discs]
    BY <1>1, <1>2 DEF TypeOK
  <2>3. InOrder'
    BY <1>1, <1>2 DEF TypeOK, InOrder
  <2> QED
    BY <1>1, <1>2, <2>1, <2>2, <2>3 DEF TypeOK
<1>5. EditInv'
  BY <1>2 DEF CueInv, EditInv
<1>6. PlanInv'
  BY <1>2, <1>3 DEF PlanInv
<1>7. OrphanInv' /\ BodyInv' /\ ApprovedCueStands'
  BY <1>2, <1>3 DEF CueInv, OrphanInv, BodyInv, ApprovedCueStands
<1>8. HashIsOfCue'
  BY <1>2 DEF HashIsOfCue
<1> QED
  BY <1>4, <1>5, <1>6, <1>7, <1>8 DEF CueInv

-----------------------------------------------------------------------------
(* Theorems. *)

\* CueInv holds for any number of discs, rebuilds at a time, approvals, saves and
\* for any size of the chunks in which regenerate_all_cue_entries writes.
THEOREM CueInvariance == Spec => []CueInv
<1>1. CueInv /\ [Next]_vars => CueInv'
  <2> SUFFICES ASSUME CueInv, [Next]_vars PROVE CueInv'
    OBVIOUS
  <2>1. CASE \/ \E d \in Discs : \E row \in Approvable(d) : WriteDisc(d, row)
             \/ RegenerateCueEntry
             \/ AbortEdit
             \/ UNCHANGED vars
    BY <2>1, QuietKeeps
  <2>2. CASE CommitEdit
    BY <2>2, CommitKeeps
  <2>3. CASE \E new \in Lookups : SaveLookups(new)
    BY <2>3, SaveKeeps
  <2>4. ASSUME NEW r \in Rebuilders, LoadCues(r) \/ WriteStep(r) \/ EndStep(r)
        PROVE  CueInv'
    BY <2>4, LoadKeeps, WriteKeeps, EndKeeps
  <2> QED
    BY <2>1, <2>2, <2>3, <2>4 DEF Next, WriteStep, EndStep
<1> QED
  BY InitInv, <1>1, PTL DEF Spec

\* An entry holds the hash of its cue, but for the windows the code leaves open:
\* rebuilds that fail, overlap or are overtaken, and tables saved since.
THEOREM HashStaysOfCue == Spec => []HashIsOfCue
<1>1. CueInv => HashIsOfCue
  BY DEF CueInv
<1> QED
  BY CueInvariance, <1>1, PTL

\* A rebuild never changes what the approved cue of a disc says, unless an
\* approval overtook it.
THEOREM ApprovedCueAlwaysStands == Spec => []ApprovedCueStands
<1>1. CueInv => ApprovedCueStands
  BY DEF CueInv
<1> QED
  BY CueInvariance, <1>1, PTL
=============================================================================
