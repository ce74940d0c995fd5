----------------------------- MODULE EditReview -----------------------------
(***************************************************************************)
(* What happens to the content of one disc while several people edit,      *)
(* verify and review it.  A page is rendered from the disc as it is, is    *)
(* filled in for as long as its user likes, and is compared with the disc  *)
(* as it has become when it is posted; only a review page carries a hash   *)
(* of what it was rendered from.                                           *)
(*                                                                         *)
(* The posts are atomic here: SubmissionQueue models how the handlers      *)
(* interleave, with contents of five fields; this module models what they  *)
(* do with the whole form.                                                 *)
(***************************************************************************)
EXTENDS ChangeSets

CONSTANTS
    Clients,      \* browsers, each with one page open
    RoleOf,       \* the role of the user at each client
    SubIds,       \* disc_submissions.id
    InitContents, \* the contents the disc may start with, Null: no disc yet
    Typed,        \* what users type: pairs of a field and a value
    TypedRings,   \* ring code entries that users add
    AddForms,     \* what users post on Add Disc
    MaxRings,     \* bound: ids of ring code entries
    MaxFills      \* bound: things that users change on their pages

ASSUME UserAssumption == \A c \in Clients : RoleOf[c] \in {"User", "User+", "Moderator"}

\* An empty form, but for the lists that a page always sends.
EmptyForm == [Blank EXCEPT !.breaks = <<>>]

ASSUME FormsAssumption ==
    /\ SubIds \subseteq Nat
    /\ \A x \in InitContents \ {Null} :
          IsContent(x) /\ \A k \in DOMAIN x.rings : x.rings[k].id \in 1..Len(x.rings)
    /\ \A t \in Typed : t[1] \in Keys \ {"rings"} /\ IsForm([EmptyForm EXCEPT ![t[1]] = t[2]])
    /\ TypedRings \subseteq {r \in Rings : r.id = NoId}
    /\ \A x \in AddForms : IsForm(x) /\ \A k \in DOMAIN x.rings : x.rings[k].id = NoId

VARIABLES
    disc,         \* the content of the disc, Null while there is none
    subs,         \* the submissions
    pages,        \* the page each browser shows
    nextRing,     \* the next id of disc_ring_code_entries
    fills         \* what users have changed on their pages

vars == <<disc, subs, pages, nextRing, fills>>

CanEditDirectly(c) == RoleOf[c] # "User"
CanModerate(c) == RoleOf[c] = "Moderator"

NoPage == [kind |-> "none", sub |-> Null, seen |-> Null, form |-> Null]

Init ==
    /\ disc \in InitContents
    /\ subs = [s \in SubIds |-> Null]
    /\ pages = [c \in Clients |-> NoPage]
    /\ nextRing = 1 + (IF disc = Null THEN 0 ELSE Len(disc.rings))
    /\ fills = 0

-----------------------------------------------------------------------------
(* The pages. *)

Show(c, page) == pages' = [pages EXCEPT ![c] = page]
Close(c) == Show(c, NoPage)

FormOf(x) == [x EXCEPT !.breaks = IF @ = Null THEN <<>> ELSE @,
                       !.edc = IF @ = Null THEN FALSE ELSE @]

\* What a submission is resolved on: its target, or the empty snapshot.
Base(sub) == IF sub.target THEN disc ELSE Blank

\* The old paragraphs, the delimiter and the submitted paragraphs.
ComposedComments(old, new) ==
    (IF old = Null THEN <<>> ELSE old) \o <<Delimiter>> \o (IF new = Null THEN <<>> ELSE new)

\* Mutant: the submitted values of a disc that is known are shown as its own.
ReviewFormAsSubmitted(sub) == FormOf(Resolve(Base(sub), sub.changes, TRUE))

\* build_review_template and apply_review_diff_context: a submission of a disc
\* that is known keeps the identity the disc has.
ReviewForm(sub) ==
    LET base == Base(sub)
        new  == FormOf(Resolve(base, sub.changes, TRUE))
        old(f) == sub.target /\ sub.type = "Disc" /\ f \in {"system", "media", "title"}
    IN  [f \in Keys |->
            IF f = "comments" THEN (IF sub.target /\ base.comments # new.comments
                                    THEN ComposedComments(base.comments, new.comments)
                                    ELSE new.comments)
            ELSE IF f = "status" /\ new.status = Null THEN "Unverified"
            ELSE IF old(f) THEN base[f] ELSE new[f]]

\* Mutant: sets are compared by what was taken from them only.
MarkedRemovals(new, old) ==
    {f \in ScalarFields : new[f] # old[f]} \cup {f \in SetFields : old[f] \ new[f] # {}}

\* compute_field_highlights: the fields the page marks.  Removed entries are
\* not on the page, and nothing marks them.
Marked(new, old) ==
    {f \in Keys \ {"rings"} : new[f] # old[f] /\ ~(f \in ScalarFields /\ IsEmpty(f, new[f]) /\ IsEmpty(f, old[f]))}
    \cup (IF \E r \in ToSet(new.rings) : r \notin ToSet(old.rings) THEN {"rings"} ELSE {})

ReviewPage(s, sub) ==
    [kind |-> "review", sub |-> s, form |-> ReviewForm(sub),
     seen |-> IF sub.target THEN disc ELSE Null]

\* Mutant: a Draft is shown, like a review, on top of the disc.
DraftFormOfTarget(sub) == FormOf(Resolve(Base(sub), sub.changes, TRUE))

\* draft_add_form: a Draft shows what its change set says and nothing else.
\* The system, the media and the DAT of a verification are its target's.
DraftForm(sub) ==
    LET own == Resolve(Blank, sub.changes, TRUE)
    IN  [own EXCEPT !.breaks = IF @ = Null THEN <<>> ELSE @,
                    !.status = "Unverified",
                    !.system = IF sub.target THEN disc.system ELSE @,
                    !.media = IF sub.target THEN disc.media ELSE @,
                    !.dat = IF sub.target THEN disc.dat ELSE @]

EditPage == [kind |-> "edit", sub |-> Null, seen |-> disc, form |-> FormOf(disc)]

OpenEdit(c) ==
    /\ pages[c] = NoPage
    /\ disc # Null
    /\ Show(c, EditPage)
    /\ UNCHANGED <<disc, subs, nextRing, fills>>

OpenReview(c, s) ==
    /\ pages[c] = NoPage
    /\ CanModerate(c)
    /\ subs[s] # Null
    /\ subs[s].status = "Pending"
    /\ Resolvable(Base(subs[s]), subs[s].changes)
    /\ Show(c, ReviewPage(s, subs[s]))
    /\ UNCHANGED <<disc, subs, nextRing, fills>>

OpenDraft(c, s) ==
    /\ pages[c] = NoPage
    /\ subs[s] # Null
    /\ subs[s].status = "Draft"
    /\ subs[s].submitter = c
    /\ Show(c, [kind |-> "draft", sub |-> s, seen |-> Null, form |-> DraftForm(subs[s])])
    /\ UNCHANGED <<disc, subs, nextRing, fills>>

WithoutDelimiter(comments) ==
    IF comments = Null THEN Null
    ELSE Select(comments, {i \in DOMAIN comments : comments[i] # Delimiter})

\* What a user may turn a form into: a field typed, an entry added or dropped,
\* the delimiter of the comments removed.
Retouched(form) ==
    {[form EXCEPT ![t[1]] = t[2]] : t \in Typed}
    \cup {[form EXCEPT !.rings = Append(@, r)] : r \in TypedRings}
    \cup {[form EXCEPT !.rings = Select(@, DOMAIN @ \ {k})] : k \in DOMAIN form.rings}
    \cup {[form EXCEPT !.comments = WithoutDelimiter(@)]}

Fill(c) ==
    /\ pages[c].kind # "none"
    /\ fills < MaxFills
    /\ fills' = fills + 1
    /\ \E form \in Retouched(pages[c].form) :
          /\ form # pages[c].form
          /\ Show(c, [pages[c] EXCEPT !.form = form])
    /\ UNCHANGED <<disc, subs, nextRing>>

-----------------------------------------------------------------------------
(* The posts. *)

Fresh(s) == subs[s] = Null /\ \A t \in SubIds : t < s => subs[t] # Null

Submission(type, who, target, ch, status) ==
    [type |-> type, submitter |-> who, target |-> target, changes |-> ch, status |-> status]

\* Nothing here reads the change set of an approved submission again.
Approved(type, who) == Submission(type, who, TRUE, NoChanges, "Approved")

\* The transaction of an approval: new entries get the next ids.
StoreDisc(sub, changes) ==
    LET data == Resolve(Base(sub), changes, FALSE)
    IN  /\ Resolvable(Base(sub), changes)
        /\ nextRing + NewRings(data.rings) <= MaxRings + 1
        /\ disc' = UpdateDisc(IF sub.target THEN disc ELSE [Blank EXCEPT !.ranges = <<>>],
                              data, nextRing)
        /\ nextRing' = nextRing + NewRings(data.rings)

\* edit_submit.  Those who may not set the status post the one the disc has,
\* and may not add entries.
PostedEdit(c) ==
    [pages[c].form EXCEPT !.status = IF CanEditDirectly(c) THEN @ ELSE disc.status]

PostEdit(c, s) ==
    LET ch  == EditChanges(PostedEdit(c), disc)
        sub == Submission("Edit", c, TRUE, ch, "Pending")
    IN  /\ pages[c].kind = "edit"
        /\ Fresh(s)
        /\ ValidForm(PostedEdit(c), FALSE, FALSE)
        /\ \/ /\ ~CanEditDirectly(c)
              /\ \A r \in ToSet(ch.rings) : r.id # NoId
              /\ subs' = [subs EXCEPT ![s] = sub]
              /\ UNCHANGED <<disc, nextRing>>
           \/ /\ CanEditDirectly(c)
              /\ subs' = [subs EXCEPT ![s] = Approved("Edit", c)]
              /\ StoreDisc(sub, ch)
        /\ Close(c)
        /\ UNCHANGED fills

\* The media of the disc whose DAT the form has, if there is one.
Match(form) == IF disc # Null /\ disc.dat = form.dat THEN disc.media ELSE Null

ValidDump(c, form) ==
    /\ ValidForm(form, TRUE, Match(form) # Null)
    /\ Match(form) = Null => CompleteDump(form, form.system, form.media)
    /\ Match(form) # Null /\ ~CanModerate(c) => CompleteDump(form, disc.system, disc.media)

\* add_submit: a new disc of a user who edits directly is approved at once.
PostAdd(c, s) ==
    /\ pages[c] = NoPage
    /\ Fresh(s)
    /\ \E form \in AddForms :
          LET match == Match(form)
              sub   == Submission("Disc", c, match # Null, AddChanges(form, match), "Pending")
          IN  /\ ValidDump(c, form)
              /\ disc = Null \/ match # Null
              /\ IF CanEditDirectly(c) /\ match = Null
                 THEN /\ subs' = [subs EXCEPT ![s] = Approved("Disc", c)]
                      /\ StoreDisc(sub, ApprovalChanges("Disc", Blank, sub.changes, sub.changes))
                 ELSE /\ subs' = [subs EXCEPT ![s] = sub]
                      /\ UNCHANGED <<disc, nextRing>>
    /\ UNCHANGED <<pages, fills>>

\* The submitter of a Draft posts it again: it is matched anew.
PostDraft(c) ==
    LET s == pages[c].sub
        form == pages[c].form
    IN  /\ pages[c].kind = "draft"
        /\ subs[s].status = "Draft"
        /\ ValidDump(c, form)
        /\ subs' = [subs EXCEPT ![s] = [@ EXCEPT !.changes = AddChanges(form, Match(form)),
                                                 !.target = Match(form) # Null,
                                                 !.status = "Pending"]]
        /\ Close(c)
        /\ UNCHANGED <<disc, nextRing, fills>>

\* The actions of a review page on a submission that is still Pending.
Reviewing(c) ==
    /\ pages[c].kind = "review"
    /\ subs[pages[c].sub] # Null
    /\ subs[pages[c].sub].status = "Pending"

ReturnDraft(c) ==
    /\ Reviewing(c)
    /\ subs[pages[c].sub].type = "Disc"
    /\ subs' = [subs EXCEPT ![pages[c].sub].status = "Draft"]
    /\ Close(c)
    /\ UNCHANGED <<disc, nextRing, fills>>

IsStale(c) == subs[pages[c].sub].target /\ pages[c].seen # disc

\* The page is rendered from the latest content, the edits on it are lost.
RefreshReview(c) ==
    /\ Reviewing(c)
    /\ IsStale(c)
    /\ Resolvable(disc, subs[pages[c].sub].changes)
    /\ Show(c, ReviewPage(pages[c].sub, subs[pages[c].sub]))
    /\ UNCHANGED <<disc, subs, nextRing, fills>>

Approvable(c) ==
    /\ Reviewing(c)
    /\ ~IsStale(c)
    /\ ValidForm(pages[c].form, FALSE, FALSE)
    /\ pages[c].form.comments # Null => Delimiter \notin ToSet(pages[c].form.comments)

\* A new disc that somebody else's approval has created in the meantime.
Retarget(c) ==
    /\ Approvable(c)
    /\ ~subs[pages[c].sub].target
    /\ Match(pages[c].form) # Null
    /\ subs' = [subs EXCEPT ![pages[c].sub].target = TRUE]
    /\ Close(c)
    /\ UNCHANGED <<disc, nextRing, fills>>

ReviewedChanges(sub, form) ==
    IF sub.type = "Edit" THEN EditChanges(form, Base(sub))
    ELSE IF sub.target THEN DiscChanges(form, Base(sub)) ELSE NewDiscChanges(form)

Approve(c) ==
    LET s   == pages[c].sub
        sub == subs[s]
        ch  == ApprovalChanges(sub.type, Base(sub), sub.changes, ReviewedChanges(sub, pages[c].form))
    IN  /\ Approvable(c)
        /\ sub.target \/ disc = Null
        /\ StoreDisc(sub, ch)
        /\ subs' = [subs EXCEPT ![s] = Approved(sub.type, sub.submitter)]
        /\ Close(c)
        /\ UNCHANGED fills

Next ==
    \E c \in Clients :
        \/ OpenEdit(c) \/ Fill(c)
        \/ \E s \in SubIds : OpenReview(c, s) \/ OpenDraft(c, s) \/ PostEdit(c, s) \/ PostAdd(c, s)
        \/ PostDraft(c) \/ ReturnDraft(c) \/ RefreshReview(c) \/ Retarget(c) \/ Approve(c)

Spec == Init /\ [][Next]_vars

-----------------------------------------------------------------------------
(* Properties. *)

EntriesOf(rs) == {[r EXCEPT !.id = NoId] : r \in ToSet(rs)}

\* The posted form of c has just been written to the disc.
Stores(c) == pages[c].kind \in {"edit", "review"} /\ pages'[c] = NoPage /\ disc' # disc
StoredForm(c) == IF pages[c].kind = "edit" THEN PostedEdit(c) ELSE pages[c].form

\* The disc shows what was posted, in every field its system and media have:
\* but for the status, and for sector ranges that were removed.
AsPosted(content, posted) ==
    LET form  == FlatForm(Filtered(posted))
        shown == FormOf(content)
    IN  /\ \A f \in Keys \ {"rings", "status", "ranges"} : shown[f] = form[f]
        /\ form.ranges # <<>> => shown.ranges = form.ranges
        /\ EntriesOf(shown.rings) = EntriesOf(StoredRings(form.rings, form.media, 0))
        /\ Len(shown.rings) = Len(form.rings)

\* After an approval the disc has what the approved form showed, although only
\* the differences were stored and were applied to the disc again: but for the
\* status, which a submission of a disc changes by itself, and for sector
\* ranges that were removed.
ApprovedIsReviewed == [][\A c \in Clients : Stores(c) => AsPosted(disc', StoredForm(c))]_vars

Shown(c) == subs[pages[c].sub]
AsShown(c) ==
    /\ pages[c].kind = "review"
    /\ \E f \in {ReviewForm(Shown(c))} :
          pages[c].form \in {f, [f EXCEPT !.comments = WithoutDelimiter(@)]}

SameMastering(q, r) ==
    /\ q.comment = r.comment
    /\ q.offset = r.offset
    /\ \A i \in DOMAIN q.layers \cup DOMAIN r.layers : LayerAt(q, i).code = LayerAt(r, i).code

\* The fields of a submission for which a disc has no place: that its system
\* does not have, or its media, as when the disc has changed its media since.
NoPlace(ch) ==
    LET layers == Layers[disc.media]
        cd     == IsCd[disc.media]
        reads  == AllowsMastering[disc.media]
        beyond(c) == (c.offset # Absent /\ ~cd) \/ \E i \in DOMAIN c.layers : i > layers + 1
        misread == IF ~reads THEN ch.mastering # Absent
                   ELSE ch.bca # Absent /\ (ch.bca.bytes # WholeBca \/ ch.mastering = Absent)
    IN  (Features \ Has[disc.system])
        \cup (IF cd THEN {} ELSE {"errors"})
        \cup (IF ch.breaks # Absent /\ Len(ch.breaks) >= layers THEN {"breaks"} ELSE {})
        \cup (IF \E c \in ToSet(ch.rings) : beyond(c) THEN {"rings"} ELSE {})
        \cup (IF misread THEN {"bca", "mastering"} ELSE {})

\* The paragraphs of a text.
Paragraphs(comments) == (IF comments = Null THEN {} ELSE ToSet(comments)) \ {Delimiter}

\* A verification that is approved as its page shows it takes nothing from the
\* disc: no identity, no text, no member of a set, no entry and no tool mark.
\* Nor does it add an entry with the mastering codes, the offset and the
\* comment of one that is there, however often a disc is verified.  (Two alike
\* that are submitted together are both added.)
VerificationKeepsTarget ==
    [][\A c \in Clients :
          Stores(c) /\ disc # Null /\ AsShown(c) /\ Shown(c).type = "Disc" =>
             /\ \A f \in {"system", "media", "title"} : disc'[f] = disc[f]
             /\ \A f \in NullableFields \ {"comments"} : ~IsEmpty(f, disc[f]) => ~IsEmpty(f, disc'[f])
             /\ Paragraphs(disc.comments) \subseteq Paragraphs(disc'.comments)
             /\ \A f \in SetFields : disc[f] \subseteq disc'[f]
             /\ "rings" \notin NoPlace(Shown(c).changes) =>
                /\ \A r \in ToSet(disc.rings) : \E q \in ToSet(disc'.rings) :
                   /\ q.id = r.id
                   /\ \A i \in DOMAIN r.layers : /\ q.layers[i].code = r.layers[i].code
                                                /\ r.layers[i].tools \subseteq q.layers[i].tools
                /\ \A q, r \in ToSet(disc'.rings) :
                   q.id # r.id /\ SameMastering(q, r) /\ (\E i \in DOMAIN q.layers : q.layers[i].code # 0)
                      => {q.id, r.id} \subseteq RingIds(disc.rings)
                         \/ {q.id, r.id} \cap RingIds(disc.rings) = {}]_vars

\* An edit names a field only if its author changed it or another approval
\* changed the disc since the page was opened: normalising, filtering and
\* rendering what is stored never look like a change.
ChangesHaveACause ==
    \A c \in Clients : pages[c].kind = "edit" /\ ValidForm(PostedEdit(c), FALSE, FALSE) =>
        LET form == FormOf(pages[c].seen)
            typed == {f \in Keys : pages[c].form[f] # form[f]}
            overtaken == {f \in Keys : pages[c].seen[f] # disc[f]}
        IN  typed \cap {"system", "media"} # {}
            \/ Named(EditChanges(PostedEdit(c), disc))
                  \subseteq typed \cup overtaken \cup ({"ranges"} \ Has[form.system])

\* Whoever posts a returned Draft as it is shown submits the same changes, as
\* long as it matches the same disc: but for the mastering record of a BCA that
\* was not whole, since the Draft does not keep that BCA, and for what the disc
\* it matches has no place for.
DraftSurvives ==
    \A s \in SubIds : subs[s] # Null /\ subs[s].status = "Draft"
                      /\ subs[s].target = (Match(DraftForm(subs[s])) # Null) =>
        LET again == AddChanges(DraftForm(subs[s]), Match(DraftForm(subs[s])))
            other == (IF subs[s].changes.bca = Absent THEN {"mastering"} ELSE {})
                     \cup (IF subs[s].target THEN {"system", "media", "dat"} \cup NoPlace(subs[s].changes) ELSE {})
        IN  \A f \in Keys \ other : again[f] = subs[s].changes[f]

\* Approving a page as it is shown changes no field that the page does not
\* mark: unless the approval would change the system or the media, and apart
\* from entries that are removed, from sector ranges that the system of the
\* disc does not have, and from comments in which the delimiter was stored.
ChangesAreMarked ==
    \A c \in Clients : Reviewing(c) /\ Shown(c).target /\ ~IsStale(c) /\ AsShown(c) =>
        LET form == pages[c].form
            ch == ReviewedChanges(Shown(c), form)
            unseen == (IF \A r \in ToSet(ch.rings) : r.remove THEN {"rings"} ELSE {})
                      \cup ({"ranges"} \ Has[disc.system])
                      \cup (IF disc.comments # Null /\ Delimiter \in ToSet(disc.comments) THEN {"comments"} ELSE {})
        IN  \/ <<form.system, form.media>> # <<disc.system, disc.media>>
            \/ Named(ch) \ unseen \subseteq Marked(Resolve(disc, Shown(c).changes, TRUE), disc)

\* What the page of a review that has been overtaken promises: it has been
\* refreshed with the latest data and can be reviewed again.
StalePageIsRefreshed ==
    \A c \in Clients : Reviewing(c) /\ IsStale(c) => Resolvable(disc, Shown(c).changes)
=============================================================================
