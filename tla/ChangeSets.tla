----------------------------- MODULE ChangeSets -----------------------------
(***************************************************************************)
(* How a posted form becomes a change set, and how a change set is applied *)
(* to a disc: the history builder of routes/disc_edit.rs, the resolution   *)
(* of services/queue_service.rs and the write of services/disc_service.rs. *)
(*                                                                         *)
(* A content has one field for each kind of field the code treats alike:   *)
(*   system, media, title   required texts                                 *)
(*   version                a nullable text that a system may not have     *)
(*   comments               paragraphs, the review page composes them      *)
(*   errors                 a nullable INTEGER column, CD media only       *)
(*   edc                    a flag: a form may leave it unselected         *)
(*   dat                    the tracks, which also identify the disc       *)
(*   ranges, breaks         lists: sector_ranges and layerbreaks           *)
(*   bca, mastering         hex data, and the set of records derived of it *)
(*   serial                 a set of texts: regions, languages, editions   *)
(*   status                 the status of the disc                         *)
(*   rings                  the ring code entries                          *)
(* A form has the same fields, before they are normalised.  Texts of ring  *)
(* codes are numbers, 0 the empty one, because entries are sorted by them. *)
(***************************************************************************)
EXTENDS Listings, Sequences, SequencesExt

CONSTANTS
    Texts,          \* what may be typed into a text field
    Systems,        \* systems.code
    Media,          \* media_types.code
    Null,           \* SQL NULL, JSON null, an empty form field
    Absent,         \* a key that a change set does not mention
    NoId,           \* a ring code entry that is not stored yet
    Delimiter,      \* COMMENTS_REVIEW_DELIMITER
    MaxInt,         \* the largest value of an INTEGER column
    MediaOf,        \* the media types of a system
    Has,            \* the has_... flags of a system
    Layers,         \* layer_count of a media type
    IsCd,           \* is_cd_rom_extension of a media type
    AllowsMastering \* media_allows_bca_mastering

Features == {"version", "errors", "edc", "ranges", "bca"}
Statuses == {"Disabled", "Questionable", "Unverified", "Verified"}

ASSUME ReferenceAssumption ==
    /\ MediaOf \in [Systems -> SUBSET Media]
    /\ Has \in [Systems -> SUBSET Features]
    /\ Layers \in [Media -> Nat \ {0}]
    /\ IsCd \in [Media -> BOOLEAN]
    /\ AllowsMastering \in [Media -> BOOLEAN]
    /\ MaxInt \in Nat
    /\ Delimiter \in Texts
    /\ NoId \notin Nat
    /\ Null # Absent

ScalarFields == {"system", "media", "title", "version", "comments", "errors", "edc",
                 "ranges", "breaks", "bca", "dat", "status"}
SetFields == {"serial", "mastering"}
Keys == ScalarFields \cup SetFields \cup {"rings"}
ListFields == {"ranges", "breaks"}

\* is_nullable_scalar_field.
NullableFields == ScalarFields \ {"system", "media", "title", "edc", "status"}

\* The snapshot of a disc that is not there: {}.
Blank == [f \in Keys |-> IF f \in SetFields THEN {} ELSE IF f = "rings" THEN <<>> ELSE Null]

IsEmpty(f, v) == v = Null \/ (f \in ListFields /\ v = <<>>)

-----------------------------------------------------------------------------
(* Ring code entries. *)

EmptyLayer == [code |-> 0, tools |-> {}]
EmptyRing == [id |-> NoId, offset |-> 0, comment |-> 0, layers |-> <<>>]

LayerAt(r, i) == IF i \in DOMAIN r.layers THEN r.layers[i] ELSE EmptyLayer
MostLayers(a, b) == IF Len(a) < Len(b) THEN Len(b) ELSE Len(a)

RingIsEmpty(r) ==
    /\ r.offset = 0
    /\ r.comment = 0
    /\ \A i \in DOMAIN r.layers : r.layers[i] = EmptyLayer

\* The order of the sorts: the mastering codes layer by layer, then the rest.
RingBefore(a, b) ==
    LET layers  == DOMAIN a.layers \cup DOMAIN b.layers
        same(i) == LayerAt(a, i).code = LayerAt(b, i).code
    IN  \/ \E i \in layers : LayerAt(a, i).code < LayerAt(b, i).code /\ \A j \in 1..i - 1 : same(j)
        \/ /\ \A i \in layers : same(i)
           /\ \/ a.offset < b.offset
              \/ a.offset = b.offset /\ a.comment < b.comment
              \/ /\ a.offset = b.offset /\ a.comment = b.comment
                 /\ a.id # NoId /\ (b.id = NoId \/ a.id < b.id)

\* The sort keeps the order of entries that it does not tell apart.
Precedes(rs, j, k) == RingBefore(rs[j], rs[k]) \/ (~RingBefore(rs[k], rs[j]) /\ j < k)

SortRings(rs) ==
    LET order == Listing(DOMAIN rs,
                         [k \in DOMAIN rs |-> Cardinality({j \in DOMAIN rs : Precedes(rs, j, k)})])
    IN  [k \in DOMAIN rs |-> rs[order[k]]]

RingIds(rs) == {r.id : r \in ToSet(rs)} \ {NoId}

-----------------------------------------------------------------------------
(* What a form and a content hold. *)

Rings == [id : Nat \cup {NoId}, offset : Nat, comment : Nat,
          layers : Seq([code : Nat, tools : SUBSET Texts])]
Bcas == [bytes : Nat, tail : Texts]

HasTypes(x) ==
    /\ x = [f \in Keys |-> x[f]]
    /\ x["system"] \in Systems \cup {Null} /\ x["media"] \in Media \cup {Null}
    /\ x["status"] \in Statuses \cup {Null}
    /\ {x["title"], x["version"], x["dat"]} \subseteq Texts \cup {Null}
    /\ x["comments"] \in Seq(Texts) \cup {Null}
    /\ x["errors"] \in Nat \cup {Null} /\ x["edc"] \in BOOLEAN \cup {Null}
    /\ x["ranges"] \in Seq(Nat) \cup {Null} /\ x["breaks"] \in Seq(Nat) \cup {Null}
    /\ x["bca"] \in Bcas \cup {Null}
    /\ x["serial"] \subseteq Texts /\ x["mastering"] \subseteq Texts
    /\ x["rings"] \in Seq(Rings)

\* No two entries have the same id.
HasIds(rs) == \A j, k \in DOMAIN rs : rs[j].id = rs[k].id => j = k \/ rs[j].id = NoId

IsForm(x) == HasTypes(x) /\ x["breaks"] # Null /\ HasIds(x["rings"])

\* What is stored has the fields that its system and its media have, but for
\* sector ranges, which stay with a disc that changes its system.
IsContent(x) ==
    /\ HasTypes(x)
    /\ x["system"] \in Systems /\ x["media"] \in MediaOf[x["system"]]
    /\ Null \notin {x["title"], x["dat"], x["status"], x["edc"], x["ranges"]} /\ x["comments"] # <<>>
    /\ x["version"] # Null => "version" \in Has[x["system"]]
    /\ x["errors"] # Null => "errors" \in Has[x["system"]] /\ IsCd[x["media"]] /\ x["errors"] <= MaxInt
    /\ x["edc"] = TRUE => "edc" \in Has[x["system"]]
    /\ x["bca"] # Null => "bca" \in Has[x["system"]]
    /\ x["mastering"] # {} => AllowsMastering[x["media"]]
    /\ x["breaks"] # Null => /\ Len(x["breaks"]) \in 1..Layers[x["media"]] - 1
                          /\ \A i \in DOMAIN x["breaks"] : x["breaks"][i] <= MaxInt
    /\ HasIds(x["rings"])
    /\ \A k \in DOMAIN x["rings"] : LET r == x["rings"][k] IN
           /\ r.id # NoId /\ ~RingIsEmpty(r)
           /\ r.offset # 0 => IsCd[x["media"]]
           /\ Len(r.layers) = Layers[x["media"]] + 1

\* No value is taken for one that is not there.
ASSUME ValuesAssumption ==
    \A none \in {Null, Absent} :
        /\ none \notin Systems \cup Media \cup Statuses \cup Texts \cup Nat \cup BOOLEAN
        /\ none \notin Seq(Nat) /\ none \notin Seq(Texts) /\ none \notin Bcas
        /\ (\A S \in SUBSET Texts : none # S) /\ none \notin [add : SUBSET Texts, remove : SUBSET Texts]

-----------------------------------------------------------------------------
(* What a form is normalised to. *)

AsInteger(n) == IF n # Null /\ n > MaxInt THEN Null ELSE n

\* build_flat_changes: the snapshot of a form.
FlatForm(form) ==
    [form EXCEPT
        !.errors = AsInteger(@),
        !.edc = IF @ = Null THEN FALSE ELSE @,
        !.ranges = IF @ = Null THEN <<>> ELSE @,
        !.breaks = Select(@, {i \in DOMAIN form.breaks : form.breaks[i] <= MaxInt}),
        !.comments = IF @ = <<>> THEN Null ELSE @,
        !.mastering = IF form.media \in Media /\ AllowsMastering[form.media] THEN @ ELSE {}]

\* The label side is the last layer and stays when layers are dropped.
TrimLayers(layers, n) ==
    IF Len(layers) > n + 1 THEN SubSeq(layers, 1, n) \o <<Last(layers)>> ELSE layers

FitRing(r, media) ==
    [r EXCEPT !.offset = IF IsCd[media] THEN @ ELSE 0, !.layers = TrimLayers(@, Layers[media])]

FilteredRings(rs, media) ==
    LET fitted == [i \in DOMAIN rs |-> FitRing(rs[i], media)]
    IN  Select(fitted, {i \in DOMAIN rs : ~RingIsEmpty(fitted[i])})

\* Fields that the selected system or media does not have are cleared; a
\* selection that is not complete or not allowed clears nothing.
Filtered(form) ==
    LET has(f) == f \in Has[form.system]
        cd     == IsCd[form.media]
    IN  IF form.system \notin Systems \/ form.media \notin Media THEN form
        ELSE IF form.media \notin MediaOf[form.system] THEN form
        ELSE [form EXCEPT
            !.version = IF has("version") THEN @ ELSE Null,
            !.errors = IF has("errors") /\ cd THEN @ ELSE Null,
            !.edc = IF has("edc") THEN @ ELSE Null,
            !.ranges = IF has("ranges") THEN @ ELSE Null,
            !.bca = IF has("bca") THEN @ ELSE Null,
            !.mastering = IF AllowsMastering[form.media] THEN @ ELSE {},
            !.breaks = Select(@, {i \in DOMAIN form.breaks : i < Layers[form.media]}),
            !.rings = FilteredRings(@, form.media)]

-----------------------------------------------------------------------------
(* The difference between a content and a form.                            *)

\* Mutant: no field counts as empty, so NULL differs from an empty list.
ScalarChangeOfEmpty(f, old, new) == IF old = new THEN Absent ELSE new

\* An addition, a modification or, when new is empty, a removal.
ScalarChange(f, old, new) ==
    IF old = new \/ (IsEmpty(f, old) /\ IsEmpty(f, new)) THEN Absent
    ELSE IF IsEmpty(f, new) THEN Null ELSE new

SetChange(old, new, allowRemoval) ==
    LET change == [add |-> new \ old, remove |-> IF allowRemoval THEN old \ new ELSE {}]
    IN  IF change.add = {} /\ change.remove = {} THEN Absent ELSE change

TextChange(old, new) == IF old = new THEN Absent ELSE new

RingEntryChange(old, new) ==
    LET changed == {i \in 1..MostLayers(old.layers, new.layers) : LayerAt(old, i) # LayerAt(new, i)}
    IN  [id |-> old.id, remove |-> FALSE,
         offset |-> TextChange(old.offset, new.offset),
         comment |-> TextChange(old.comment, new.comment),
         layers |-> [i \in changed |->
             [code |-> TextChange(LayerAt(old, i).code, LayerAt(new, i).code),
              tools |-> TextChange(LayerAt(old, i).tools, LayerAt(new, i).tools)]]]

RingRemoval(r) ==
    [id |-> r.id, remove |-> TRUE, offset |-> Absent, comment |-> Absent, layers |-> <<>>]

SaysNothing(c) ==
    ~c.remove /\ c.offset = Absent /\ c.comment = Absent /\ DOMAIN c.layers = {}

\* What a posted entry is compared with: one whose id is no longer there is an
\* addition.
StoredEntry(old, r) ==
    IF r.id \in RingIds(old) THEN CHOOSE o \in ToSet(old) : o.id = r.id ELSE EmptyRing

RingChanges(old, new, allowRemoval) ==
    LET sorted == SortRings(new)
        kept == [i \in DOMAIN sorted |-> RingEntryChange(StoredEntry(old, sorted[i]), sorted[i])]
        before == SortRings(old)
        gone == Select(before, {i \in DOMAIN before : before[i].id \notin RingIds(new)})
    IN  Select(kept, {i \in DOMAIN kept : ~SaysNothing(kept[i])})
        \o (IF allowRemoval THEN [i \in DOMAIN gone |-> RingRemoval(gone[i])] ELSE <<>>)

\* build_history_changes.
HistoryChanges(form, old, allowRemoval, includeStatus) ==
    LET new == FlatForm(Filtered(form))
    IN  [f \in Keys |->
            IF f = "rings" THEN RingChanges(old.rings, new.rings, allowRemoval)
            ELSE IF f \in SetFields THEN SetChange(old[f], new[f], allowRemoval)
            ELSE IF f = "status" /\ ~includeStatus THEN Absent
            ELSE ScalarChange(f, old[f], new[f])]

EditChanges(form, disc) == HistoryChanges(form, disc, TRUE, TRUE)
DiscChanges(form, disc) == HistoryChanges(form, disc, TRUE, FALSE)
NewDiscChanges(form) == HistoryChanges(form, Blank, FALSE, FALSE)

NoChanges == [f \in Keys |-> IF f = "rings" THEN <<>> ELSE Absent]
Named(ch) == {f \in Keys : ch[f] # NoChanges[f]}

-----------------------------------------------------------------------------
(* A BCA is [bytes, tail]: its length, and its last 16 bytes.  Add Disc    *)
(* reads the mastering record off any BCA, but stores only a whole one.    *)

WholeBca == 192
ShortestBca == 16

\* build_add_submission_changes; match is the media type of the matched disc.
AddChanges(form, match) ==
    LET media   == IF match = Null THEN form.media ELSE match
        reads   == media \in Media /\ AllowsMastering[media] /\ form.bca # Null
        derives == reads /\ form.bca.bytes >= ShortestBca
        ch      == NewDiscChanges([form EXCEPT
                       !.media = media,
                       !.bca = IF reads /\ @.bytes # WholeBca THEN Null ELSE @])
        unsaid  == (IF form.bca = Null THEN {"bca", "mastering"} ELSE {})
                   \cup (IF match = Null THEN {} ELSE
                            {f \in {"media", "edc", "breaks"} : IsEmpty(f, form[f])})
    IN  [f \in Keys |-> IF f \in unsaid THEN NoChanges[f]
                        ELSE IF f = "mastering" /\ derives
                        THEN [add |-> {form.bca.tail}, remove |-> {}]
                        ELSE ch[f]]

-----------------------------------------------------------------------------
(* Resolution: a change set on the content it is shown with or approved on. *)

NewText(change) == IF change = Absent THEN 0 ELSE change
NewTools(change) == IF change = Absent THEN {} ELSE change

HasIdentity(c) == \E i \in DOMAIN c.layers : NewText(c.layers[i].code) # 0

\* The same mastering codes on every layer, and nothing that contradicts.
IdentifiedMatch(r, c) ==
    /\ r.offset = NewText(c.offset) \/ r.offset = 0 \/ NewText(c.offset) = 0
    /\ r.comment = NewText(c.comment)
    /\ \A i \in DOMAIN c.layers : NewText(c.layers[i].code) = LayerAt(r, i).code
    /\ \A i \in DOMAIN r.layers : r.layers[i].code # 0 => i \in DOMAIN c.layers

\* Without mastering codes: the entry already says all of it.
ContainedMatch(r, c) ==
    LET told == {i \in DOMAIN c.layers : NewTools(c.layers[i].tools) # {}}
    IN  /\ NewText(c.offset) # 0 \/ NewText(c.comment) # 0 \/ told # {}
        /\ NewText(c.offset) \in {0, r.offset}
        /\ NewText(c.comment) \in {0, r.comment}
        /\ told \subseteq DOMAIN r.layers
        /\ \A i \in told : c.layers[i].tools \subseteq r.layers[i].tools

MatchingRings(rs, c, removed) ==
    {k \in DOMAIN rs : /\ rs[k].id \notin removed
                       /\ IF HasIdentity(c) THEN IdentifiedMatch(rs[k], c)
                                            ELSE ContainedMatch(rs[k], c)}

\* Tools are added to those of an entry that is merged with, else replaced.
ChangeLayer(l, new, merging) ==
    [code |-> IF new.code = Absent THEN l.code ELSE new.code,
     tools |-> IF new.tools = Absent THEN l.tools
               ELSE IF merging THEN l.tools \cup new.tools ELSE new.tools]

\* Layers up to the last that the change names.
ChangeEntry(r, c, merging) ==
    LET last == Cardinality(DOMAIN r.layers \cup UNION {1..i : i \in DOMAIN c.layers})
    IN  [r EXCEPT !.offset = IF c.offset = Absent THEN @ ELSE c.offset,
                  !.comment = IF c.comment = Absent THEN @ ELSE c.comment,
                  !.layers = [i \in 1..last |->
                      IF i \in DOMAIN c.layers THEN ChangeLayer(LayerAt(r, i), c.layers[i], merging)
                      ELSE LayerAt(r, i)]]

\* The entries that a change may be meant for.
Targets(rs, c, merge, removed) ==
    IF c.id # NoId THEN {k \in DOMAIN rs : rs[k].id = c.id}
    ELSE IF merge THEN MatchingRings(rs, c, removed) ELSE {}

\* One entry of a change set is applied to the entries of the disc, to the
\* first that it may be meant for, or becomes an addition.
ApplyEntry(acc, c, merge, removed) ==
    LET ks == Targets(acc.rings, c, merge, removed)
        k  == CHOOSE i \in ks : \A j \in ks : i <= j
    IN  IF c.remove THEN acc
        ELSE IF ks = {} THEN [acc EXCEPT !.added = Append(@, ChangeEntry(EmptyRing, c, FALSE))]
        ELSE [acc EXCEPT !.rings[k] = ChangeEntry(@, c, c.id = NoId)]

\* The entries of the disc and those that are added, after each change.
Applications(old, changes, merge, removed) ==
    LET acc[n \in 0..Len(changes)] ==
            IF n = 0 THEN [rings |-> SortRings(old), added |-> <<>>]
            ELSE ApplyEntry(acc[n - 1], changes[n], merge, removed)
    IN  acc

RemovedIds(changes) == {c.id : c \in {d \in ToSet(changes) : d.remove}}

\* apply_ring_codes_history_with_mode: merge is MergeCompatibleAdditions, the
\* mode of a page, ~merge is PreserveDistinctAdditions, that of an approval.
ApplyRings(old, changes, merge) ==
    LET removed == RemovedIds(changes)
        done == Applications(old, changes, merge, removed)[Len(changes)]
    IN  SortRings(Select(done.rings, {k \in DOMAIN done.rings : done.rings[k].id \notin removed})
                  \o done.added)

SetApplied(old, change) == (old \ change.remove) \cup change.add

\* What makes the resolution a BadRequest.
Resolvable(base, ch) ==
    /\ \A f \in ScalarFields \ NullableFields : ch[f] # Null
    /\ \A c \in ToSet(ch.rings) : c.id # NoId => c.id \in RingIds(base.rings)

Resolve(base, ch, merge) ==
    [f \in Keys |->
        IF f = "rings" THEN (IF ch.rings = <<>> THEN base.rings
                             ELSE ApplyRings(base.rings, ch.rings, merge))
        ELSE IF ch[f] = Absent THEN base[f]
        ELSE IF f \in SetFields THEN SetApplied(base[f], ch[f])
        ELSE ch[f]]

\* An approved verification raises the status; a new disc is Unverified.
AutomaticStatus(status) ==
    IF status = Null THEN "Unverified"
    ELSE IF status \in {"Unverified", "Questionable"} THEN "Verified" ELSE Absent

ApprovalChanges(type, current, submitted, reviewed) ==
    IF type = "Disc" /\ reviewed.status = Absent
    THEN [reviewed EXCEPT !.status = IF submitted.status # Absent THEN submitted.status
                                     ELSE AutomaticStatus(current.status)]
    ELSE reviewed

-----------------------------------------------------------------------------
(* The write: update_disc, then the snapshot that is read back.            *)

\* Entries without an id get the next ones; a layer is read back for each
\* layer of the media and the label side.
StoredRing(r, media, id) ==
    [r EXCEPT !.id = IF @ = NoId THEN id ELSE @,
              !.layers = [i \in 1..Layers[media] + 1 |-> LayerAt(r, i)]]

StoredRings(rs, media, nextId) ==
    LET fresh(k) == nextId + Cardinality({j \in 1..k - 1 : rs[j].id = NoId})
    IN  SortRings([k \in DOMAIN rs |-> StoredRing(rs[k], media, fresh(k))])

NewRings(rs) == Cardinality({k \in DOMAIN rs : rs[k].id = NoId})

\* Mutant: an UPDATE that leaves out the layerbreaks.
UpdateDiscPartly(old, data, nextId) ==
    [data EXCEPT !.breaks = old.breaks,
                 !.edc = IF @ = Null THEN FALSE ELSE @,
                 !.rings = StoredRings(@, data.media, nextId)]

\* sector_ranges are written only when the data holds a list; the other
\* columns are set to what the data holds.
UpdateDisc(old, data, nextId) ==
    [data EXCEPT
        !.ranges = IF @ = Null THEN old.ranges ELSE @,
        !.breaks = IF @ = <<>> THEN Null ELSE @,
        !.edc = IF @ = Null THEN FALSE ELSE @,
        !.mastering = IF AllowsMastering[data.media] THEN @ ELSE {},
        !.status = IF @ = Null THEN "Unverified" ELSE @,
        !.rings = StoredRings(@, data.media, nextId)]

-----------------------------------------------------------------------------
(* What the server asks of a posted form.                                  *)

\* validate_form_with_options: strict is edit_submission, for an edit and for
\* the form of a reviewer; lenient is add_submission of a verification.
SelectionErrors(form, lenient) ==
    \/ form.system = Null /\ (~lenient \/ form.media # Null)
    \/ form.media = Null /\ (~lenient \/ form.system # Null)
    \/ form.system # Null /\ form.media # Null /\ form.media \notin MediaOf[form.system]

BcaErrors(form, add) ==
    /\ form.media \in Media /\ AllowsMastering[form.media] /\ form.bca # Null
    /\ form.bca.bytes < ShortestBca \/ (~add /\ form.bca.bytes # WholeBca)

ValidForm(form, add, lenient) ==
    /\ ~SelectionErrors(form, lenient)
    /\ ~BcaErrors(form, add)
    /\ form.dat # Null
    /\ ~lenient => form.title # Null
    /\ ~lenient /\ "edc" \in Has[form.system] => form.edc # Null
    /\ ~lenient /\ add => Len(form.breaks) >= Layers[form.media] - 1

\* validate_add_submission_ring_offsets and validate_add_submission_error_count
\* ask more of those who do not moderate, of the selection that was matched.
CompleteDump(form, system, media) ==
    /\ IsCd[media] => \A r \in ToSet(form.rings) : r.offset # 0
    /\ IsCd[media] /\ "errors" \in Has[system] => form.errors # Null
=============================================================================
