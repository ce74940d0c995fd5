----------------------------- MODULE LookupTables -----------------------------
(***************************************************************************)
(* The tables of systems, regions and languages, which moderators edit on  *)
(* the maintenance pages (src/src/routes/maintenance.rs) while submissions *)
(* are approved.  A page posts all its rows, each with the code it was     *)
(* shown with.  They are validated against the rows of that moment; then a *)
(* transaction saves, row by row, what differs from them.  A row with a    *)
(* new code is inserted, the discs are moved to it, and the old row is     *)
(* deleted.                                                                *)
(*                                                                         *)
(* A transaction sees what is committed and its own writes, and waits for  *)
(* the rows that another has written.  A row is a code, a name and data,   *)
(* which stands for the type, the media types and the capabilities of a    *)
(* system, the flag and the position of a region or language.              *)
(***************************************************************************)
EXTENDS Listings, Sequences, SequencesExt

CONSTANTS
    Moderators,     \* requests of moderators
    Codes,          \* codes, in the order in which a page lists them
    Discs,
    Absent,         \* no row
    FirstRows,      \* the rows at the start: name and data of some codes
    FirstCodes,     \* the codes of the discs at the start
    Edits,          \* what a moderator changes on a page: [changed, added]
    ValidData,      \* data that validation accepts
    MaxSaves,       \* bound: forms that are posted
    MaxApprovals    \* bound: approvals, failures

ASSUME TablesAssumption ==
    /\ Codes \subseteq Nat /\ IsFiniteSet(Codes) /\ ValidData \subseteq Nat
    /\ DOMAIN FirstRows \subseteq Codes
    /\ \A c \in DOMAIN FirstRows : FirstRows[c] \in [name : STRING, data : Nat]
    /\ FirstCodes \in [Discs -> (SUBSET DOMAIN FirstRows) \ {{}}]
    /\ {MaxSaves, MaxApprovals} \subseteq Nat
    /\ Absent \notin Codes \cup Discs

\* A row of a form, and one of the table with what it stands for.
FormRows == [code : Nat, name : STRING, data : Nat]
TableRows == [name : STRING, data : Nat, of : ({"first"} \X Codes) \cup ({"new"} \X Nat)]

ASSUME EditsAssumption ==
    /\ Absent \notin TableRows
    /\ \A edit \in Edits : /\ edit.added \in Seq(FormRows)
                          /\ DOMAIN edit.changed \subseteq Codes
                          /\ \A c \in DOMAIN edit.changed : edit.changed[c] \in FormRows

VARIABLES
    table,          \* the table this behaviour is about
    rows,           \* its rows, each with what it stands for (ghost)
    discCodes,      \* the codes of each disc: disc_regions, disc_languages, discs.system_code
    saving,         \* the form of each moderator and its transaction
    approving,      \* the approval of a submission that sets the codes of a disc
    meant,          \* ghost: what the codes of each disc stand for
    freed, reused,  \* ghost: the codes that were renamed, and whether one was given again
    saves, approvals

tableVars == <<table, rows, discCodes, saving, approving, meant, freed, reused, saves, approvals>>

NoForm == [at |-> "idle", page |-> <<>>, existing |-> <<>>, todo |-> <<>>, written |-> <<>>, moved |-> {}, id |-> 0]
NotApproving == [at |-> "idle", disc |-> Absent, codes |-> {}]

TablesInit ==
    /\ table \in {"systems", "regions", "languages"}
    /\ rows = [c \in Codes |-> IF c \in DOMAIN FirstRows
                               THEN [name |-> FirstRows[c].name, data |-> FirstRows[c].data, of |-> <<"first", c>>]
                               ELSE Absent]
    /\ discCodes = [d \in Discs |-> IF table = "systems" THEN {CHOOSE c \in FirstCodes[d] : TRUE} ELSE FirstCodes[d]]
    /\ meant = [d \in Discs |-> {rows[c].of : c \in discCodes[d]}]
    /\ saving = [m \in Moderators |-> NoForm]
    /\ approving = NotApproving
    /\ freed = {} /\ reused = FALSE
    /\ saves = 0 /\ approvals = 0

Existing(r) == {c \in DOMAIN r : r[c] # Absent}
Sorted(codes) == Ascending(codes)

-----------------------------------------------------------------------------
(* The form. *)

\* The rows of the page, as the moderator leaves them, and those that are new.
Payload(page, edit) ==
    LET shown == Sorted(Existing(page))
        row(c) == IF c \in DOMAIN edit.changed THEN edit.changed[c]
                  ELSE [code |-> c, name |-> page[c].name, data |-> page[c].data]
    IN  [i \in DOMAIN shown |-> [original |-> shown[i], row |-> row(shown[i])]]
        \o [i \in DOMAIN edit.added |-> [original |-> Absent, row |-> edit.added[i]]]

CompleteRow(row) == row.name # ""

\* What a system, region or language may have.
HasValidData(row) == row.data \in ValidData

\* A row has a code of its own,
DistinctCode(payload, i) ==
    \A j \in DOMAIN payload \ {i} : payload[i].row.code # payload[j].row.code

\* and not one that exists unless it was shown with it.
FreeCode(payload, i, existing) ==
    /\ payload[i].row.code \in Codes
    /\ payload[i].original # payload[i].row.code => payload[i].row.code \notin existing

\* Each row was shown with a code that exists, once, or is new.
ShownOnce(payload, i, existing) ==
    payload[i].original # Absent =>
        /\ payload[i].original \in existing
        /\ \A j \in DOMAIN payload \ {i} : payload[i].original # payload[j].original

ValidPayload(payload, existing) ==
    \A i \in DOMAIN payload : /\ CompleteRow(payload[i].row) /\ HasValidData(payload[i].row)
                              /\ DistinctCode(payload, i) /\ FreeCode(payload, i, existing)
                              /\ ShownOnce(payload, i, existing)

ShowTable(m) ==
    /\ saving[m].at = "idle"
    /\ saves < MaxSaves /\ saves' = saves + 1
    /\ saving' = [saving EXCEPT ![m] = [NoForm EXCEPT !.at = "shown", !.page = rows, !.id = saves + 1]]
    /\ UNCHANGED <<table, rows, discCodes, approving, meant, freed, reused, approvals>>

\* save_systems, save_lookup_table: the rows are read, the payload is
\* validated; errors are shown with the page.
PostTable(m, edit) ==
    LET payload == Payload(saving[m].page, edit) IN
    /\ saving[m].at = "shown"
    /\ saving' = [saving EXCEPT ![m] =
           IF ValidPayload(payload, Existing(rows))
           THEN [@ EXCEPT !.at = "write", !.page = payload, !.todo = payload, !.existing = rows]
           ELSE NoForm]
    /\ UNCHANGED <<table, rows, discCodes, approving, meant, freed, reused, saves, approvals>>

-----------------------------------------------------------------------------
(* The transaction. *)

Matches(row, existing) == existing.name = row.name /\ existing.data = row.data

\* system_save_action, lookup_save_action
SaveAction(p, existing) ==
    IF p.original = Absent \/ existing[p.original] = Absent THEN "insert"
    ELSE IF p.original # p.row.code THEN "rename"
    ELSE IF Matches(p.row, existing[p.original]) THEN "unchanged"
    ELSE "update"

Seen(m) == [c \in Codes |-> IF c \in DOMAIN saving[m].written THEN saving[m].written[c] ELSE rows[c]]

\* Another transaction has written the row, or a row with the same unique name.
Contended(m, c) == \E n \in Moderators \ {m} : c \in DOMAIN saving[n].written
NameContended(m, name) ==
    table = "regions" /\ \E n \in Moderators \ {m} : \E c \in DOMAIN saving[n].written :
        \E row \in {saving[n].written[c], rows[c]} \ {Absent} : row.name = name
NameTaken(m, c, name) ==
    table = "regions" /\ \E e \in Existing(Seen(m)) \ {c} : Seen(m)[e].name = name

Abort(m) == saving' = [saving EXCEPT ![m] = NoForm]
WithRow(form, c, row) ==
    [form EXCEPT !.written = [e \in DOMAIN @ \cup {c} |-> IF e = c THEN row ELSE @[e]]]
NextRow(form) == [form EXCEPT !.at = "write", !.todo = Tail(@)]

\* A row that is unchanged is left alone, one that is gone is not updated;
\* a code or name that is taken by now aborts the transaction.
WriteRow(m) ==
    LET form == saving[m]
        p == Head(form.todo)
        c == p.row.code
        action == SaveAction(p, form.existing)
        of == IF action = "insert" THEN <<"new", form.id>>
              ELSE IF action = "rename" THEN form.existing[p.original].of ELSE Seen(m)[c].of
        written == WithRow(form, c, [name |-> p.row.name, data |-> p.row.data, of |-> of])
    IN  /\ form.at = "write" /\ form.todo # <<>>
        /\ IF action = "unchanged" THEN saving' = [saving EXCEPT ![m] = NextRow(form)]
           ELSE /\ ~Contended(m, c) /\ ~NameContended(m, p.row.name)
                /\ CASE action = "update" /\ Seen(m)[c] = Absent -> saving' = [saving EXCEPT ![m] = NextRow(form)]
                     [] action # "update" /\ Seen(m)[c] # Absent -> Abort(m)
                     [] NameTaken(m, c, p.row.name) -> Abort(m)
                     [] OTHER -> saving' = [saving EXCEPT ![m] =
                           IF action = "rename" THEN [written EXCEPT !.at = "move"] ELSE NextRow(written)]
        /\ UNCHANGED <<table, rows, discCodes, approving, meant, freed, reused, saves, approvals>>

\* The discs that have the old code, once nobody else is writing their rows.
MoveDiscs(m) ==
    LET form == saving[m]
        p == Head(form.todo)
        having == {d \in Discs : p.original \in discCodes[d]}
    IN  /\ form.at = "move"
        /\ approving.disc \notin having
        /\ \A n \in Moderators \ {m}, d \in having : <<d, p.original>> \notin {<<v[1], v[2]>> : v \in saving[n].moved}
        /\ saving' = [saving EXCEPT ![m] = [form EXCEPT !.at = "delete",
               !.moved = form.moved \cup {<<d, p.original, p.row.code>> : d \in having}]]
        /\ UNCHANGED <<table, rows, discCodes, approving, meant, freed, reused, saves, approvals>>

\* Mutant: the deletion of a row takes the codes of the discs with it.
DeleteOldCascading(m) ==
    LET form == saving[m]
        c == Head(form.todo).original
        left == {d \in Discs : c \in discCodes[d] /\ \A v \in form.moved : v[1] # d \/ v[2] # c}
    IN  /\ form.at = "delete"
        /\ ~Contended(m, c) /\ c \notin approving.codes
        /\ saving' = [saving EXCEPT ![m] = NextRow(WithRow(form, c, Absent))]
        /\ discCodes' = [d \in Discs |-> IF d \in left THEN discCodes[d] \ {c} ELSE discCodes[d]]
        /\ UNCHANGED <<table, rows, approving, meant, freed, reused, saves, approvals>>

\* A disc that got the old code meanwhile keeps it from being deleted.
DeleteOld(m) ==
    LET form == saving[m]
        c == Head(form.todo).original
        left == {d \in Discs : c \in discCodes[d] /\ \A v \in form.moved : v[1] # d \/ v[2] # c}
    IN  /\ form.at = "delete"
        /\ ~Contended(m, c) /\ c \notin approving.codes /\ approving.disc \notin left
        /\ IF left # {} THEN Abort(m)
           ELSE saving' = [saving EXCEPT ![m] = NextRow(IF Seen(m)[c] = Absent THEN form ELSE WithRow(form, c, Absent))]
        /\ UNCHANGED <<table, rows, discCodes, approving, meant, freed, reused, saves, approvals>>

CommitSave(m) ==
    LET form == saving[m]
        given == {p \in ToSet(form.page) : SaveAction(p, form.existing) \in {"insert", "rename"}}
        moves(d) == {v \in form.moved : v[1] = d}
    IN  /\ form.at = "write" /\ form.todo = <<>>
        /\ rows' = Seen(m)
        /\ discCodes' = [d \in Discs |-> (discCodes[d] \ {v[2] : v \in moves(d)}) \cup {v[3] : v \in moves(d)}]
        /\ freed' = freed \cup {p.original : p \in {q \in given : q.original # Absent}}
        /\ reused' = (reused \/ {p.row.code : p \in given} \cap freed # {})
        /\ Abort(m)
        /\ UNCHANGED <<table, approving, meant, saves, approvals>>

FailSave(m) ==
    /\ approvals < MaxApprovals /\ approvals' = approvals + 1
    /\ saving[m].at \notin {"idle", "shown"}
    /\ Abort(m)
    /\ UNCHANGED <<table, rows, discCodes, approving, meant, freed, reused, saves>>

-----------------------------------------------------------------------------
(* An approval sets the codes of a disc. *)

\* Its rows are deleted, once nobody else is writing them, and inserted.  A
\* code must exist; one that is being deleted is waited for.
ApproveCodes(d, codes) ==
    /\ approvals < MaxApprovals /\ approvals' = approvals + 1
    /\ approving.at = "idle"
    /\ table = "systems" => Cardinality(codes) = 1
    /\ \A m \in Moderators : /\ \A v \in saving[m].moved : v[1] # d
                             /\ \A c \in codes \cap DOMAIN saving[m].written : saving[m].written[c] # Absent
    /\ codes \subseteq Existing(rows)
    /\ approving' = [at |-> "written", disc |-> d, codes |-> codes]
    /\ UNCHANGED <<table, rows, discCodes, saving, meant, freed, reused, saves>>

CommitCodes ==
    /\ approving.at = "written"
    /\ discCodes' = [discCodes EXCEPT ![approving.disc] = approving.codes]
    /\ meant' = [meant EXCEPT ![approving.disc] = {rows[c].of : c \in approving.codes}]
    /\ approving' = NotApproving
    /\ UNCHANGED <<table, rows, saving, freed, reused, saves, approvals>>

TablesNext ==
    \/ \E m \in Moderators : \/ ShowTable(m)
                             \/ \E edit \in Edits : PostTable(m, edit)
                             \/ WriteRow(m) \/ MoveDiscs(m) \/ DeleteOld(m) \/ CommitSave(m) \/ FailSave(m)
    \/ \E d \in Discs, codes \in SUBSET Codes : ApproveCodes(d, codes)
    \/ CommitCodes

TablesSpec == TablesInit /\ [][TablesNext]_tableVars

-----------------------------------------------------------------------------
(* Properties. *)

\* Whoever saves the table while others save it and submissions are approved,
\* the codes of a disc exist and stand for what they stood for when the disc
\* was written, as long as no code is given to something else.
DiscsKeepTheirRegions ==
    \A d \in Discs :
        /\ discCodes[d] \subseteq Existing(rows)
        /\ ~reused => {rows[c].of : c \in discCodes[d]} = meant[d]
=============================================================================
