------------------------------- MODULE CueSheet -------------------------------
(***************************************************************************)
(* Cue sheets: the validator, which reads a sheet line by line             *)
(* (src/src/services/validation.rs), the rewriting of an accepted sheet    *)
(* for the form and for the disc (src/src/db/models.rs), and the readers   *)
(* of the disc page (src/src/routes/disc_view.rs).                         *)
(*                                                                         *)
(* A line is a keyword with a number and a time or mode: the lines that    *)
(* the validator tells apart.  LEAD stands for REM LEAD-IN, LEAD-OUT,      *)
(* PREGAP and POSTGAP, DETAIL for FLAGS and ISRC, TEXT for TITLE,          *)
(* PERFORMER and SONGWRITER, OTHER for a line with a syntax error.         *)
(***************************************************************************)
EXTENDS Listings, Sequences, SequencesExt

CONSTANTS
    CueLines,      \* lines: [k, n, t]
    MaxLines       \* bound: the lines of a sheet

ASSUME CueSheetAssumption ==
    /\ \A l \in CueLines : /\ l.k \in {"FILE", "TRACK", "INDEX", "CATALOG", "DETAIL", "TEXT", "SESSION", "LEAD", "OTHER"}
                           /\ l.n \in Nat
                           /\ l.k = "INDEX" => l.t \in {"zero", "time", "bad"}
    /\ MaxLines \in Nat

VARIABLES
    lines,         \* the lines read
    scan           \* what the validator remembers of them

cueVars == <<lines, scan>>

-----------------------------------------------------------------------------
(* The validator. *)

\* A FILE or a TRACK begins without a gap to close and without INDEXes.
Begun(file, track, count) ==
    [ok |-> TRUE, file |-> file, track |-> track, gap |-> FALSE, index01 |-> FALSE, last |-> 0, count |-> count]

\* No line has been read: no FILE and no TRACK.
Unread == Begun(FALSE, FALSE, 0)

Reject(s) == [s EXCEPT !.ok = FALSE]

\* The last TRACK before a FILE must have its INDEX 01.
ScanFile(s) ==
    IF s.file /\ ~s.index01 THEN Reject(s)
    ELSE Begun(TRUE, FALSE, s.count)

\* Mutant: a TRACK begins with the INDEX 01 of the one before.
ScanTrackKeepingIndex(s, n) ==
    IF s.count + 1 # n \/ ~s.file \/ (s.track /\ ~s.index01) THEN Reject(s)
    ELSE [s EXCEPT !.track = TRUE, !.count = n, !.gap = FALSE]

\* Tracks are numbered from 1; a TRACK has a FILE, and an INDEX 01 before the next.
ScanTrack(s, n) ==
    IF s.count + 1 # n \/ ~s.file \/ (s.track /\ ~s.index01) THEN Reject(s)
    ELSE Begun(TRUE, TRUE, n)

ScanCatalog(s) == IF s.file THEN Reject(s) ELSE s

\* FLAGS and ISRC come between a TRACK and its INDEXes.
ScanDetail(s) == IF s.track /\ ~s.gap /\ ~s.index01 THEN s ELSE Reject(s)

\* INDEX 00 opens a gap at the start of the file,
ScanGap(s, t) ==
    IF ~s.track \/ t # "zero" \/ s.gap \/ s.index01 THEN Reject(s) ELSE [s EXCEPT !.gap = TRUE]

\* INDEX 01 closes it, or is at the start itself;
ScanStart(s, t) ==
    IF ~s.track \/ t = "bad" \/ (t = "zero" /\ s.gap) \/ (t = "time" /\ ~s.gap) THEN Reject(s)
    ELSE [s EXCEPT !.gap = FALSE, !.index01 = TRUE, !.last = 1]

\* the others follow in order.
ScanIndex(s, n, t) ==
    IF ~s.track \/ ~s.index01 \/ n # s.last + 1 \/ t = "bad" THEN Reject(s) ELSE [s EXCEPT !.last = n]

ScanLine(s, l) ==
    CASE l.k = "FILE" -> ScanFile(s)
      [] l.k = "TRACK" -> ScanTrack(s, l.n)
      [] l.k = "CATALOG" -> ScanCatalog(s)
      [] l.k = "DETAIL" -> ScanDetail(s)
      [] l.k = "INDEX" /\ l.n = 0 -> ScanGap(s, l.t)
      [] l.k = "INDEX" /\ l.n = 1 -> ScanStart(s, l.t)
      [] l.k = "INDEX" /\ l.n > 1 -> ScanIndex(s, l.n, l.t)
      [] l.k \in {"SESSION", "LEAD", "TEXT"} -> s
      [] l.k = "OTHER" -> Reject(s)

-----------------------------------------------------------------------------
(* A sheet is rewritten when it is posted (simplify_cue) and when the disc *)
(* is stored (finalize_cue).                                               *)

Kept(sheet) ==
    LET stay == Ascending({i \in DOMAIN sheet : sheet[i].k # "LEAD"})
    IN  [i \in DOMAIN stay |-> sheet[stay[i]]]

TrackCount(sheet) == Cardinality({i \in DOMAIN sheet : sheet[i].k = "TRACK"})

\* A FILE is named after the TRACK that comes next, 0 if none does.
NextTrack(sheet, i) ==
    LET after == {j \in DOMAIN sheet : j > i /\ sheet[j].k = "TRACK"}
    IN  IF after = {} THEN 0 ELSE sheet[CHOOSE j \in after : \A k \in after : j <= k].n

FileNumbers(sheet) ==
    LET files == Ascending({i \in DOMAIN sheet : sheet[i].k = "FILE"})
    IN  [f \in DOMAIN files |-> NextTrack(sheet, files[f])]

-----------------------------------------------------------------------------
(* The readers of the disc page and of the log parser. *)

Before(sheet, i, kinds) == {j \in 1 .. i - 1 : sheet[j].k \in kinds}
LastOf(positions) == CHOOSE j \in positions : \A k \in positions : k <= j

TrackLines(sheet) == Ascending({i \in DOMAIN sheet : sheet[i].k = "TRACK"})

\* The session that a line is in, 1 if no SESSION is before it.
SessionAt(sheet, i) ==
    LET marks == Before(sheet, i, {"SESSION"}) IN IF marks = {} THEN 1 ELSE sheet[LastOf(marks)].n

\* The INDEXes from the f-th TRACK to the next,
OwnIndexes(sheet, f) ==
    LET tracks == TrackLines(sheet)
    IN  {j \in DOMAIN sheet : sheet[j].k = "INDEX" /\ j > tracks[f] /\ (f < Len(tracks) => j < tracks[f + 1])}

\* the time of the last INDEX 01 of them, and the highest.
StartIn(sheet, own) ==
    LET starts == {j \in own : sheet[j].n = 1} IN IF starts = {} THEN "none" ELSE sheet[LastOf(starts)].t
HighestIn(sheet, own) == IF own = {} THEN 0 ELSE LastOf({sheet[j].n : j \in own})

\* parse_cue_tracks_with_sessions: the tracks in order, each with its session,
\* the time of its INDEX 01 and its highest INDEX.
PageTracks(sheet) ==
    LET tracks == TrackLines(sheet)
    IN  [f \in DOMAIN tracks |->
            [number |-> sheet[tracks[f]].n, mode |-> sheet[tracks[f]].t,
             session |-> SessionAt(sheet, tracks[f]),
             start |-> StartIn(sheet, OwnIndexes(sheet, f)),
             highest |-> HighestIn(sheet, OwnIndexes(sheet, f))]]

-----------------------------------------------------------------------------
(* A sheet is read. *)

CueInit == lines = <<>> /\ scan = Unread

ReadLine(l) ==
    /\ scan.ok /\ Len(lines) < MaxLines
    /\ lines' = Append(lines, l)
    /\ scan' = ScanLine(scan, l)

CueNext == \E l \in CueLines : ReadLine(l)

CueSpec == CueInit /\ [][CueNext]_cueVars

-----------------------------------------------------------------------------
(* Properties. *)

\* The FILE or TRACK that a line is in, 0 if none, and the INDEXes it has before
\* that line.
Opened(sheet, i) ==
    LET opening == Before(sheet, i, {"FILE", "TRACK"}) IN IF opening = {} THEN 0 ELSE LastOf(opening)
InTrack(sheet, i) == Opened(sheet, i) # 0 /\ sheet[Opened(sheet, i)].k = "TRACK"
Indexes(sheet, i) == {j \in Before(sheet, i, {"INDEX"}) : j > Opened(sheet, i)}
HasIndex(sheet, i, n) == \E j \in Indexes(sheet, i) : sheet[j].n = n
InGap(sheet, i) == HasIndex(sheet, i, 0) /\ ~HasIndex(sheet, i, 1)

\* What a cue sheet is, without reading it in order: what must be among the
\* lines before the i-th for l to be there.  A track is from its TRACK to the
\* next TRACK or FILE; of its INDEXes each follows the one with the number before.
Fits(sheet, i, l) ==
    CASE l.k = "FILE" -> Before(sheet, i, {"FILE"}) = {} \/ HasIndex(sheet, i, 1)
      [] l.k = "TRACK" -> /\ Opened(sheet, i) # 0
                          /\ InTrack(sheet, i) => HasIndex(sheet, i, 1)
                          /\ l.n = Cardinality(Before(sheet, i, {"TRACK"})) + 1
      [] l.k = "CATALOG" -> Before(sheet, i, {"FILE"}) = {}
      [] l.k = "DETAIL" -> InTrack(sheet, i) /\ Indexes(sheet, i) = {}
      [] l.k = "INDEX" /\ l.n = 0 -> InTrack(sheet, i) /\ Indexes(sheet, i) = {} /\ l.t = "zero"
      [] l.k = "INDEX" /\ l.n = 1 -> InTrack(sheet, i) /\ l.t = (IF InGap(sheet, i) THEN "time" ELSE "zero")
      [] l.k = "INDEX" /\ l.n > 1 -> /\ HasIndex(sheet, i, 1) /\ l.t # "bad"
                                     /\ sheet[LastOf(Indexes(sheet, i))].n = l.n - 1
      [] OTHER -> l.k # "OTHER"

IsCueSheet(sheet) == \A i \in DOMAIN sheet : Fits(sheet, i, sheet[i])

\* The validator accepts what is a cue sheet and nothing else.  An accepted
\* sheet is accepted again once it is rewritten, and the page then shows the
\* same tracks, numbered from 1; FILEs with tracks have names of their own.
AcceptedCueIsReadAlike ==
    /\ scan.ok <=> IsCueSheet(lines)
    /\ scan.ok =>
         LET tracks == PageTracks(lines)
             numbers == FileNumbers(lines)
         IN  /\ IsCueSheet(Kept(lines)) /\ PageTracks(Kept(lines)) = tracks
             /\ \A i \in DOMAIN tracks : tracks[i].number = i
             /\ \A i, j \in DOMAIN numbers : i < j /\ numbers[j] # 0 => numbers[i] < numbers[j]
=============================================================================
