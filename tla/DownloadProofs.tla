---------------------------- MODULE DownloadProofs ----------------------------
(***************************************************************************)
(* What visitors download: cue sheets, the files of discs and the export   *)
(* of the database.                                                        *)
(*                                                                         *)
(* CueSheet: SheetInv is inductive.  What the validator remembers of the   *)
(* lines it has read decides if a line fits among them, so that it accepts *)
(* the cue sheets, of any length, and nothing else.  The rewritten sheet   *)
(* has the lines that matter in their order and is read alike.             *)
(*                                                                         *)
(* DiscFiles: FormsInv is inductive.  What is stored and what waits is in  *)
(* the form that all readers expect, whatever was posted and in whatever   *)
(* order, so that a form shows what it stores and the downloads agree.     *)
(*                                                                         *)
(* DatabaseExport: ExportInv is inductive.  The export is one state of the *)
(* catalogue and downloads are whole, for any number of discs, visitors,   *)
(* exports, commits and failures.                                          *)
(***************************************************************************)
EXTENDS DiscFiles, DatabaseExport, ListingProofs

-----------------------------------------------------------------------------
(* Cue sheets are read.                                                    *)

Sheets == Seq(CueLines)

Scans ==
    [ok : BOOLEAN, file : BOOLEAN, track : BOOLEAN, gap : BOOLEAN, index01 : BOOLEAN, last : Nat, count : Nat]

\* What the validator remembers is so.
ScanStands(sheet, s) ==
    LET i == Len(sheet) + 1 IN
    /\ s.file <=> Before(sheet, i, {"FILE"}) # {}
    /\ s.file <=> Opened(sheet, i) # 0
    /\ s.track <=> InTrack(sheet, i)
    /\ s.index01 <=> HasIndex(sheet, i, 1)
    /\ s.gap <=> InGap(sheet, i)
    /\ s.gap \/ s.index01 <=> Indexes(sheet, i) # {}
    /\ Indexes(sheet, i) # {} => InTrack(sheet, i)
    /\ s.index01 => s.last = sheet[LastOf(Indexes(sheet, i))].n
    /\ s.count = Cardinality(Before(sheet, i, {"TRACK"}))

LEMMA LineType ==
    ASSUME NEW l \in CueLines
    PROVE  /\ l.k \in {"FILE", "TRACK", "INDEX", "CATALOG", "DETAIL", "TEXT", "SESSION", "LEAD", "OTHER"}
           /\ l.n \in Nat
           /\ l.k = "INDEX" => l.t \in {"zero", "time", "bad"}
    BY CueSheetAssumption

LEMMA LastIs ==
    ASSUME NEW S \in SUBSET Nat, NEW x \in S, \A j \in S : j <= x
    PROVE  LastOf(S) = x
<1>1. \A y \in S : (\A j \in S : j <= y) => y = x
    OBVIOUS
<1> QED BY <1>1 DEF LastOf

LEMMA LastIn ==
    ASSUME NEW n \in Nat, NEW S \in SUBSET (1 .. n), S # {}
    PROVE  LastOf(S) \in S /\ \A j \in S : j <= LastOf(S)
<1>1. IsFiniteSet(1 .. n)
    BY FS_Interval
<1>2. IsFiniteSet(S)
    BY <1>1, FS_Subset
<1>3. \E x \in S : \A j \in S : j <= x
  <2>1. S \in SUBSET Nat
      OBVIOUS
  <2> QED BY <1>2, <2>1, GreatestNumber
<1> QED BY <1>3 DEF LastOf

LEMMA Placed ==
    ASSUME NEW sheet \in Sheets, NEW i \in 1 .. Len(sheet) + 1
    PROVE  /\ Opened(sheet, i) \in 0 .. i - 1
           /\ Opened(sheet, i) # 0 =>
                 /\ sheet[Opened(sheet, i)].k \in {"FILE", "TRACK"}
                 /\ \A j \in Before(sheet, i, {"FILE", "TRACK"}) : j <= Opened(sheet, i)
           /\ Opened(sheet, i) = 0 => Before(sheet, i, {"FILE", "TRACK"}) = {}
           /\ Indexes(sheet, i) \subseteq 1 .. i - 1
<1> DEFINE opening == Before(sheet, i, {"FILE", "TRACK"})
<1>1. i - 1 \in Nat /\ opening \in SUBSET (1 .. i - 1)
    BY DEF Sheets, Before
<1>2. \A j \in opening : sheet[j].k \in {"FILE", "TRACK"}
    BY DEF Before
<1>3. Opened(sheet, i) = IF opening = {} THEN 0 ELSE LastOf(opening)
    BY DEF Opened
<1>4. Indexes(sheet, i) \subseteq 1 .. i - 1
    BY DEF Indexes, Before
<1> HIDE DEF opening
<1>5. CASE opening = {}
    BY <1>1, <1>3, <1>4, <1>5 DEF opening
<1>6. CASE opening # {}
  <2>1. LastOf(opening) \in opening /\ \A j \in opening : j <= LastOf(opening)
      BY <1>1, <1>6, LastIn
  <2> QED BY <1>1, <1>2, <1>3, <1>4, <1>6, <2>1 DEF opening
<1> QED BY <1>5, <1>6

-----------------------------------------------------------------------------
(* A line more.                                                            *)

LEMMA LineAppended ==
    ASSUME NEW sheet \in Sheets, NEW l \in CueLines
    PROVE  /\ Append(sheet, l) \in Sheets /\ Len(Append(sheet, l)) = Len(sheet) + 1 /\ Len(sheet) \in Nat
           /\ Append(sheet, l)[Len(sheet) + 1] = l
           /\ \A i \in 1 .. Len(sheet) : Append(sheet, l)[i] = sheet[i]
    BY DEF Sheets

\* The lines there were are where they were.
LEMMA SameBefore ==
    ASSUME NEW sheet \in Sheets, NEW l \in CueLines, NEW i \in 1 .. Len(sheet) + 1
    PROVE  /\ \A kinds : Before(Append(sheet, l), i, kinds) = Before(sheet, i, kinds)
           /\ Opened(Append(sheet, l), i) = Opened(sheet, i)
           /\ InTrack(Append(sheet, l), i) = InTrack(sheet, i)
           /\ Indexes(Append(sheet, l), i) = Indexes(sheet, i)
           /\ \A n : HasIndex(Append(sheet, l), i, n) = HasIndex(sheet, i, n)
           /\ InGap(Append(sheet, l), i) = InGap(sheet, i)
           /\ LastOf(Indexes(sheet, i)) = LastOf(Indexes(Append(sheet, l), i))
           /\ Indexes(sheet, i) # {} => Append(sheet, l)[LastOf(Indexes(sheet, i))] = sheet[LastOf(Indexes(sheet, i))]
<1> DEFINE longer == Append(sheet, l)
<1>1. Len(sheet) \in Nat /\ \A j \in 1 .. i - 1 : longer[j] = sheet[j]
    BY LineAppended
<1> HIDE DEF longer
<1>2. \A kinds : Before(longer, i, kinds) = Before(sheet, i, kinds)
    BY <1>1 DEF Before
<1>3. Opened(longer, i) = Opened(sheet, i)
    BY <1>2 DEF Opened
<1>4. InTrack(longer, i) = InTrack(sheet, i)
    BY <1>1, <1>3, Placed DEF InTrack
<1>5. Indexes(longer, i) = Indexes(sheet, i)
    BY <1>2, <1>3 DEF Indexes
<1>6. \A n : HasIndex(longer, i, n) = HasIndex(sheet, i, n)
    BY <1>1, <1>5, Placed DEF HasIndex
<1>7. InGap(longer, i) = InGap(sheet, i)
    BY <1>6 DEF InGap
<1>8. ASSUME Indexes(sheet, i) # {} PROVE longer[LastOf(Indexes(sheet, i))] = sheet[LastOf(Indexes(sheet, i))]
  <2>1. Indexes(sheet, i) \in SUBSET (1 .. i - 1) /\ i - 1 \in Nat
      BY <1>1, Placed
  <2>2. LastOf(Indexes(sheet, i)) \in 1 .. i - 1
      BY <1>8, <2>1, LastIn
  <2> QED BY <1>1, <2>2
<1> QED BY <1>2, <1>3, <1>4, <1>5, <1>6, <1>7, <1>8 DEF longer

\* The new line is before the next.
LEMMA NextBefore ==
    ASSUME NEW sheet \in Sheets, NEW l \in CueLines
    PROVE  LET longer == Append(sheet, l)
               i == Len(sheet) + 1
           IN  /\ \A kinds : Before(longer, i + 1, kinds) = Before(sheet, i, kinds) \cup (IF l.k \in kinds THEN {i} ELSE {})
               /\ Opened(longer, i + 1) = IF l.k \in {"FILE", "TRACK"} THEN i ELSE Opened(sheet, i)
               /\ InTrack(longer, i + 1) <=> l.k = "TRACK" \/ (l.k # "FILE" /\ InTrack(sheet, i))
               /\ Indexes(longer, i + 1) = IF l.k \in {"FILE", "TRACK"} THEN {}
                                           ELSE IF l.k = "INDEX" THEN Indexes(sheet, i) \cup {i}
                                           ELSE Indexes(sheet, i)
               /\ \A n : HasIndex(longer, i + 1, n) <=>
                            /\ l.k \notin {"FILE", "TRACK"}
                            /\ HasIndex(sheet, i, n) \/ (l.k = "INDEX" /\ l.n = n)
<1> DEFINE longer == Append(sheet, l)
           i == Len(sheet) + 1
<1>1. i \in Nat /\ i \in 1 .. Len(sheet) + 1 /\ longer[i] = l /\ \A j \in 1 .. i - 1 : longer[j] = sheet[j]
    BY LineAppended
<1> HIDE DEF longer, i
<1>2. \A kinds : Before(longer, i + 1, kinds) = Before(sheet, i, kinds) \cup (IF l.k \in kinds THEN {i} ELSE {})
    BY <1>1 DEF Before
<1>3. Opened(longer, i + 1) = IF l.k \in {"FILE", "TRACK"} THEN i ELSE Opened(sheet, i)
  <2>1. CASE l.k \in {"FILE", "TRACK"}
    <3> DEFINE opening == Before(longer, i + 1, {"FILE", "TRACK"})
    <3>1. opening \in SUBSET Nat /\ i \in opening /\ \A j \in opening : j <= i
        BY <1>1, <1>2, <2>1 DEF Before
    <3>2. LastOf(opening) = i
      <4> HIDE DEF opening
      <4> QED BY <3>1, LastIs
    <3> QED BY <2>1, <3>1, <3>2 DEF Opened
  <2>2. CASE l.k \notin {"FILE", "TRACK"}
      BY <1>2, <2>2 DEF Opened
  <2> QED BY <2>1, <2>2
<1>4. Opened(sheet, i) \in 0 .. i - 1
    BY <1>1, Placed
<1>5. InTrack(longer, i + 1) <=> l.k = "TRACK" \/ (l.k # "FILE" /\ InTrack(sheet, i))
    BY <1>1, <1>3, <1>4 DEF InTrack
<1>6. Indexes(longer, i + 1) = IF l.k \in {"FILE", "TRACK"} THEN {}
                               ELSE IF l.k = "INDEX" THEN Indexes(sheet, i) \cup {i}
                               ELSE Indexes(sheet, i)
  <2>1. CASE l.k \in {"FILE", "TRACK"}
      BY <1>1, <1>3, <2>1 DEF Indexes, Before
  <2>2. CASE l.k \notin {"FILE", "TRACK"}
      BY <1>1, <1>2, <1>3, <1>4, <2>2 DEF Indexes
  <2> QED BY <2>1, <2>2
<1>7. \A j \in Indexes(sheet, i) : longer[j] = sheet[j]
    BY <1>1, Placed
<1>8. \A n : HasIndex(longer, i + 1, n) <=>
                /\ l.k \notin {"FILE", "TRACK"}
                /\ HasIndex(sheet, i, n) \/ (l.k = "INDEX" /\ l.n = n)
    BY <1>1, <1>6, <1>7 DEF HasIndex
<1> QED BY <1>2, <1>3, <1>5, <1>6, <1>8 DEF longer, i

\* What fits there depends on the lines before it alone.
LEMMA FitsAsBefore ==
    ASSUME NEW sheet \in Sheets, NEW l \in CueLines, NEW i \in 1 .. Len(sheet) + 1, NEW m \in CueLines
    PROVE  Fits(Append(sheet, l), i, m) <=> Fits(sheet, i, m)
<1> DEFINE longer == Append(sheet, l)
<1>1. /\ \A kinds : Before(longer, i, kinds) = Before(sheet, i, kinds)
      /\ Opened(longer, i) = Opened(sheet, i)
      /\ InTrack(longer, i) = InTrack(sheet, i)
      /\ Indexes(longer, i) = Indexes(sheet, i)
      /\ \A n : HasIndex(longer, i, n) = HasIndex(sheet, i, n)
      /\ InGap(longer, i) = InGap(sheet, i)
      /\ Indexes(sheet, i) # {} => longer[LastOf(Indexes(sheet, i))] = sheet[LastOf(Indexes(sheet, i))]
    BY SameBefore
<1>2. \A n : HasIndex(sheet, i, n) => Indexes(sheet, i) # {}
    BY DEF HasIndex
<1> HIDE DEF longer
<1>3. Fits(longer, i, m) <=> Fits(sheet, i, m)
    BY <1>1, <1>2 DEF Fits
<1> QED BY <1>3 DEF longer

\* A sheet with a line more is a cue sheet if it was one and the line fits.
LEMMA LongerSheet ==
    ASSUME NEW sheet \in Sheets, NEW l \in CueLines
    PROVE  IsCueSheet(Append(sheet, l)) <=> IsCueSheet(sheet) /\ Fits(sheet, Len(sheet) + 1, l)
<1> DEFINE longer == Append(sheet, l)
<1>1. /\ Len(sheet) \in Nat /\ DOMAIN sheet = 1 .. Len(sheet) /\ DOMAIN longer = 1 .. Len(sheet) + 1
      /\ longer[Len(sheet) + 1] = l
      /\ \A i \in 1 .. Len(sheet) : longer[i] = sheet[i] /\ sheet[i] \in CueLines
    BY DEF Sheets
<1>2. \A i \in 1 .. Len(sheet) + 1 : \A m \in CueLines : Fits(longer, i, m) <=> Fits(sheet, i, m)
    BY FitsAsBefore
<1> HIDE DEF longer
<1>3. ASSUME NEW i \in 1 .. Len(sheet) PROVE Fits(longer, i, longer[i]) <=> Fits(sheet, i, sheet[i])
    BY <1>1, <1>2
<1>4. Fits(longer, Len(sheet) + 1, l) <=> Fits(sheet, Len(sheet) + 1, l)
    BY <1>1, <1>2
<1>5. 1 .. Len(sheet) + 1 = (1 .. Len(sheet)) \cup {Len(sheet) + 1}
    BY <1>1
<1>6. IsCueSheet(longer) <=> IsCueSheet(sheet) /\ Fits(sheet, Len(sheet) + 1, l)
    BY <1>1, <1>3, <1>4, <1>5 DEF IsCueSheet
<1> QED BY <1>6 DEF longer

-----------------------------------------------------------------------------
(* The validator reads a line.                                             *)

\* What is remembered of the lines before is what decides if the line fits.
LEMMA ScanFits ==
    ASSUME NEW sheet \in Sheets, NEW s \in Scans, s.ok, ScanStands(sheet, s), NEW l \in CueLines
    PROVE  ScanLine(s, l) \in Scans /\ (ScanLine(s, l).ok <=> Fits(sheet, Len(sheet) + 1, l))
<1> DEFINE i == Len(sheet) + 1
<1>1. /\ l.k \in {"FILE", "TRACK", "INDEX", "CATALOG", "DETAIL", "TEXT", "SESSION", "LEAD", "OTHER"}
      /\ l.n \in Nat
      /\ l.k = "INDEX" => l.t \in {"zero", "time", "bad"}
    BY LineType
<1>2. s.count = Cardinality(Before(sheet, i, {"TRACK"})) /\ s.count \in Nat /\ s.last \in Nat
    BY DEF ScanStands, Scans
<1>3. /\ s.file <=> Before(sheet, i, {"FILE"}) # {}
      /\ s.file <=> Opened(sheet, i) # 0
      /\ s.track <=> InTrack(sheet, i)
      /\ s.index01 <=> HasIndex(sheet, i, 1)
      /\ s.gap <=> InGap(sheet, i)
      /\ s.gap \/ s.index01 <=> Indexes(sheet, i) # {}
      /\ Indexes(sheet, i) # {} => InTrack(sheet, i)
      /\ s.index01 => s.last = sheet[LastOf(Indexes(sheet, i))].n
    BY DEF ScanStands
<1> HIDE DEF i
<1>4. CASE l.k = "FILE"
  <2>1. ScanLine(s, l) = ScanFile(s)
      BY <1>4 DEF ScanLine
  <2>2. Fits(sheet, i, l) <=> Before(sheet, i, {"FILE"}) = {} \/ HasIndex(sheet, i, 1)
      BY <1>4 DEF Fits
  <2>3. ScanFile(s) \in Scans /\ (ScanFile(s).ok <=> ~(s.file /\ ~s.index01))
      BY DEF ScanFile, Reject, Begun, Scans
  <2> QED BY <1>3, <2>1, <2>2, <2>3 DEF i
<1>5. CASE l.k = "TRACK"
  <2>1. ScanLine(s, l) = ScanTrack(s, l.n)
      BY <1>5 DEF ScanLine
  <2>2. Fits(sheet, i, l) <=> /\ Opened(sheet, i) # 0
                              /\ InTrack(sheet, i) => HasIndex(sheet, i, 1)
                              /\ l.n = Cardinality(Before(sheet, i, {"TRACK"})) + 1
      BY <1>5 DEF Fits
  <2>3. ScanTrack(s, l.n) \in Scans /\ (ScanTrack(s, l.n).ok <=> s.count + 1 = l.n /\ s.file /\ (s.track => s.index01))
      BY <1>1 DEF ScanTrack, Reject, Begun, Scans
  <2> QED BY <1>2, <1>3, <2>1, <2>2, <2>3 DEF i
<1>6. CASE l.k = "CATALOG"
  <2>1. ScanLine(s, l) = ScanCatalog(s)
      BY <1>6 DEF ScanLine
  <2>2. Fits(sheet, i, l) <=> Before(sheet, i, {"FILE"}) = {}
      BY <1>6 DEF Fits
  <2> QED BY <1>2, <1>3, <2>1, <2>2 DEF i, ScanCatalog, Reject, Scans
<1>7. CASE l.k = "DETAIL"
  <2>1. ScanLine(s, l) = ScanDetail(s)
      BY <1>7 DEF ScanLine
  <2>2. Fits(sheet, i, l) <=> InTrack(sheet, i) /\ Indexes(sheet, i) = {}
      BY <1>7 DEF Fits
  <2> QED BY <1>2, <1>3, <2>1, <2>2 DEF i, ScanDetail, Reject, Scans
<1>8. CASE l.k = "INDEX" /\ l.n = 0
  <2>1. ScanLine(s, l) = ScanGap(s, l.t)
      BY <1>8 DEF ScanLine
  <2>2. Fits(sheet, i, l) <=> InTrack(sheet, i) /\ Indexes(sheet, i) = {} /\ l.t = "zero"
      BY <1>8 DEF Fits
  <2> QED BY <1>2, <1>3, <2>1, <2>2 DEF i, ScanGap, Reject, Scans
<1>9. CASE l.k = "INDEX" /\ l.n = 1
  <2>1. ScanLine(s, l) = ScanStart(s, l.t)
      BY <1>9 DEF ScanLine
  <2>2. Fits(sheet, i, l) <=> InTrack(sheet, i) /\ l.t = (IF InGap(sheet, i) THEN "time" ELSE "zero")
      BY <1>9 DEF Fits
  <2> QED BY <1>1, <1>2, <1>3, <1>9, <2>1, <2>2 DEF i, ScanStart, Reject, Scans
<1>10. CASE l.k = "INDEX" /\ l.n > 1
  <2>1. ScanLine(s, l) = ScanIndex(s, l.n, l.t)
      BY <1>10 DEF ScanLine
  <2>2. Fits(sheet, i, l) <=> /\ HasIndex(sheet, i, 1) /\ l.t # "bad"
                              /\ sheet[LastOf(Indexes(sheet, i))].n = l.n - 1
      BY <1>10 DEF Fits
  <2>3. s.index01 => s.track
      BY <1>3
  <2>4. Fits(sheet, i, l) <=> s.track /\ s.index01 /\ l.n = s.last + 1 /\ l.t # "bad"
      BY <1>1, <1>2, <1>3, <2>2, <2>3
  <2>5. ScanIndex(s, l.n, l.t) \in Scans /\ (ScanIndex(s, l.n, l.t).ok <=> s.track /\ s.index01 /\ l.n = s.last + 1 /\ l.t # "bad")
      BY <1>1 DEF ScanIndex, Reject, Scans
  <2> QED BY <2>1, <2>4, <2>5 DEF i
<1>11. CASE l.k \in {"SESSION", "LEAD", "TEXT"}
  <2>1. ScanLine(s, l) = s
      BY <1>11 DEF ScanLine
  <2>2. Fits(sheet, i, l)
      BY <1>11 DEF Fits
  <2> QED BY <2>1, <2>2 DEF i
<1>12. CASE l.k = "OTHER"
  <2>1. ScanLine(s, l) = Reject(s)
      BY <1>12 DEF ScanLine
  <2>2. ~Fits(sheet, i, l)
      BY <1>12 DEF Fits
  <2> QED BY <2>1, <2>2 DEF i, Reject, Scans
<1> QED BY <1>1, <1>4, <1>5, <1>6, <1>7, <1>8, <1>9, <1>10, <1>11, <1>12

\* What is remembered then is so of the line too.
LEMMA ScanStandsLonger ==
    ASSUME NEW sheet \in Sheets, NEW s \in Scans, s.ok, ScanStands(sheet, s), NEW l \in CueLines, ScanLine(s, l).ok
    PROVE  ScanStands(Append(sheet, l), ScanLine(s, l))
<1> DEFINE i == Len(sheet) + 1
           longer == Append(sheet, l)
           t == ScanLine(s, l)
<1>1. /\ l.k \in {"FILE", "TRACK", "INDEX", "CATALOG", "DETAIL", "TEXT", "SESSION", "LEAD", "OTHER"}
      /\ l.n \in Nat
      /\ l.k = "INDEX" => l.t \in {"zero", "time", "bad"}
    BY LineType
<1>2. s.count = Cardinality(Before(sheet, i, {"TRACK"})) /\ s.count \in Nat /\ s.last \in Nat
    BY DEF ScanStands, Scans
<1>3. /\ s.file <=> Before(sheet, i, {"FILE"}) # {}
      /\ s.file <=> Opened(sheet, i) # 0
      /\ s.track <=> InTrack(sheet, i)
      /\ s.index01 <=> HasIndex(sheet, i, 1)
      /\ s.gap <=> InGap(sheet, i)
      /\ s.gap \/ s.index01 <=> Indexes(sheet, i) # {}
      /\ Indexes(sheet, i) # {} => InTrack(sheet, i)
      /\ s.index01 => s.last = sheet[LastOf(Indexes(sheet, i))].n
    BY DEF ScanStands
<1>4. Len(longer) + 1 = i + 1 /\ i \in Nat \ {0}
    BY LineAppended
<1>5. /\ \A kinds : Before(longer, i + 1, kinds) = Before(sheet, i, kinds) \cup (IF l.k \in kinds THEN {i} ELSE {})
      /\ Opened(longer, i + 1) = IF l.k \in {"FILE", "TRACK"} THEN i ELSE Opened(sheet, i)
      /\ InTrack(longer, i + 1) <=> l.k = "TRACK" \/ (l.k # "FILE" /\ InTrack(sheet, i))
      /\ Indexes(longer, i + 1) = IF l.k \in {"FILE", "TRACK"} THEN {}
                                  ELSE IF l.k = "INDEX" THEN Indexes(sheet, i) \cup {i}
                                  ELSE Indexes(sheet, i)
      /\ \A n : HasIndex(longer, i + 1, n) <=>
                   /\ l.k \notin {"FILE", "TRACK"}
                   /\ HasIndex(sheet, i, n) \/ (l.k = "INDEX" /\ l.n = n)
    BY NextBefore
<1>6. InGap(longer, i + 1) <=> HasIndex(longer, i + 1, 0) /\ ~HasIndex(longer, i + 1, 1)
    BY DEF InGap
<1>7. InGap(sheet, i) <=> HasIndex(sheet, i, 0) /\ ~HasIndex(sheet, i, 1)
    BY DEF InGap
<1>13. /\ Before(longer, i + 1, {"FILE"}) # {} <=> Before(sheet, i, {"FILE"}) # {} \/ l.k = "FILE"
       /\ HasIndex(longer, i + 1, 0) <=> l.k \notin {"FILE", "TRACK"} /\ (HasIndex(sheet, i, 0) \/ (l.k = "INDEX" /\ l.n = 0))
       /\ HasIndex(longer, i + 1, 1) <=> l.k \notin {"FILE", "TRACK"} /\ (HasIndex(sheet, i, 1) \/ (l.k = "INDEX" /\ l.n = 1))
       /\ InTrack(longer, i + 1) <=> l.k = "TRACK" \/ (l.k # "FILE" /\ InTrack(sheet, i))
       /\ Opened(longer, i + 1) = IF l.k \in {"FILE", "TRACK"} THEN i ELSE Opened(sheet, i)
       /\ Indexes(longer, i + 1) # {} <=> l.k \notin {"FILE", "TRACK"} /\ (l.k = "INDEX" \/ Indexes(sheet, i) # {})
  <2> HIDE DEF i, longer
  <2> QED BY <1>4, <1>5
\* It is enough to say so of the lines before the next.
<1>14. SUFFICES /\ t.file <=> Before(longer, i + 1, {"FILE"}) # {}
                /\ t.file <=> Opened(longer, i + 1) # 0
                /\ t.track <=> InTrack(longer, i + 1)
                /\ t.index01 <=> HasIndex(longer, i + 1, 1)
                /\ t.gap <=> InGap(longer, i + 1)
                /\ t.gap \/ t.index01 <=> Indexes(longer, i + 1) # {}
                /\ Indexes(longer, i + 1) # {} => InTrack(longer, i + 1)
                /\ t.index01 => t.last = longer[LastOf(Indexes(longer, i + 1))].n
                /\ t.count = Cardinality(Before(longer, i + 1, {"TRACK"}))
  <2> HIDE DEF i
  <2> QED BY <1>4 DEF ScanStands
\* The TRACKs are one more after a TRACK.
<1>8. Cardinality(Before(longer, i + 1, {"TRACK"})) = s.count + (IF l.k = "TRACK" THEN 1 ELSE 0)
  <2>1. Before(sheet, i, {"TRACK"}) \subseteq 1 .. i - 1 /\ i \notin Before(sheet, i, {"TRACK"})
      BY <1>4 DEF Before
  <2>2. IsFiniteSet(Before(sheet, i, {"TRACK"}))
    <3>1. i - 1 \in Nat
        BY <1>4
    <3>2. IsFiniteSet(1 .. i - 1)
      <4> HIDE DEF i
      <4> QED BY <3>1, FS_Interval
    <3> QED BY <2>1, <3>2, FS_Subset
  <2>3. CASE l.k = "TRACK"
    <3>1. Before(longer, i + 1, {"TRACK"}) = Before(sheet, i, {"TRACK"}) \cup {i}
        BY <1>5, <2>3
    <3> HIDE DEF i, longer
    <3> QED BY <1>2, <2>1, <2>2, <2>3, <3>1, FS_AddElement
  <2>4. CASE l.k # "TRACK"
    <3>1. Before(longer, i + 1, {"TRACK"}) = Before(sheet, i, {"TRACK"})
        BY <1>5, <2>4
    <3> HIDE DEF i, longer
    <3> QED BY <1>2, <2>4, <3>1
  <2> QED BY <2>3, <2>4
\* The last INDEX is the line, or is the one it was.
<1>9. CASE l.k = "INDEX"
  <2>1. LastOf(Indexes(longer, i + 1)) = i /\ longer[i] = l
    <3>1. Indexes(longer, i + 1) = Indexes(sheet, i) \cup {i}
        BY <1>5, <1>9
    <3>2. Indexes(sheet, i) \subseteq 1 .. i - 1
        BY <1>4, Placed
    <3>3. longer[i] = l
        BY LineAppended
    <3> HIDE DEF i, longer
    <3>4. Indexes(longer, i + 1) \in SUBSET Nat /\ i \in Indexes(longer, i + 1) /\ \A j \in Indexes(longer, i + 1) : j <= i
        BY <1>4, <3>1, <3>2
    <3> QED BY <3>3, <3>4, LastIs
  <2>2. /\ l.n = 0 => t = ScanGap(s, l.t)
        /\ l.n = 1 => t = ScanStart(s, l.t)
        /\ l.n > 1 => t = ScanIndex(s, l.n, l.t)
      BY <1>1, <1>9 DEF ScanLine
  <2>3. t.ok
      OBVIOUS
  <2> HIDE DEF i, longer, t
  <2>4. CASE l.n = 0
    <3>1. t = [s EXCEPT !.gap = TRUE] /\ s.track /\ ~s.gap /\ ~s.index01
        BY <2>2, <2>3, <2>4 DEF ScanGap, Reject, Scans
    <3>2. t.file = s.file /\ t.track = s.track /\ t.gap /\ ~t.index01 /\ t.last = s.last /\ t.count = s.count
        BY <3>1 DEF Scans
    <3> QED BY <1>2, <1>3, <1>4, <1>6, <1>7, <1>8, <1>9, <1>13, <2>4, <3>1, <3>2
  <2>5. CASE l.n = 1
    <3>1. t = [s EXCEPT !.gap = FALSE, !.index01 = TRUE, !.last = 1] /\ s.track
        BY <2>2, <2>3, <2>5 DEF ScanStart, Reject, Scans
    <3>2. t.file = s.file /\ t.track = s.track /\ ~t.gap /\ t.index01 /\ t.last = 1 /\ t.count = s.count
        BY <3>1 DEF Scans
    <3> QED BY <1>2, <1>3, <1>4, <1>6, <1>7, <1>8, <1>9, <1>13, <2>1, <2>5, <3>1, <3>2
  <2>6. CASE l.n > 1
    <3>1. t = [s EXCEPT !.last = l.n] /\ s.track /\ s.index01
        BY <2>2, <2>3, <2>6 DEF ScanIndex, Reject, Scans
    <3>2. t.file = s.file /\ t.track = s.track /\ t.gap = s.gap /\ t.index01 /\ t.last = l.n /\ t.count = s.count
        BY <3>1 DEF Scans
    <3>3. ~(l.n = 0) /\ ~(l.n = 1)
        BY <1>1, <2>6
    <3> QED BY <1>2, <1>3, <1>4, <1>6, <1>7, <1>8, <1>9, <1>13, <2>1, <3>1, <3>2, <3>3
  <2> QED BY <1>1, <2>4, <2>5, <2>6
<1>10. CASE l.k = "FILE"
  <2>1. t = Begun(TRUE, FALSE, s.count)
      BY <1>10 DEF ScanLine, ScanFile, Reject, Scans
  <2>2. t.file /\ ~t.track /\ ~t.gap /\ ~t.index01 /\ t.count = s.count
      BY <2>1 DEF Begun
  <2> HIDE DEF i, longer, t
  <2> QED BY <1>2, <1>4, <1>6, <1>8, <1>10, <1>13, <2>2
<1>11. CASE l.k = "TRACK"
  <2>1. t = Begun(TRUE, TRUE, l.n) /\ l.n = s.count + 1 /\ s.file
      BY <1>1, <1>2, <1>11 DEF ScanLine, ScanTrack, Reject, Scans
  <2>2. t.file /\ t.track /\ ~t.gap /\ ~t.index01 /\ t.count = s.count + 1
      BY <2>1 DEF Begun
  <2> HIDE DEF i, longer, t
  <2> QED BY <1>2, <1>3, <1>4, <1>6, <1>8, <1>11, <1>13, <2>1, <2>2
<1>12. CASE l.k \notin {"INDEX", "FILE", "TRACK"}
  <2>1. t = s
      BY <1>1, <1>12 DEF ScanLine, ScanCatalog, ScanDetail, Reject, Scans
  <2>2. Indexes(sheet, i) # {} => longer[LastOf(Indexes(sheet, i))] = sheet[LastOf(Indexes(sheet, i))]
    <3>1. i \in 1 .. Len(sheet) + 1
        BY <1>4
    <3> QED BY <3>1, SameBefore
  <2> HIDE DEF i, longer, t
  <2>3. Before(longer, i + 1, {"FILE"}) = Before(sheet, i, {"FILE"}) /\ Indexes(longer, i + 1) = Indexes(sheet, i)
      BY <1>5, <1>12
  <2>4. s.index01 => Indexes(sheet, i) # {}
      BY <1>3
  <2> QED BY <1>2, <1>3, <1>4, <1>6, <1>7, <1>8, <1>12, <1>13, <2>1, <2>2, <2>3, <2>4
<1> QED BY <1>9, <1>10, <1>11, <1>12

-----------------------------------------------------------------------------
(* Some lines of a sheet, all those of most kinds among them.               *)

\* kept has the lines of sheet at the positions at, in their order, and all but
\* some LEADs.
Picks(sheet, kept, at) ==
    /\ sheet \in Sheets /\ kept \in Sheets /\ at \in [1 .. Len(kept) -> 1 .. Len(sheet)]
    /\ \A m, n \in 1 .. Len(kept) : m < n <=> at[m] < at[n]
    /\ \A m \in 1 .. Len(kept) : kept[m] = sheet[at[m]]
    /\ \A i \in 1 .. Len(sheet) : sheet[i].k # "LEAD" => \E m \in 1 .. Len(kept) : at[m] = i

LEMMA Positions ==
    ASSUME NEW sheet \in Sheets
    PROVE  /\ Len(sheet) \in Nat /\ DOMAIN sheet = 1 .. Len(sheet)
           /\ \A P : {i \in DOMAIN sheet : P[i]} \in SUBSET Nat /\ IsFiniteSet({i \in DOMAIN sheet : P[i]})
<1>1. Len(sheet) \in Nat /\ DOMAIN sheet = 1 .. Len(sheet)
    BY DEF Sheets
<1>2. IsFiniteSet(1 .. Len(sheet))
    BY <1>1, FS_Interval
<1>3. ASSUME NEW P PROVE {i \in DOMAIN sheet : P[i]} \in SUBSET Nat /\ IsFiniteSet({i \in DOMAIN sheet : P[i]})
  <2>1. {i \in DOMAIN sheet : P[i]} \subseteq 1 .. Len(sheet)
      BY <1>1
  <2>2. IsFiniteSet({i \in DOMAIN sheet : P[i]})
      BY <1>2, <2>1, FS_Subset
  <2> QED BY <1>1, <2>1, <2>2
<1> QED BY <1>1, <1>3

\* The last of some is where the last of them was.
LEMMA LastPicked ==
    ASSUME NEW sheet, NEW kept, NEW at, Picks(sheet, kept, at),
           NEW M \in SUBSET (1 .. Len(kept)), M # {}, NEW I, I = {at[m] : m \in M}
    PROVE  LastOf(M) \in M /\ LastOf(I) = at[LastOf(M)] /\ I # {}
<1>1. Len(kept) \in Nat /\ Len(sheet) \in Nat
    BY DEF Picks, Sheets
<1>2. LastOf(M) \in M /\ \A j \in M : j <= LastOf(M)
    BY <1>1, LastIn
<1>3. PICK last : last = LastOf(M)
    OBVIOUS
<1>4. at[last] \in I /\ I \in SUBSET Nat
  <2>1. at[last] \in I
      BY <1>2, <1>3
  <2>2. \A m \in M : at[m] \in Nat
      BY <1>1 DEF Picks
  <2> QED BY <2>1, <2>2
<1>5. \A j \in M : at[j] <= at[last]
  <2> SUFFICES ASSUME NEW j \in M PROVE at[j] <= at[last]
      OBVIOUS
  <2>1. j \in 1 .. Len(kept) /\ last \in 1 .. Len(kept) /\ j <= last
      BY <1>2, <1>3
  <2>2. at[j] \in Nat /\ at[last] \in Nat /\ (last < j <=> at[last] < at[j])
      BY <1>1, <2>1 DEF Picks
  <2> QED BY <1>1, <2>1, <2>2
<1>6. \A i \in I : i <= at[last]
    BY <1>5
<1>7. LastOf(I) = at[last]
    BY <1>4, <1>6, LastIs
<1> QED BY <1>2, <1>3, <1>4, <1>7

\* Lines of other kinds before a line are the picked ones.
LEMMA PickedBefore ==
    ASSUME NEW sheet, NEW kept, NEW at, Picks(sheet, kept, at), NEW m \in 1 .. Len(kept), NEW kinds, "LEAD" \notin kinds
    PROVE  Before(sheet, at[m], kinds) = {at[j] : j \in Before(kept, m, kinds)} /\ Before(kept, m, kinds) \in SUBSET (1 .. Len(kept))
<1>1. Len(kept) \in Nat /\ Len(sheet) \in Nat /\ at[m] \in 1 .. Len(sheet)
    BY DEF Picks, Sheets
<1>2. ASSUME NEW j \in Before(kept, m, kinds) PROVE at[j] \in Before(sheet, at[m], kinds)
  <2>1. j \in 1 .. Len(kept) /\ j < m /\ kept[j].k \in kinds
      BY <1>1, <1>2 DEF Before
  <2>2. at[j] \in 1 .. Len(sheet) /\ at[j] < at[m] /\ kept[j] = sheet[at[j]]
      BY <2>1 DEF Picks
  <2> QED BY <1>1, <2>1, <2>2 DEF Before
<1>3. ASSUME NEW i \in Before(sheet, at[m], kinds) PROVE \E j \in Before(kept, m, kinds) : i = at[j]
  <2>1. i \in 1 .. Len(sheet) /\ i < at[m] /\ sheet[i].k \in kinds
      BY <1>1, <1>3 DEF Before
  <2>2. PICK j \in 1 .. Len(kept) : at[j] = i
      BY <2>1 DEF Picks
  <2>3. j < m /\ kept[j] = sheet[i]
      BY <2>1, <2>2 DEF Picks
  <2> QED BY <1>1, <2>1, <2>2, <2>3 DEF Before
<1>4. Before(kept, m, kinds) \in SUBSET (1 .. Len(kept))
    BY <1>1 DEF Before
<1> QED BY <1>2, <1>3, <1>4

LEMMA AsManyPicked ==
    ASSUME NEW sheet, NEW kept, NEW at, Picks(sheet, kept, at),
           NEW M \in SUBSET (1 .. Len(kept)), NEW I, I = {at[m] : m \in M}
    PROVE  IsFiniteSet(M) /\ IsFiniteSet(I) /\ Cardinality(I) = Cardinality(M) /\ Cardinality(M) \in Nat
<1>1. Len(kept) \in Nat /\ Len(sheet) \in Nat
    BY DEF Picks, Sheets
<1>2. IsFiniteSet(1 .. Len(kept))
    BY <1>1, FS_Interval
<1>3. IsFiniteSet(M)
    BY <1>2, FS_Subset
<1>4. Cardinality(M) \in Nat
    BY <1>3, FS_CardinalityType
<1>5. ASSUME NEW m \in M, NEW n \in M, at[m] = at[n] PROVE m = n
  <2>1. m \in 1 .. Len(kept) /\ n \in 1 .. Len(kept)
      OBVIOUS
  <2>2. at[m] \in Nat /\ at[n] \in Nat /\ (m < n <=> at[m] < at[n]) /\ (n < m <=> at[n] < at[m])
      BY <1>1, <2>1 DEF Picks
  <2> QED BY <1>1, <1>5, <2>1, <2>2
<1>6. [m \in M |-> at[m]] \in Bijection(M, I)
    BY <1>5 DEF Bijection, Injection, Surjection, IsInjective
<1>7. ExistsBijection(M, I)
    BY <1>6 DEF ExistsBijection
<1>8. IsFiniteSet(I) /\ Cardinality(I) = Cardinality(M)
    BY <1>3, <1>7, FS_Bijection
<1> QED BY <1>3, <1>4, <1>8

\* The f-th TRACK is where the f-th one was.
LEMMA TracksPicked ==
    ASSUME NEW sheet, NEW kept, NEW at, Picks(sheet, kept, at)
    PROVE  /\ DOMAIN TrackLines(kept) = 1 .. Len(TrackLines(kept)) /\ Len(TrackLines(kept)) \in Nat
           /\ DOMAIN TrackLines(sheet) = DOMAIN TrackLines(kept) /\ Len(TrackLines(sheet)) = Len(TrackLines(kept))
           /\ \A f \in DOMAIN TrackLines(kept) :
                 TrackLines(kept)[f] \in 1 .. Len(kept) /\ TrackLines(sheet)[f] = at[TrackLines(kept)[f]]
<1> DEFINE T == {m \in DOMAIN kept : kept[m].k = "TRACK"}
           S == {i \in DOMAIN sheet : sheet[i].k = "TRACK"}
           idT == [m \in T |-> m]
           idS == [i \in S |-> i]
           n == Cardinality(T)
           t == [f \in 1 .. n |-> at[Listing(T, idT)[f]]]
<1>1. /\ Len(kept) \in Nat /\ Len(sheet) \in Nat /\ DOMAIN kept = 1 .. Len(kept) /\ DOMAIN sheet = 1 .. Len(sheet)
    BY DEF Picks, Sheets
<1>2. T \in SUBSET (1 .. Len(kept)) /\ S \in SUBSET (1 .. Len(sheet))
    BY <1>1
<1>3. S = {at[m] : m \in T}
  <2>1. ASSUME NEW m \in T PROVE at[m] \in S
      BY <1>1 DEF Picks
  <2>2. ASSUME NEW i \in S PROVE \E m \in T : i = at[m]
    <3>1. PICK m \in 1 .. Len(kept) : at[m] = i
        BY <1>1 DEF Picks
    <3>2. kept[m] = sheet[i]
        BY <3>1 DEF Picks
    <3> QED BY <1>1, <3>1, <3>2
  <2> HIDE DEF T, S
  <2> QED BY <2>1, <2>2
<1> HIDE DEF T, S
<1>4. IsFiniteSet(T) /\ IsFiniteSet(S) /\ Cardinality(S) = n /\ n \in Nat
  <2> HIDE DEF n, t, idT, idS
  <2>1. \A M \in SUBSET (1 .. Len(kept)) : \A I : I = {at[m] : m \in M} =>
           IsFiniteSet(M) /\ IsFiniteSet(I) /\ Cardinality(I) = Cardinality(M) /\ Cardinality(M) \in Nat
      BY AsManyPicked
  <2>2. T \in SUBSET (1 .. Len(kept))
      BY <1>2
  <2>3. IsFiniteSet(T) /\ IsFiniteSet(S) /\ Cardinality(S) = Cardinality(T) /\ Cardinality(T) \in Nat
      BY <1>3, <2>1, <2>2
  <2> QED BY <2>3 DEF n
<1>5. InLine(T, idT) /\ InLine(S, idS) /\ (\A m \in T : idT[m] = m) /\ (\A i \in S : idS[i] = i)
    BY <1>1, <1>2, <1>4 DEF InLine
<1>6. TrackLines(kept) = Listing(T, idT) /\ TrackLines(sheet) = Listing(S, idS)
    BY DEF TrackLines, Ascending, T, S
<1> HIDE DEF idT, idS
<1>7. /\ DOMAIN Listing(T, idT) = 1 .. n
      /\ \A f \in 1 .. n : Listing(T, idT)[f] \in T /\ Rank(T, idT, Listing(T, idT)[f]) = f
    BY <1>5, Listed
<1>8. ASSUME NEW m \in T PROVE Rank(S, idS, at[m]) = Rank(T, idT, m)
  <2> DEFINE M == {k \in T : k <= m}
             I == {i \in S : i <= at[m]}
  <2>1. M = {k \in T : idT[k] <= idT[m]} /\ I = {i \in S : idS[i] <= idS[at[m]]}
      BY <1>3, <1>5
  <2>2. I = {at[k] : k \in M}
    <3>1. ASSUME NEW k \in T PROVE at[k] <= at[m] <=> k <= m
      <4>1. k \in 1 .. Len(kept) /\ m \in 1 .. Len(kept)
          BY <1>2
      <4>2. at[k] \in Nat /\ at[m] \in Nat /\ (m < k <=> at[m] < at[k])
          BY <1>1, <4>1 DEF Picks
      <4> QED BY <1>1, <4>1, <4>2
    <3> QED BY <1>3, <3>1
  <2>3. M \in SUBSET (1 .. Len(kept))
      BY <1>2
  <2> HIDE DEF M, I
  <2>4. Cardinality(I) = Cardinality(M)
      BY <2>2, <2>3, AsManyPicked
  <2> QED BY <2>1, <2>4 DEF Rank
<1>9. Listing(S, idS) = t
  <2>1. \A f \in 1 .. n : t[f] \in S /\ Rank(S, idS, t[f]) = f
      BY <1>3, <1>7, <1>8
  <2>2. t = [f \in 1 .. n |-> t[f]]
      OBVIOUS
  <2> HIDE DEF t, n
  <2>3. HasPlaces(t, S, idS)
      BY <1>4, <2>1, <2>2 DEF HasPlaces
  <2> QED BY <1>5, <2>3, IsListing
<1>10. Len(Listing(T, idT)) = n
  <2>1. Listing(T, idT) = [f \in 1 .. n |-> Listing(T, idT)[f]]
      BY DEF Listing
  <2> HIDE DEF n
  <2> QED BY <1>4, <2>1, LengthIs
<1>11. Len(t) = n
  <2>1. t = [f \in 1 .. n |-> t[f]]
      OBVIOUS
  <2> HIDE DEF n, t
  <2> QED BY <1>4, <2>1, LengthIs
<1>12. DOMAIN t = 1 .. n /\ \A f \in 1 .. n : t[f] = at[Listing(T, idT)[f]]
    OBVIOUS
<1> HIDE DEF n, t
<1> QED BY <1>2, <1>4, <1>6, <1>7, <1>9, <1>10, <1>11, <1>12

\* Its INDEXes are the picked ones.
LEMMA OwnPicked ==
    ASSUME NEW sheet, NEW kept, NEW at, Picks(sheet, kept, at), NEW f \in DOMAIN TrackLines(kept)
    PROVE  /\ OwnIndexes(kept, f) \in SUBSET (1 .. Len(kept))
           /\ OwnIndexes(sheet, f) = {at[m] : m \in OwnIndexes(kept, f)}
<1> DEFINE a == TrackLines(kept)
           b == TrackLines(sheet)
<1>1. /\ Len(kept) \in Nat /\ Len(sheet) \in Nat /\ DOMAIN kept = 1 .. Len(kept) /\ DOMAIN sheet = 1 .. Len(sheet)
    BY DEF Picks, Sheets
<1>2. /\ DOMAIN a = 1 .. Len(a) /\ Len(a) \in Nat /\ Len(b) = Len(a) /\ f \in 1 .. Len(a)
      /\ \A g \in 1 .. Len(a) : a[g] \in 1 .. Len(kept) /\ b[g] = at[a[g]]
    BY TracksPicked
<1>3. /\ OwnIndexes(kept, f) = {m \in 1 .. Len(kept) : /\ kept[m].k = "INDEX" /\ m > a[f]
                                                       /\ f < Len(a) => m < a[f + 1]}
      /\ OwnIndexes(sheet, f) = {i \in 1 .. Len(sheet) : /\ sheet[i].k = "INDEX" /\ i > b[f]
                                                         /\ f < Len(b) => i < b[f + 1]}
    BY <1>1 DEF OwnIndexes
<1> HIDE DEF a, b
<1>4. ASSUME NEW m \in 1 .. Len(kept), NEW n \in 1 .. Len(kept) PROVE (m > n <=> at[m] > at[n]) /\ (m < n <=> at[m] < at[n])
    BY <1>1 DEF Picks
<1>5. ASSUME NEW m \in 1 .. Len(kept)
      PROVE  at[m] \in OwnIndexes(sheet, f) <=> m \in OwnIndexes(kept, f)
  <2>1. at[m] \in 1 .. Len(sheet) /\ kept[m] = sheet[at[m]]
      BY DEF Picks
  <2>2. m > a[f] <=> at[m] > b[f]
      BY <1>2, <1>4
  <2>3. ASSUME f < Len(a) PROVE m < a[f + 1] <=> at[m] < b[f + 1]
    <3>1. f + 1 \in 1 .. Len(a)
        BY <1>2, <2>3
    <3>2. a[f + 1] \in 1 .. Len(kept) /\ b[f + 1] = at[a[f + 1]]
        BY <1>2, <3>1
    <3> QED BY <1>4, <3>2
  <2> QED BY <1>2, <1>3, <2>1, <2>2, <2>3
<1>6. ASSUME NEW i \in OwnIndexes(sheet, f) PROVE \E m \in 1 .. Len(kept) : at[m] = i
    BY <1>3 DEF Picks
<1>7. OwnIndexes(kept, f) \in SUBSET (1 .. Len(kept))
    BY <1>3
<1> QED BY <1>5, <1>6, <1>7

\* The page reads the same tracks.
LEMMA SameTracks ==
    ASSUME NEW sheet, NEW kept, NEW at, Picks(sheet, kept, at)
    PROVE  PageTracks(kept) = PageTracks(sheet)
<1>1. ASSUME NEW f \in DOMAIN TrackLines(kept)
      PROVE  LET p == TrackLines(kept)[f]
                 q == TrackLines(sheet)[f]
             IN  /\ kept[p] = sheet[q] /\ SessionAt(kept, p) = SessionAt(sheet, q)
                 /\ StartIn(kept, OwnIndexes(kept, f)) = StartIn(sheet, OwnIndexes(sheet, f))
                 /\ HighestIn(kept, OwnIndexes(kept, f)) = HighestIn(sheet, OwnIndexes(sheet, f))
  <2> DEFINE p == TrackLines(kept)[f]
             q == TrackLines(sheet)[f]
             K == OwnIndexes(kept, f)
             S == OwnIndexes(sheet, f)
  <2>1. p \in 1 .. Len(kept) /\ q = at[p]
      BY TracksPicked
  <2>2. K \in SUBSET (1 .. Len(kept)) /\ S = {at[m] : m \in K}
      BY OwnPicked
  <2>3. \A m \in 1 .. Len(kept) : kept[m] = sheet[at[m]]
      BY DEF Picks
  <2>7. \A M, I : M \in SUBSET (1 .. Len(kept)) /\ M # {} /\ I = {at[m] : m \in M} =>
                     LastOf(M) \in M /\ LastOf(I) = at[LastOf(M)]
      BY LastPicked
  <2> HIDE DEF p, q, K, S
  <2>4. SessionAt(kept, p) = SessionAt(sheet, q)
    <3> DEFINE before == Before(kept, p, {"SESSION"})
               marks == Before(sheet, q, {"SESSION"})
    <3>1. before \in SUBSET (1 .. Len(kept)) /\ marks = {at[m] : m \in before}
        BY <2>1, PickedBefore
    <3> HIDE DEF before, marks
    <3>2. before # {} => LastOf(before) \in before /\ LastOf(marks) = at[LastOf(before)]
        BY <2>7, <3>1
    <3>3. before # {} => kept[LastOf(before)] = sheet[LastOf(marks)]
        BY <2>3, <3>1, <3>2
    <3>4. before = {} <=> marks = {}
        BY <3>1
    <3> QED BY <3>3, <3>4 DEF SessionAt, before, marks
  <2>5. StartIn(kept, K) = StartIn(sheet, S)
    <3> DEFINE M == {m \in K : kept[m].n = 1}
               I == {i \in S : sheet[i].n = 1}
    <3>1. M \in SUBSET (1 .. Len(kept)) /\ I = {at[m] : m \in M}
      <4>1. \A m \in K : at[m] \in S /\ kept[m] = sheet[at[m]]
          BY <2>2, <2>3
      <4>2. \A i \in S : \E m \in K : i = at[m]
          BY <2>2
      <4>3. M \in SUBSET (1 .. Len(kept))
          BY <2>2
      <4> QED BY <4>1, <4>2, <4>3
    <3> HIDE DEF M, I
    <3>2. M # {} => LastOf(M) \in M /\ LastOf(I) = at[LastOf(M)]
        BY <2>7, <3>1
    <3>3. M # {} => kept[LastOf(M)] = sheet[LastOf(I)]
        BY <2>3, <3>1, <3>2
    <3>4. M = {} <=> I = {}
        BY <3>1
    <3> QED BY <3>3, <3>4 DEF StartIn, M, I
  <2>6. HighestIn(kept, K) = HighestIn(sheet, S)
    <3>1. {kept[m].n : m \in K} = {sheet[i].n : i \in S}
      <4>1. \A m \in K : at[m] \in S /\ kept[m].n = sheet[at[m]].n
          BY <2>2, <2>3
      <4>2. \A i \in S : \E m \in K : i = at[m]
          BY <2>2
      <4> QED BY <4>1, <4>2
    <3>2. K = {} <=> S = {}
        BY <2>2
    <3> QED BY <3>1, <3>2 DEF HighestIn
  <2> QED BY <2>1, <2>3, <2>4, <2>5, <2>6 DEF p, q, K, S
<1>2. DOMAIN TrackLines(kept) = DOMAIN TrackLines(sheet)
    BY TracksPicked
<1> DEFINE Track(x, f) == [number |-> x[TrackLines(x)[f]].n, mode |-> x[TrackLines(x)[f]].t,
                           session |-> SessionAt(x, TrackLines(x)[f]),
                           start |-> StartIn(x, OwnIndexes(x, f)),
                           highest |-> HighestIn(x, OwnIndexes(x, f))]
<1>3. /\ PageTracks(kept) = [f \in DOMAIN TrackLines(kept) |-> Track(kept, f)]
      /\ PageTracks(sheet) = [f \in DOMAIN TrackLines(sheet) |-> Track(sheet, f)]
    BY DEF PageTracks
<1>4. \A f \in DOMAIN TrackLines(kept) : Track(kept, f) = Track(sheet, f)
    BY <1>1
<1> HIDE DEF Track
<1> QED BY <1>2, <1>3, <1>4

\* A line that is kept fits as it did.
LEMMA FitsPicked ==
    ASSUME NEW sheet, NEW kept, NEW at, Picks(sheet, kept, at), NEW m \in 1 .. Len(kept), NEW l \in CueLines
    PROVE  Fits(kept, m, l) <=> Fits(sheet, at[m], l)
<1> DEFINE i == at[m]
<1>1. \A j \in 1 .. Len(kept) : kept[j] = sheet[at[j]]
    BY DEF Picks
<1>2. Len(kept) \in Nat /\ Len(sheet) \in Nat /\ i \in 1 .. Len(sheet) /\ m \in Nat /\ i \in Nat
    BY DEF Picks, Sheets
<1>3. \A kinds : "LEAD" \notin kinds => /\ Before(sheet, i, kinds) = {at[j] : j \in Before(kept, m, kinds)}
                                        /\ Before(kept, m, kinds) \in SUBSET (1 .. Len(kept))
    BY PickedBefore
<1> HIDE DEF i
<1>4. Before(kept, m, {"FILE"}) = {} <=> Before(sheet, i, {"FILE"}) = {}
  <2>1. Before(sheet, i, {"FILE"}) = {at[j] : j \in Before(kept, m, {"FILE"})}
      BY <1>3
  <2> QED BY <2>1
<1>5. Cardinality(Before(kept, m, {"TRACK"})) = Cardinality(Before(sheet, i, {"TRACK"}))
  <2>1. /\ Before(sheet, i, {"TRACK"}) = {at[j] : j \in Before(kept, m, {"TRACK"})}
        /\ Before(kept, m, {"TRACK"}) \in SUBSET (1 .. Len(kept))
      BY <1>3
  <2> QED BY <2>1, AsManyPicked
<1> DEFINE o == Opened(kept, m)
           opening == Before(kept, m, {"FILE", "TRACK"})
<1>6. IF opening = {} THEN o = 0 /\ Opened(sheet, i) = 0
      ELSE o \in 1 .. Len(kept) /\ Opened(sheet, i) = at[o] /\ at[o] \in 1 .. Len(sheet)
  <2>1. Before(sheet, i, {"FILE", "TRACK"}) = {at[j] : j \in opening} /\ opening \in SUBSET (1 .. Len(kept))
      BY <1>3
  <2> HIDE DEF opening
  <2>2. CASE opening = {}
    <3>1. Before(sheet, i, {"FILE", "TRACK"}) = {}
        BY <2>1, <2>2
    <3> QED BY <2>2, <3>1 DEF Opened, opening
  <2>3. CASE opening # {}
    <3>1. /\ LastOf(opening) \in opening /\ LastOf(Before(sheet, i, {"FILE", "TRACK"})) = at[LastOf(opening)]
          /\ Before(sheet, i, {"FILE", "TRACK"}) # {}
      <4>1. \A M, I : M \in SUBSET (1 .. Len(kept)) /\ M # {} /\ I = {at[j] : j \in M} =>
                         LastOf(M) \in M /\ LastOf(I) = at[LastOf(M)] /\ I # {}
          BY LastPicked
      <4> QED BY <2>1, <2>3, <4>1
    <3>2. o = LastOf(opening) /\ Opened(sheet, i) = at[LastOf(opening)]
        BY <2>3, <3>1 DEF Opened, opening
    <3> QED BY <2>1, <2>3, <3>1, <3>2 DEF Picks
  <2> QED BY <2>2, <2>3
<1> HIDE DEF opening, o
<1>7. /\ o \in Nat /\ (o = 0 <=> Opened(sheet, i) = 0)
      /\ o # 0 => o \in 1 .. Len(kept) /\ Opened(sheet, i) = at[o] /\ at[o] \in 1 .. Len(sheet)
    BY <1>2, <1>6
<1>8. InTrack(kept, m) <=> InTrack(sheet, i)
    BY <1>1, <1>7 DEF InTrack, o
<1>9. /\ Indexes(sheet, i) = {at[j] : j \in Indexes(kept, m)}
      /\ Indexes(kept, m) \in SUBSET (1 .. Len(kept))
  <2>1. /\ Before(sheet, i, {"INDEX"}) = {at[j] : j \in Before(kept, m, {"INDEX"})}
        /\ Before(kept, m, {"INDEX"}) \in SUBSET (1 .. Len(kept))
      BY <1>3
  <2>2. ASSUME NEW j \in Before(kept, m, {"INDEX"}) PROVE at[j] > Opened(sheet, i) <=> j > o
    <3>1. j \in 1 .. Len(kept) /\ at[j] \in 1 .. Len(sheet)
        BY <2>1 DEF Picks
    <3>2. o # 0 => (o < j <=> at[o] < at[j])
        BY <1>7, <3>1 DEF Picks
    <3> QED BY <1>2, <1>7, <3>1, <3>2
  <2>3. Indexes(sheet, i) = {j \in Before(sheet, i, {"INDEX"}) : j > Opened(sheet, i)}
      BY DEF Indexes
  <2>4. Indexes(kept, m) = {j \in Before(kept, m, {"INDEX"}) : j > o}
      BY DEF Indexes, o
  <2> QED BY <2>1, <2>2, <2>3, <2>4
<1>10. \A n : HasIndex(kept, m, n) <=> HasIndex(sheet, i, n)
    BY <1>1, <1>9 DEF HasIndex
<1>11. InGap(kept, m) <=> InGap(sheet, i)
    BY <1>10 DEF InGap
<1>12. Indexes(kept, m) = {} <=> Indexes(sheet, i) = {}
    BY <1>9
<1>13. Indexes(kept, m) # {} => kept[LastOf(Indexes(kept, m))] = sheet[LastOf(Indexes(sheet, i))]
  <2>1. \A M, I : M \in SUBSET (1 .. Len(kept)) /\ M # {} /\ I = {at[j] : j \in M} =>
                     LastOf(M) \in M /\ LastOf(I) = at[LastOf(M)]
      BY LastPicked
  <2> QED BY <1>1, <1>9, <2>1
<1>14. HasIndex(kept, m, 1) => Indexes(kept, m) # {}
    BY DEF HasIndex
<1>15. Opened(kept, m) # 0 <=> Opened(sheet, i) # 0
    BY <1>7 DEF o
<1> HIDE DEF o
<1>16. Fits(kept, m, l) <=> Fits(sheet, i, l)
    BY <1>4, <1>5, <1>8, <1>10, <1>11, <1>12, <1>13, <1>14, <1>15 DEF Fits
<1> QED BY <1>16 DEF i

\* The rewritten sheet keeps all lines but LEADs.
LEMMA KeptPicks ==
    ASSUME NEW sheet \in Sheets
    PROVE  \E at : Picks(sheet, Kept(sheet), at)
<1> DEFINE S == {i \in DOMAIN sheet : sheet[i].k # "LEAD"}
           N == Cardinality(S)
           stay == Ascending(S)
<1>1. Len(sheet) \in Nat /\ DOMAIN sheet = 1 .. Len(sheet) /\ \A i \in 1 .. Len(sheet) : sheet[i] \in CueLines
    BY DEF Sheets
<1>2. S \in SUBSET Nat /\ S \subseteq 1 .. Len(sheet) /\ IsFiniteSet(S)
  <2>1. IsFiniteSet(1 .. Len(sheet))
      BY <1>1, FS_Interval
  <2>2. S \subseteq 1 .. Len(sheet) /\ S \subseteq Nat
      BY <1>1
  <2> HIDE DEF S
  <2> QED BY <2>1, <2>2, FS_Subset
<1>3. \A i \in 1 .. Len(sheet) : sheet[i].k # "LEAD" <=> i \in S
    BY <1>1
<1>4. Kept(sheet) = [i \in DOMAIN stay |-> sheet[stay[i]]]
    BY DEF Kept
<1> HIDE DEF S
<1>5. /\ N \in Nat /\ stay \in [1 .. N -> S]
      /\ \A x \in S : \E n \in 1 .. N : stay[n] = x
      /\ \A m, n \in 1 .. N : m < n <=> stay[m] < stay[n]
    BY <1>2, Ascends
<1> HIDE DEF N, stay
<1>6. Kept(sheet) = [i \in 1 .. N |-> sheet[stay[i]]] /\ \A i \in 1 .. N : sheet[stay[i]] \in CueLines
    BY <1>1, <1>2, <1>4, <1>5
<1>7. Kept(sheet) \in [1 .. N -> CueLines]
    BY <1>6
<1>8. Kept(sheet) \in Sheets /\ Len(Kept(sheet)) = N
  <2>1. Kept(sheet) \in Sheets
      BY <1>5, <1>7 DEF Sheets
  <2>2. Kept(sheet) = [i \in 1 .. N |-> Kept(sheet)[i]]
      BY <1>6
  <2> QED BY <1>5, <2>1, <2>2, LengthIs
<1>9. Picks(sheet, Kept(sheet), stay)
    BY <1>2, <1>3, <1>5, <1>6, <1>8 DEF Picks
<1> QED BY <1>9

-----------------------------------------------------------------------------
(* The numbers of tracks and files.                                        *)

\* The TRACKs of a cue sheet are numbered from 1.
LEMMA TracksNumbered ==
    ASSUME NEW sheet \in Sheets, IsCueSheet(sheet), NEW f \in DOMAIN TrackLines(sheet)
    PROVE  sheet[TrackLines(sheet)[f]].n = f
<1> DEFINE T == {i \in DOMAIN sheet : sheet[i].k = "TRACK"}
           idT == [i \in T |-> i]
           p == Listing(T, idT)[f]
<1>1. Len(sheet) \in Nat /\ DOMAIN sheet = 1 .. Len(sheet) /\ \A i \in 1 .. Len(sheet) : sheet[i] \in CueLines
    BY DEF Sheets
<1>2. T \subseteq 1 .. Len(sheet) /\ IsFiniteSet(T) /\ \A i \in T : sheet[i].k = "TRACK"
  <2>1. IsFiniteSet(1 .. Len(sheet))
      BY <1>1, FS_Interval
  <2>2. T \subseteq 1 .. Len(sheet) /\ \A i \in T : sheet[i].k = "TRACK"
      BY <1>1
  <2> HIDE DEF T
  <2> QED BY <2>1, <2>2, FS_Subset
<1>3. TrackLines(sheet) = Listing(T, idT)
    BY DEF TrackLines, Ascending
<1>4. \A i \in 1 .. Len(sheet) : sheet[i].k = "TRACK" => i \in T
    BY <1>1
<1> HIDE DEF T
<1>5. InLine(T, idT) /\ \A i \in T : idT[i] = i
    BY <1>1, <1>2 DEF InLine
<1> HIDE DEF idT
<1>6. p \in T /\ Rank(T, idT, p) = f
    BY <1>3, <1>5, Listed
<1> HIDE DEF p
<1>7. Rank(T, idT, p) = Cardinality(Before(sheet, p, {"TRACK"})) + 1
  <2> DEFINE before == Before(sheet, p, {"TRACK"})
  <2>1. p \in 1 .. Len(sheet)
      BY <1>2, <1>6
  <2>2. before \subseteq T /\ p \notin before
      BY <1>1, <1>4, <2>1 DEF Before
  <2>3. \A i \in T : i < p <=> i \in before
      BY <1>1, <1>2, <2>1 DEF Before
  <2>4. {i \in T : idT[i] <= idT[p]} = before \cup {p}
    <3>1. ASSUME NEW i \in T PROVE idT[i] <= idT[p] <=> i \in before \/ i = p
      <4>1. idT[i] = i /\ idT[p] = p /\ i \in Nat /\ p \in Nat
          BY <1>1, <1>2, <1>5, <1>6
      <4>2. i <= p <=> i < p \/ i = p
          BY <4>1
      <4> QED BY <2>3, <4>1, <4>2
    <3> HIDE DEF before
    <3> QED BY <1>6, <2>2, <3>1
  <2>5. IsFiniteSet(before)
    <3> HIDE DEF before
    <3> QED BY <1>2, <2>2, FS_Subset
  <2>6. Cardinality(before \cup {p}) = Cardinality(before) + 1
    <3> HIDE DEF before
    <3> QED BY <2>2, <2>5, FS_AddElement
  <2> QED BY <2>4, <2>6 DEF Rank
<1>8. Fits(sheet, p, sheet[p]) /\ sheet[p].k = "TRACK"
    BY <1>1, <1>2, <1>6 DEF IsCueSheet
<1>9. sheet[p].n = Cardinality(Before(sheet, p, {"TRACK"})) + 1
    BY <1>8 DEF Fits
<1> QED BY <1>3, <1>6, <1>7, <1>9 DEF p

\* A later TRACK has a higher number.
LEMMA LaterTrack ==
    ASSUME NEW sheet \in Sheets, IsCueSheet(sheet),
           NEW x \in 1 .. Len(sheet), NEW y \in 1 .. Len(sheet), sheet[x].k = "TRACK", sheet[y].k = "TRACK", x < y
    PROVE  sheet[x].n < sheet[y].n
<1> DEFINE T == {i \in DOMAIN sheet : sheet[i].k = "TRACK"}
<1>1. T \in SUBSET Nat /\ IsFiniteSet(T) /\ x \in T /\ y \in T
  <2>1. Len(sheet) \in Nat /\ DOMAIN sheet = 1 .. Len(sheet)
      BY DEF Sheets
  <2>2. IsFiniteSet(1 .. Len(sheet))
      BY <2>1, FS_Interval
  <2>3. T \subseteq 1 .. Len(sheet) /\ x \in T /\ y \in T
      BY <2>1
  <2>4. T \in SUBSET Nat
      BY <2>1
  <2> HIDE DEF T
  <2> QED BY <2>2, <2>3, <2>4, FS_Subset
<1>2. TrackLines(sheet) = Ascending(T)
    BY DEF TrackLines
<1> HIDE DEF T
<1>3. /\ Cardinality(T) \in Nat /\ Ascending(T) \in [1 .. Cardinality(T) -> T]
      /\ \A z \in T : \E n \in 1 .. Cardinality(T) : Ascending(T)[n] = z
      /\ \A m, n \in 1 .. Cardinality(T) : m < n <=> Ascending(T)[m] < Ascending(T)[n]
    BY <1>1, Ascends
<1>4. PICK f \in 1 .. Cardinality(T), g \in 1 .. Cardinality(T) : Ascending(T)[f] = x /\ Ascending(T)[g] = y
    BY <1>1, <1>3
<1>5. f < g
    BY <1>3, <1>4
<1>6. sheet[x].n = f /\ sheet[y].n = g
    BY <1>2, <1>3, <1>4, TracksNumbered
<1> QED BY <1>5, <1>6

\* INDEXes are in tracks.
IndexesInTracks(sheet) == \A i \in 1 .. Len(sheet) + 1 : Indexes(sheet, i) # {} => InTrack(sheet, i)

\* Before the next FILE a FILE has a TRACK.
LEMMA TrackBetween ==
    ASSUME NEW sheet \in Sheets, IsCueSheet(sheet), IndexesInTracks(sheet),
           NEW p \in 1 .. Len(sheet), NEW q \in 1 .. Len(sheet), sheet[p].k = "FILE", sheet[q].k = "FILE", p < q
    PROVE  \E o \in 1 .. Len(sheet) : sheet[o].k = "TRACK" /\ p < o /\ o < q
<1>1. Len(sheet) \in Nat /\ DOMAIN sheet = 1 .. Len(sheet) /\ q \in 1 .. Len(sheet) + 1
    BY DEF Sheets
<1>2. p \in Before(sheet, q, {"FILE"}) /\ p \in Before(sheet, q, {"FILE", "TRACK"})
    BY <1>1 DEF Before
<1>3. Fits(sheet, q, sheet[q])
    BY <1>1 DEF IsCueSheet
<1>4. HasIndex(sheet, q, 1)
    BY <1>2, <1>3 DEF Fits
<1>5. InTrack(sheet, q)
    BY <1>1, <1>4 DEF HasIndex, IndexesInTracks
<1>6. Opened(sheet, q) \in 0 .. q - 1 /\ Opened(sheet, q) # 0 /\ sheet[Opened(sheet, q)].k = "TRACK"
    BY <1>1, <1>5, Placed DEF InTrack
<1>7. p <= Opened(sheet, q)
    BY <1>1, <1>2, <1>6, Placed
<1>8. p # Opened(sheet, q)
    BY <1>6
<1> QED BY <1>1, <1>6, <1>7, <1>8

\* So the FILEs are named after TRACKs of their own.
LEMMA FilesNumbered ==
    ASSUME NEW sheet \in Sheets, IsCueSheet(sheet), IndexesInTracks(sheet),
           NEW i \in DOMAIN FileNumbers(sheet), NEW j \in DOMAIN FileNumbers(sheet), i < j, FileNumbers(sheet)[j] # 0
    PROVE  FileNumbers(sheet)[i] < FileNumbers(sheet)[j]
<1> DEFINE F == {k \in DOMAIN sheet : sheet[k].k = "FILE"}
           p == Ascending(F)[i]
           q == Ascending(F)[j]
           after(k) == {x \in DOMAIN sheet : x > k /\ sheet[x].k = "TRACK"}
           next(k) == CHOOSE x \in after(k) : \A y \in after(k) : x <= y
<1>1. Len(sheet) \in Nat /\ DOMAIN sheet = 1 .. Len(sheet)
    BY DEF Sheets
<1>2. F \in SUBSET Nat /\ F \subseteq 1 .. Len(sheet) /\ IsFiniteSet(F) /\ \A k \in F : sheet[k].k = "FILE"
  <2>1. IsFiniteSet(1 .. Len(sheet))
      BY <1>1, FS_Interval
  <2>2. F \subseteq 1 .. Len(sheet) /\ F \in SUBSET Nat /\ \A k \in F : sheet[k].k = "FILE"
      BY <1>1
  <2> HIDE DEF F
  <2> QED BY <2>1, <2>2, FS_Subset
<1>3. FileNumbers(sheet) = [f \in DOMAIN Ascending(F) |-> NextTrack(sheet, Ascending(F)[f])]
    BY DEF FileNumbers
<1> HIDE DEF F
<1>4. /\ Cardinality(F) \in Nat /\ Ascending(F) \in [1 .. Cardinality(F) -> F]
      /\ \A m, n \in 1 .. Cardinality(F) : m < n <=> Ascending(F)[m] < Ascending(F)[n]
    BY <1>2, Ascends
<1>5. i \in 1 .. Cardinality(F) /\ j \in 1 .. Cardinality(F)
    BY <1>3, <1>4
<1>6. p \in F /\ q \in F /\ p < q /\ FileNumbers(sheet)[i] = NextTrack(sheet, p) /\ FileNumbers(sheet)[j] = NextTrack(sheet, q)
    BY <1>3, <1>4, <1>5
<1> HIDE DEF p, q
<1>7. PICK o \in 1 .. Len(sheet) : sheet[o].k = "TRACK" /\ p < o /\ o < q
    BY <1>2, <1>6, TrackBetween
<1>8. p \in 1 .. Len(sheet) /\ q \in 1 .. Len(sheet)
    BY <1>2, <1>6
<1>9. \A k : NextTrack(sheet, k) = IF after(k) = {} THEN 0 ELSE sheet[next(k)].n
    BY DEF NextTrack
<1>10. ASSUME NEW k \in Nat, after(k) # {} PROVE next(k) \in after(k) /\ \A y \in after(k) : next(k) <= y
  <2>1. after(k) \in SUBSET Nat
      BY <1>1
  <2> HIDE DEF after
  <2>2. \E x \in after(k) : \A y \in after(k) : x <= y
      BY <1>10, <2>1, LeastNumber
  <2> QED BY <2>2
<1>11. o \in after(p)
    BY <1>1, <1>7
<1>12. after(q) # {}
  <2> HIDE DEF after, next
  <2> QED BY <1>6, <1>9
<1>13. next(p) \in after(p) /\ next(p) <= o /\ next(q) \in after(q)
  <2> HIDE DEF after, next
  <2> QED BY <1>1, <1>8, <1>10, <1>11, <1>12
<1>14. /\ next(p) \in 1 .. Len(sheet) /\ next(q) \in 1 .. Len(sheet) /\ next(q) > q
       /\ sheet[next(p)].k = "TRACK" /\ sheet[next(q)].k = "TRACK"
  <2> HIDE DEF next
  <2> QED BY <1>1, <1>13
<1>15. NextTrack(sheet, p) = sheet[next(p)].n /\ NextTrack(sheet, q) = sheet[next(q)].n
  <2> HIDE DEF after, next
  <2> QED BY <1>9, <1>11, <1>12
<1> HIDE DEF after, next
<1>16. next(p) < next(q)
    BY <1>1, <1>7, <1>8, <1>13, <1>14
<1>17. sheet[next(p)].n < sheet[next(q)].n
    BY <1>14, <1>16, LaterTrack
<1> QED BY <1>6, <1>15, <1>17

-----------------------------------------------------------------------------
(* Sheets that are read.                                                   *)

\* The inductive invariant: what the validator remembers is so, and the lines
\* it has accepted are a cue sheet.
SheetInv ==
    /\ lines \in Sheets /\ scan \in Scans
    /\ scan.ok <=> IsCueSheet(lines)
    /\ scan.ok => ScanStands(lines, scan) /\ IndexesInTracks(lines)

LEMMA SheetInitInv == CueInit => SheetInv
<1> SUFFICES ASSUME CueInit PROVE SheetInv
    OBVIOUS
<1>1. lines = <<>> /\ scan = [ok |-> TRUE, file |-> FALSE, track |-> FALSE, gap |-> FALSE, index01 |-> FALSE, last |-> 0, count |-> 0]
    BY DEF CueInit, Unread, Begun
<1>2. lines \in Sheets /\ Len(lines) = 0 /\ DOMAIN lines = {} /\ scan \in Scans /\ scan.ok
    BY <1>1 DEF Sheets, Scans
<1>3. \A kinds : Before(lines, 1, kinds) = {}
    BY DEF Before
<1>4. Opened(lines, 1) = 0 /\ Indexes(lines, 1) = {}
    BY <1>3 DEF Opened, Indexes
<1>5. ~InTrack(lines, 1) /\ ~InGap(lines, 1) /\ \A n : ~HasIndex(lines, 1, n)
    BY <1>4 DEF InTrack, InGap, HasIndex
<1>6. ScanStands(lines, scan)
  <2>1. Cardinality(Before(lines, 1, {"TRACK"})) = 0
      BY <1>3, FS_EmptySet
  <2> QED BY <1>1, <1>2, <1>3, <1>4, <1>5, <2>1 DEF ScanStands
<1>7. IndexesInTracks(lines)
    BY <1>2, <1>4 DEF IndexesInTracks
<1>8. IsCueSheet(lines)
    BY <1>2 DEF IsCueSheet
<1> QED BY <1>2, <1>6, <1>7, <1>8 DEF SheetInv

LEMMA SheetReadLineInv ==
    ASSUME SheetInv, NEW l \in CueLines, ReadLine(l)
    PROVE  SheetInv'
<1>1. /\ lines \in Sheets /\ scan \in Scans /\ scan.ok /\ IsCueSheet(lines) /\ ScanStands(lines, scan) /\ IndexesInTracks(lines)
    BY DEF SheetInv, ReadLine
<1>2. lines' = Append(lines, l) /\ scan' = ScanLine(scan, l)
    BY DEF ReadLine
<1>3. lines' \in Sheets /\ Len(lines') = Len(lines) + 1 /\ Len(lines) \in Nat
    BY <1>1, <1>2, LineAppended
<1>4. scan' \in Scans /\ (scan'.ok <=> Fits(lines, Len(lines) + 1, l))
    BY <1>1, <1>2, ScanFits
<1>5. IsCueSheet(lines') <=> Fits(lines, Len(lines) + 1, l)
    BY <1>1, <1>2, LongerSheet
<1>6. ASSUME scan'.ok PROVE ScanStands(lines', scan')
    BY <1>1, <1>2, <1>6, ScanStandsLonger
<1>7. ASSUME scan'.ok PROVE IndexesInTracks(lines')
  <2> SUFFICES ASSUME NEW i \in 1 .. Len(lines) + 2, Indexes(lines', i) # {} PROVE InTrack(lines', i)
      BY <1>3 DEF IndexesInTracks
  <2>1. CASE i = Len(lines) + 2
    <3>1. i = Len(lines') + 1
        BY <1>3, <2>1
    <3> QED BY <1>6, <1>7, <3>1 DEF ScanStands
  <2>2. CASE i # Len(lines) + 2
    <3>1. i \in 1 .. Len(lines) + 1
        BY <1>3, <2>2
    <3>2. Indexes(lines', i) = Indexes(lines, i) /\ InTrack(lines', i) = InTrack(lines, i)
        BY <1>1, <1>2, <3>1, SameBefore
    <3> QED BY <1>1, <3>1, <3>2 DEF IndexesInTracks
  <2> QED BY <2>1, <2>2
<1>8. scan'.ok <=> IsCueSheet(lines')
    BY <1>4, <1>5
<1> QED BY <1>3, <1>4, <1>6, <1>7, <1>8 DEF SheetInv

\* The validator of any sheet, of any length, remembers what is so of the lines
\* it has read (src/src/services/validation.rs, validate_cuesheet).
THEOREM SheetInvariance == CueSpec => []SheetInv
<1>1. CueInit => SheetInv
    BY SheetInitInv
<1>2. SheetInv /\ [CueNext]_cueVars => SheetInv'
  <2> SUFFICES ASSUME SheetInv, [CueNext]_cueVars PROVE SheetInv'
      OBVIOUS
  <2>1. CASE CueNext
      BY <2>1, SheetReadLineInv DEF CueNext
  <2>2. CASE UNCHANGED cueVars
      BY <2>2 DEF cueVars, SheetInv
  <2> QED BY <2>1, <2>2
<1> QED BY <1>1, <1>2, PTL DEF CueSpec

\* A cue sheet that is rewritten is a cue sheet.
LEMMA KeptIsCueSheet ==
    ASSUME NEW sheet \in Sheets
    PROVE  Kept(sheet) \in Sheets /\ (IsCueSheet(sheet) => IsCueSheet(Kept(sheet)))
<1>1. PICK at : Picks(sheet, Kept(sheet), at)
    BY KeptPicks
<1>2. ASSUME IsCueSheet(sheet) PROVE IsCueSheet(Kept(sheet))
  <2> SUFFICES ASSUME NEW m \in DOMAIN Kept(sheet) PROVE Fits(Kept(sheet), m, Kept(sheet)[m])
      BY DEF IsCueSheet
  <2>1. m \in 1 .. Len(Kept(sheet)) /\ Kept(sheet)[m] \in CueLines
      BY <1>1 DEF Picks, Sheets
  <2>2. at[m] \in 1 .. Len(sheet) /\ Kept(sheet)[m] = sheet[at[m]]
      BY <1>1, <2>1 DEF Picks
  <2>3. Fits(Kept(sheet), m, Kept(sheet)[m]) <=> Fits(sheet, at[m], sheet[at[m]])
      BY <1>1, <2>1, <2>2, FitsPicked
  <2>4. Fits(sheet, at[m], sheet[at[m]])
      BY <1>2, <2>2 DEF IsCueSheet, Sheets
  <2> QED BY <2>3, <2>4
<1> QED BY <1>1, <1>2 DEF Picks

LEMMA ReadAlike ==
    ASSUME SheetInv
    PROVE  AcceptedCueIsReadAlike
<1>1. lines \in Sheets /\ (scan.ok <=> IsCueSheet(lines)) /\ (scan.ok => IndexesInTracks(lines))
    BY DEF SheetInv
<1>2. PICK at : Picks(lines, Kept(lines), at)
    BY <1>1, KeptPicks
<1>3. PageTracks(Kept(lines)) = PageTracks(lines)
    BY <1>2, SameTracks
<1>4. ASSUME scan.ok PROVE IsCueSheet(Kept(lines))
    BY <1>1, <1>4, KeptIsCueSheet
<1>5. ASSUME scan.ok, NEW f \in DOMAIN PageTracks(lines) PROVE PageTracks(lines)[f].number = f
  <2>1. f \in DOMAIN TrackLines(lines) /\ PageTracks(lines)[f].number = lines[TrackLines(lines)[f]].n
      BY <1>5 DEF PageTracks
  <2> QED BY <1>1, <1>5, <2>1, TracksNumbered
<1>6. ASSUME scan.ok, NEW i \in DOMAIN FileNumbers(lines), NEW j \in DOMAIN FileNumbers(lines),
             i < j, FileNumbers(lines)[j] # 0
      PROVE  FileNumbers(lines)[i] < FileNumbers(lines)[j]
    BY <1>1, <1>6, FilesNumbered
<1> QED BY <1>1, <1>3, <1>4, <1>5, <1>6 DEF AcceptedCueIsReadAlike

\* For sheets of any length the validator accepts cue sheets and nothing else,
\* and what it has accepted is accepted again when rewritten, shows the same
\* tracks, and has a name for each FILE (src/src/db/models.rs, simplify_cue and
\* src/src/routes/disc_view.rs, parse_cue_tracks_with_sessions).
THEOREM CuesAreReadAlike == CueSpec => []AcceptedCueIsReadAlike
<1>1. SheetInv => AcceptedCueIsReadAlike
    BY ReadAlike
<1> QED BY <1>1, SheetInvariance, PTL

-----------------------------------------------------------------------------
(* The files of discs.                                                     *)

NamesOf(sheet, base, ext) ==
    LET numbers == FileNumbers(sheet)
    IN  [f \in DOMAIN numbers |-> Numbered(base, IF numbers[f] = 0 THEN NoNumber ELSE numbers[f], TrackCount(sheet), ext)]

\* A CD has a cue sheet, which stays the same when it is rewritten.
CueStands(cue, ext) ==
    /\ cue.sheet \in Sheets /\ IsCueSheet(cue.sheet) /\ Kept(cue.sheet) = cue.sheet
    /\ cue.given = (ext = "bin")
    /\ ext # "bin" => cue.sheet = <<>>

SbiStands(sbi, ext) == IsList(sbi) /\ ValidSbi(sbi) /\ (ext # "bin" => sbi = <<>>)

Numbers(roms) == [k \in DOMAIN roms |-> k.n]

\* The roms have numbers of their own; an image has none.
RomsStand(roms, ext) ==
    /\ DOMAIN roms # {} /\ InLine(DOMAIN roms, Numbers(roms))
    /\ ext = "iso" => \A k \in DOMAIN roms : k.n = 0

\* Each rom of the dump is stored under its number, if it says which.
DumpStands(roms, dump, ext) ==
    /\ IsList(dump)
    /\ IsProper(dump, ext) =>
          /\ Cardinality(DOMAIN roms) = Len(dump)
          /\ \A i \in DOMAIN dump : \E k \in DOMAIN roms :
                /\ roms[k] = dump[i].content
                /\ k.n = IF Len(dump) > 1 THEN TrackOf(dump[i].name).n ELSE IF ext = "iso" THEN 0 ELSE 1

PostStands(p) ==
    /\ CueStands(p.cue, p.ext) /\ SbiStands(p.sbi, p.ext)
    /\ RomsStand(StoredRoms(p.dat), p.ext) /\ DumpStands(StoredRoms(p.dat), p.dump, p.ext)

\* A disc that was stored when its system had no disc numbers has none.
DiscStands(d) ==
    /\ CueStands(d.cue, d.ext) /\ SbiStands(d.sbi, d.ext)
    /\ RomsStand(d.roms, d.ext) /\ DumpStands(d.roms, d.dump, d.ext)
    /\ ~d.numbered => d.base = <<d.base[1]>>
    /\ d.hasCue = (d.ext = "bin")
    /\ d.ext = "bin" => d.cue.names = NamesOf(d.cue.sheet, d.base, d.ext)

\* The inductive invariant.
FormsInv == (disc # NoDisc => DiscStands(disc)) /\ (posted # NoDisc => PostStands(posted))

\* What a form can post.
RomList(dat) ==
    /\ IsList(dat)
    /\ \A i \in DOMAIN dat : dat[i] = [name |-> dat[i].name, content |-> dat[i].content]
    /\ \A i \in DOMAIN dat : TrackOf(dat[i].name).n \in Nat \cup {NoNumber}

FormTyped(p) ==
    /\ p = [base |-> p.base, ext |-> p.ext, cue |-> p.cue, dat |-> p.dat, sbi |-> p.sbi, dump |-> p.dump]
    /\ p.cue = [given |-> p.cue.given, sheet |-> p.cue.sheet, names |-> p.cue.names]
    /\ p.cue.sheet \in Sheets
    /\ RomList(p.dat) /\ IsList(p.sbi)

-----------------------------------------------------------------------------
(* A sheet that is rewritten again.                                        *)

LEMMA NothingToDrop ==
    ASSUME NEW sheet \in Sheets, \A i \in DOMAIN sheet : sheet[i].k # "LEAD"
    PROVE  Kept(sheet) = sheet
<1>1. Len(sheet) \in Nat /\ DOMAIN sheet = 1 .. Len(sheet) /\ sheet = [i \in 1 .. Len(sheet) |-> sheet[i]]
    BY DEF Sheets
<1>2. {i \in DOMAIN sheet : sheet[i].k # "LEAD"} = 1 .. Len(sheet)
    BY <1>1
<1>3. Ascending(1 .. Len(sheet)) = [i \in 1 .. Len(sheet) |-> i]
    BY <1>1, AscendsFromOne
<1>4. Kept(sheet) = [i \in 1 .. Len(sheet) |-> sheet[i]]
    BY <1>2, <1>3 DEF Kept
<1> QED BY <1>1, <1>4

LEMMA KeptHasNoLead ==
    ASSUME NEW sheet \in Sheets
    PROVE  \A i \in DOMAIN Kept(sheet) : Kept(sheet)[i].k # "LEAD"
<1> DEFINE S == {i \in DOMAIN sheet : sheet[i].k # "LEAD"}
           stay == Ascending(S)
<1>1. Len(sheet) \in Nat /\ DOMAIN sheet = 1 .. Len(sheet)
    BY DEF Sheets
<1>2. S \in SUBSET Nat /\ S \subseteq 1 .. Len(sheet) /\ IsFiniteSet(S)
  <2>1. IsFiniteSet(1 .. Len(sheet))
      BY <1>1, FS_Interval
  <2>2. S \subseteq 1 .. Len(sheet) /\ S \subseteq Nat
      BY <1>1
  <2> HIDE DEF S
  <2> QED BY <2>1, <2>2, FS_Subset
<1>3. \A i \in S : sheet[i].k # "LEAD"
    OBVIOUS
<1>4. Kept(sheet) = [i \in DOMAIN stay |-> sheet[stay[i]]]
    BY DEF Kept
<1> HIDE DEF S
<1>5. stay \in [1 .. Cardinality(S) -> S]
    BY <1>2, Ascends
<1> HIDE DEF stay
<1> QED BY <1>3, <1>4, <1>5

LEMMA KeptOnce ==
    ASSUME NEW sheet \in Sheets
    PROVE  Kept(Kept(sheet)) = Kept(sheet)
    BY KeptIsCueSheet, KeptHasNoLead, NothingToDrop

LEMMA NoSheet == <<>> \in Sheets /\ IsCueSheet(<<>>) /\ Kept(<<>>) = <<>>
<1>1. <<>> \in Sheets /\ DOMAIN <<>> = {}
    BY DEF Sheets
<1>2. IsCueSheet(<<>>)
    BY <1>1 DEF IsCueSheet
<1> QED BY <1>1, <1>2, NothingToDrop

-----------------------------------------------------------------------------
(* DATs in canonical form, and the roms that are stored.                   *)

\* The key under which a rom in canonical form is stored.
LEMMA NumberedTrack ==
    ASSUME NEW number \in Nat \cup {NoNumber}, NEW total \in Nat, total > 1 => number \in Nat, NEW ext
    PROVE  TrackOf(Numbered(<<"Track">>, number, total, ext)) =
              IF ext = "iso" THEN [n |-> 0, wide |-> FALSE]
              ELSE IF total > 1 THEN [n |-> number, wide |-> total >= TwoDigits]
              ELSE [n |-> 1, wide |-> FALSE]
<1>1. NoNumber \notin Nat
    BY DiscFilesAssumption
<1>2. CASE total > 1
  <2>1. Numbered(<<"Track">>, number, total, ext) = Name(<<"Track">>, number, total >= TwoDigits, ext)
      BY <1>1, <1>2 DEF Numbered
  <2> QED BY <1>1, <1>2, <2>1 DEF TrackOf, Name
<1>3. CASE ~(total > 1)
  <2>1. Numbered(<<"Track">>, number, total, ext) = Name(<<"Track">>, NoNumber, FALSE, ext)
      BY <1>3 DEF Numbered
  <2> QED BY <1>3, <2>1 DEF TrackOf, Name
<1> QED BY <1>2, <1>3

LEMMA CanonicalDat ==
    ASSUME NEW dat, RomList(dat), ValidDat(dat), NEW ext
    PROVE  /\ IsList(SimplifiedDat(dat, ext)) /\ Len(SimplifiedDat(dat, ext)) = Len(dat) /\ Len(dat) \in Nat \ {0}
           /\ \A i \in 1 .. Len(dat) :
                 /\ SimplifiedDat(dat, ext)[i].content = dat[i].content
                 /\ TrackOf(SimplifiedDat(dat, ext)[i].name) =
                       IF ext = "iso" THEN [n |-> 0, wide |-> FALSE]
                       ELSE IF Len(dat) > 1 THEN [n |-> TrackOf(dat[i].name).n, wide |-> Len(dat) >= TwoDigits]
                       ELSE [n |-> 1, wide |-> FALSE]
<1> DEFINE C == SimplifiedDat(dat, ext)
<1>1. Len(dat) \in Nat /\ DOMAIN dat = 1 .. Len(dat) /\ dat = [i \in 1 .. Len(dat) |-> dat[i]]
    BY DEF RomList, IsList
<1>2. Len(dat) # 0
  <2>1. SUFFICES ASSUME Len(dat) = 0 PROVE dat = <<>>
      BY DEF ValidDat
  <2>2. DOMAIN dat = {}
      BY <1>1, <2>1
  <2> QED BY <1>1, <2>2
<1>3. C = [i \in 1 .. Len(dat) |-> [dat[i] EXCEPT !.name = Numbered(<<"Track">>, TrackOf(dat[i].name).n, Len(dat), ext)]]
    BY <1>1 DEF SimplifiedDat
<1>4. C = [i \in 1 .. Len(dat) |-> C[i]]
    BY <1>3
<1>5. ASSUME NEW i \in 1 .. Len(dat)
      PROVE  C[i].content = dat[i].content /\ C[i].name = Numbered(<<"Track">>, TrackOf(dat[i].name).n, Len(dat), ext)
  <2>1. dat[i] = [name |-> dat[i].name, content |-> dat[i].content]
      BY <1>1 DEF RomList
  <2>2. C[i] = [dat[i] EXCEPT !.name = Numbered(<<"Track">>, TrackOf(dat[i].name).n, Len(dat), ext)]
      BY <1>3
  <2> QED BY <2>1, <2>2
<1> HIDE DEF C
<1>6. Len(C) = Len(dat) /\ DOMAIN C = 1 .. Len(dat)
    BY <1>1, <1>4, LengthIs
<1>7. IsList(C)
    BY <1>1, <1>4, <1>6 DEF IsList
<1>8. ASSUME NEW i \in 1 .. Len(dat)
      PROVE  TrackOf(dat[i].name).n \in Nat \cup {NoNumber} /\ (Len(dat) > 1 => TrackOf(dat[i].name).n \in Nat)
    BY <1>1 DEF RomList, ValidDat
<1>9. ASSUME NEW i \in 1 .. Len(dat)
      PROVE  TrackOf(C[i].name) = IF ext = "iso" THEN [n |-> 0, wide |-> FALSE]
                                  ELSE IF Len(dat) > 1 THEN [n |-> TrackOf(dat[i].name).n, wide |-> Len(dat) >= TwoDigits]
                                  ELSE [n |-> 1, wide |-> FALSE]
  <2> DEFINE number == TrackOf(dat[i].name).n
  <2>1. number \in Nat \cup {NoNumber} /\ (Len(dat) > 1 => number \in Nat)
      BY <1>8
  <2>2. C[i].name = Numbered(<<"Track">>, number, Len(dat), ext)
      BY <1>5
  <2> HIDE DEF number
  <2>3. TrackOf(Numbered(<<"Track">>, number, Len(dat), ext)) =
           IF ext = "iso" THEN [n |-> 0, wide |-> FALSE]
           ELSE IF Len(dat) > 1 THEN [n |-> number, wide |-> Len(dat) >= TwoDigits]
           ELSE [n |-> 1, wide |-> FALSE]
      BY <1>1, <2>1, NumberedTrack
  <2> QED BY <2>2, <2>3 DEF number
<1> QED BY <1>1, <1>2, <1>5, <1>6, <1>7, <1>9 DEF C

\* Roms whose numbers are all padded or all not.
Keyed(dat, w) ==
    /\ IsList(dat) /\ Len(dat) # 0
    /\ \A i \in 1 .. Len(dat) : TrackOf(dat[i].name).n \in Nat
    /\ \A i \in 1 .. Len(dat) : TrackOf(dat[i].name) = [n |-> TrackOf(dat[i].name).n, wide |-> w]

LEMMA StoredKeys ==
    ASSUME NEW dat, NEW w, Keyed(dat, w)
    PROVE  /\ DOMAIN StoredRoms(dat) = {TrackOf(dat[i].name) : i \in 1 .. Len(dat)} /\ DOMAIN StoredRoms(dat) # {}
           /\ InLine(DOMAIN StoredRoms(dat), Numbers(StoredRoms(dat)))
<1> DEFINE K == {TrackOf(dat[i].name) : i \in 1 .. Len(dat)}
<1>1. Len(dat) \in Nat /\ DOMAIN dat = 1 .. Len(dat) /\ 1 \in 1 .. Len(dat)
    BY DEF Keyed, IsList
<1>2. DOMAIN StoredRoms(dat) = K
    BY <1>1 DEF StoredRoms
<1>3. K # {}
    BY <1>1
<1>4. IsFiniteSet(K)
  <2> DEFINE S == 1 .. Len(dat)
             key == [i \in S |-> TrackOf(dat[i].name)]
  <2>1. IsFiniteSet(S)
      BY <1>1, FS_Interval
  <2>2. key \in [S -> K] /\ \A k \in K : \E i \in S : key[i] = k
      OBVIOUS
  <2>3. key \in Surjection(S, K)
    <3> HIDE DEF S, K, key
    <3> QED BY <2>2 DEF Surjection
  <2> HIDE DEF S, K, key
  <2> QED BY <2>1, <2>3, FS_Surjection
<1>5. \A k \in K : k.n \in Nat /\ k = [n |-> k.n, wide |-> w]
    BY DEF Keyed
<1> HIDE DEF K
<1>6. InLine(K, [k \in K |-> k.n])
  <2>1. ASSUME NEW k \in K, NEW l \in K, k.n = l.n PROVE k = l
      BY <1>5, <2>1
  <2> QED BY <1>4, <1>5, <2>1 DEF InLine
<1> QED BY <1>2, <1>3, <1>6 DEF Numbers, K

\* Roms with numbers of their own are all stored.
LEMMA AllStored ==
    ASSUME NEW dat, NEW w, Keyed(dat, w),
           \A i, j \in 1 .. Len(dat) : TrackOf(dat[i].name).n = TrackOf(dat[j].name).n => i = j
    PROVE  /\ Cardinality(DOMAIN StoredRoms(dat)) = Len(dat)
           /\ \A i \in 1 .. Len(dat) : /\ TrackOf(dat[i].name) \in DOMAIN StoredRoms(dat)
                                        /\ StoredRoms(dat)[TrackOf(dat[i].name)] = dat[i].content
<1> DEFINE key == [i \in 1 .. Len(dat) |-> TrackOf(dat[i].name)]
<1>1. Len(dat) \in Nat /\ DOMAIN dat = 1 .. Len(dat)
    BY DEF Keyed, IsList
<1>2. \A i, j \in 1 .. Len(dat) : key[i] = key[j] => i = j
    OBVIOUS
<1>3. DOMAIN StoredRoms(dat) = {key[i] : i \in 1 .. Len(dat)}
    BY <1>1 DEF StoredRoms
<1>4. IsFiniteSet(1 .. Len(dat)) /\ Cardinality(1 .. Len(dat)) = Len(dat)
    BY <1>1, FS_Interval
<1>5. Cardinality(DOMAIN StoredRoms(dat)) = Len(dat)
  <2> DEFINE S == 1 .. Len(dat)
  <2>1. IsFiniteSet(S) /\ \A i, j \in S : key[i] = key[j] => i = j
      BY <1>2, <1>4
  <2>2. DOMAIN StoredRoms(dat) = {key[i] : i \in S} /\ Cardinality(S) = Len(dat)
      BY <1>3, <1>4
  <2> HIDE DEF key, S
  <2>3. Cardinality({key[i] : i \in S}) = Cardinality(S)
      BY <2>1, AsManyValues
  <2> QED BY <2>2, <2>3
<1>6. ASSUME NEW i \in 1 .. Len(dat) PROVE StoredRoms(dat)[key[i]] = dat[i].content
  <2>1. {j \in DOMAIN dat : TrackOf(dat[j].name) = key[i]} = {i}
      BY <1>1, <1>2
  <2>2. LastOf({i}) = i
    <3>1. {i} \in SUBSET Nat /\ \A j \in {i} : j <= i
        BY <1>1
    <3> QED BY <3>1, LastIs
  <2>3. key[i] \in {TrackOf(dat[j].name) : j \in DOMAIN dat}
      BY <1>1
  <2> HIDE DEF key
  <2> QED BY <2>1, <2>2, <2>3 DEF StoredRoms
<1> QED BY <1>3, <1>5, <1>6

LEMMA CanonicalKeyed ==
    ASSUME NEW dat, RomList(dat), ValidDat(dat), NEW ext
    PROVE  /\ \E w : Keyed(SimplifiedDat(dat, ext), w)
           /\ RomsStand(StoredRoms(SimplifiedDat(dat, ext)), ext)
<1> DEFINE C == SimplifiedDat(dat, ext)
<1>1. /\ IsList(C) /\ Len(C) = Len(dat) /\ Len(dat) \in Nat \ {0}
      /\ \A i \in 1 .. Len(dat) :
            TrackOf(C[i].name) = IF ext = "iso" THEN [n |-> 0, wide |-> FALSE]
                                 ELSE IF Len(dat) > 1 THEN [n |-> TrackOf(dat[i].name).n, wide |-> Len(dat) >= TwoDigits]
                                 ELSE [n |-> 1, wide |-> FALSE]
    BY CanonicalDat
<1>2. ASSUME NEW i \in 1 .. Len(dat), Len(dat) > 1 PROVE TrackOf(dat[i].name).n \in Nat
    BY <1>1, <1>2 DEF RomList, IsList, ValidDat
<1>3. ASSUME NEW v, NEW m, \A i \in 1 .. Len(dat) : TrackOf(C[i].name) = [n |-> m[i], wide |-> v] /\ m[i] \in Nat
      PROVE  Keyed(C, v)
  <2> HIDE DEF C
  <2>1. ASSUME NEW i \in 1 .. Len(dat) PROVE TrackOf(C[i].name).n = m[i]
    <3>1. TrackOf(C[i].name) = [n |-> m[i], wide |-> v]
        BY <1>3
    <3> QED BY <3>1
  <2> QED BY <1>1, <1>3, <2>1 DEF Keyed
<1>4. /\ \E v : Keyed(C, v)
      /\ ext = "iso" => \A i \in 1 .. Len(C) : TrackOf(C[i].name).n = 0
  <2>1. CASE ext = "iso"
    <3> DEFINE m == [i \in 1 .. Len(dat) |-> 0]
    <3>1. \A i \in 1 .. Len(dat) : TrackOf(C[i].name) = [n |-> m[i], wide |-> FALSE] /\ m[i] \in Nat
        BY <1>1, <2>1
    <3>2. \A i \in 1 .. Len(dat) : TrackOf(C[i].name).n = 0
        BY <1>1, <2>1
    <3> HIDE DEF C, m
    <3>3. Keyed(C, FALSE)
        BY <1>3, <3>1
    <3> QED BY <1>1, <3>2, <3>3
  <2>2. CASE ext # "iso" /\ Len(dat) > 1
    <3> DEFINE m == [i \in 1 .. Len(dat) |-> TrackOf(dat[i].name).n]
    <3>1. \A i \in 1 .. Len(dat) : TrackOf(C[i].name) = [n |-> m[i], wide |-> Len(dat) >= TwoDigits] /\ m[i] \in Nat
        BY <1>1, <1>2, <2>2
    <3> HIDE DEF C, m
    <3>2. Keyed(C, Len(dat) >= TwoDigits)
        BY <1>3, <3>1
    <3> QED BY <2>2, <3>2
  <2>3. CASE ext # "iso" /\ ~(Len(dat) > 1)
    <3> DEFINE m == [i \in 1 .. Len(dat) |-> 1]
    <3>1. \A i \in 1 .. Len(dat) : TrackOf(C[i].name) = [n |-> m[i], wide |-> FALSE] /\ m[i] \in Nat
        BY <1>1, <2>3
    <3> HIDE DEF C, m
    <3>2. Keyed(C, FALSE)
        BY <1>3, <3>1
    <3> QED BY <2>3, <3>2
  <2> QED BY <2>1, <2>2, <2>3
<1> HIDE DEF C
<1>5. /\ DOMAIN StoredRoms(C) = {TrackOf(C[i].name) : i \in 1 .. Len(C)} /\ DOMAIN StoredRoms(C) # {}
      /\ InLine(DOMAIN StoredRoms(C), Numbers(StoredRoms(C)))
    BY <1>4, StoredKeys
<1>6. RomsStand(StoredRoms(C), ext)
    BY <1>4, <1>5 DEF RomsStand
<1> QED BY <1>4, <1>6 DEF C

\* A dump with numbers of its own that is not one rom is not an image.
LEMMA ProperNumbers ==
    ASSUME NEW dat, IsList(dat), NEW ext, IsProper(dat, ext)
    PROVE  /\ \A i, j \in 1 .. Len(dat) : TrackOf(dat[i].name).n = TrackOf(dat[j].name).n => i = j
           /\ Len(dat) > 1 => ext # "iso"
<1>1. Len(dat) \in Nat /\ DOMAIN dat = 1 .. Len(dat)
    BY DEF IsList
<1>2. ASSUME NEW i \in 1 .. Len(dat), NEW j \in 1 .. Len(dat), TrackOf(dat[i].name).n = TrackOf(dat[j].name).n
      PROVE  i = j
  <2>1. ~(i < j) /\ ~(j < i)
      BY <1>1, <1>2 DEF IsProper, HasNumbersOfItsOwn
  <2> QED BY <1>1, <2>1
<1>3. ASSUME Len(dat) > 1 PROVE ext # "iso"
  <2>1. SUFFICES ASSUME ext = "iso" PROVE FALSE
      OBVIOUS
  <2>2. 1 \in 1 .. Len(dat) /\ 2 \in 1 .. Len(dat)
      BY <1>1, <1>3
  <2>3. dat[1].name.ext = "iso" /\ dat[2].name.ext = "iso"
      BY <1>1, <2>1, <2>2 DEF IsProper
  <2>4. TrackOf(dat[1].name).n = TrackOf(dat[2].name).n
      BY <2>3 DEF TrackOf
  <2> QED BY <1>2, <2>2, <2>4
<1> QED BY <1>2, <1>3

\* What is posted with a DAT is stored from it.
LEMMA DumpOfDat ==
    ASSUME NEW dat, RomList(dat), ValidDat(dat), NEW ext
    PROVE  DumpStands(StoredRoms(SimplifiedDat(dat, ext)), dat, ext)
<1> DEFINE C == SimplifiedDat(dat, ext)
<1>1. /\ IsList(C) /\ Len(C) = Len(dat) /\ Len(dat) \in Nat \ {0}
      /\ \A i \in 1 .. Len(dat) :
            /\ C[i].content = dat[i].content
            /\ TrackOf(C[i].name) = IF ext = "iso" THEN [n |-> 0, wide |-> FALSE]
                                    ELSE IF Len(dat) > 1 THEN [n |-> TrackOf(dat[i].name).n, wide |-> Len(dat) >= TwoDigits]
                                    ELSE [n |-> 1, wide |-> FALSE]
    BY CanonicalDat
<1>2. PICK w : Keyed(C, w)
    BY CanonicalKeyed
<1> HIDE DEF C
<1>3. IsList(dat) /\ DOMAIN dat = 1 .. Len(dat)
    BY DEF RomList, IsList
<1>4. ASSUME IsProper(dat, ext)
      PROVE  /\ Cardinality(DOMAIN StoredRoms(C)) = Len(dat)
             /\ \A i \in DOMAIN dat : \E k \in DOMAIN StoredRoms(C) :
                   /\ StoredRoms(C)[k] = dat[i].content
                   /\ k.n = IF Len(dat) > 1 THEN TrackOf(dat[i].name).n ELSE IF ext = "iso" THEN 0 ELSE 1
  <2>1. /\ \A i, j \in 1 .. Len(dat) : TrackOf(dat[i].name).n = TrackOf(dat[j].name).n => i = j
        /\ Len(dat) > 1 => ext # "iso"
      BY <1>3, <1>4, ProperNumbers
  <2>2. ASSUME NEW i \in 1 .. Len(dat)
        PROVE  TrackOf(C[i].name).n = IF Len(dat) > 1 THEN TrackOf(dat[i].name).n ELSE IF ext = "iso" THEN 0 ELSE 1
    <3>1. CASE Len(dat) > 1
      <4>1. TrackOf(C[i].name) = [n |-> TrackOf(dat[i].name).n, wide |-> Len(dat) >= TwoDigits]
          BY <1>1, <2>1, <3>1
      <4> QED BY <3>1, <4>1
    <3>2. CASE ~(Len(dat) > 1)
      <4>1. TrackOf(C[i].name) = [n |-> IF ext = "iso" THEN 0 ELSE 1, wide |-> FALSE]
          BY <1>1, <3>2
      <4> QED BY <3>2, <4>1
    <3> QED BY <3>1, <3>2
  <2>3. ASSUME NEW i \in 1 .. Len(C), NEW j \in 1 .. Len(C), TrackOf(C[i].name).n = TrackOf(C[j].name).n
        PROVE  i = j
    <3>1. CASE Len(dat) > 1
        BY <1>1, <2>1, <2>2, <2>3, <3>1
    <3>2. CASE ~(Len(dat) > 1)
        BY <1>1, <3>2
    <3> QED BY <3>1, <3>2
  <2>4. /\ Cardinality(DOMAIN StoredRoms(C)) = Len(C)
        /\ \A i \in 1 .. Len(C) : /\ TrackOf(C[i].name) \in DOMAIN StoredRoms(C)
                                   /\ StoredRoms(C)[TrackOf(C[i].name)] = C[i].content
      BY <1>2, <2>3, AllStored
  <2> QED BY <1>1, <1>3, <2>2, <2>4
<1> QED BY <1>3, <1>4 DEF DumpStands, C

-----------------------------------------------------------------------------
(* What the form of a disc shows.                                          *)

\* The roms of a disc in the order of their tracks.
LEMMA KeysOfRoms ==
    ASSUME NEW d, RomsStand(d.roms, d.ext)
    PROVE  /\ Total(d) \in Nat \ {0} /\ DOMAIN Keys(d) = 1 .. Total(d)
           /\ \A i \in 1 .. Total(d) : Keys(d)[i] \in DOMAIN d.roms /\ Keys(d)[i].n \in Nat
           /\ \A i, j \in 1 .. Total(d) : Keys(d)[i].n = Keys(d)[j].n => i = j
           /\ \A k \in DOMAIN d.roms : \E i \in 1 .. Total(d) : Keys(d)[i] = k
           /\ Total(d) > 1 => d.ext # "iso"
<1> DEFINE R == DOMAIN d.roms
           N == Cardinality(R)
           L == Listing(R, Numbers(d.roms))
<1>1. Keys(d) = L /\ Total(d) = N
    BY DEF Keys, ByTrack, Total, Numbers
<1>2. InLine(R, Numbers(d.roms)) /\ R # {}
    BY DEF RomsStand
<1>3. /\ N \in Nat /\ DOMAIN L = 1 .. N
      /\ \A i \in 1 .. N : L[i] \in R
      /\ \A x \in R : Rank(R, Numbers(d.roms), x) \in 1 .. N /\ L[Rank(R, Numbers(d.roms), x)] = x
      /\ \A i, j \in 1 .. N : L[i] = L[j] => i = j
    BY <1>2, Listed
<1>4. \A k \in R : Numbers(d.roms)[k] = k.n
    BY DEF Numbers
<1>5. (\A k \in R : k.n \in Nat) /\ (\A k, l \in R : k.n = l.n => k = l) /\ (d.ext = "iso" => \A k \in R : k.n = 0)
    BY <1>2, <1>4 DEF InLine, RomsStand
<1> HIDE DEF R, N, L
<1>6. N # 0
    BY <1>2, <1>3
<1>7. ASSUME NEW i \in 1 .. N, NEW j \in 1 .. N, L[i].n = L[j].n PROVE i = j
    BY <1>3, <1>5, <1>7
<1>8. ASSUME N > 1 PROVE d.ext # "iso"
  <2>1. SUFFICES ASSUME d.ext = "iso" PROVE FALSE
      OBVIOUS
  <2>2. 1 \in 1 .. N /\ 2 \in 1 .. N
      BY <1>3, <1>8
  <2>3. L[1].n = L[2].n
      BY <1>3, <1>5, <2>1, <2>2
  <2> QED BY <1>7, <2>2, <2>3
<1> QED BY <1>1, <1>3, <1>5, <1>6, <1>7, <1>8 DEF R

\* It shows a DAT in canonical form.
LEMMA SnapshotDat ==
    ASSUME NEW d, RomsStand(d.roms, d.ext), NEW dat, dat = Snapshot(d).dat
    PROVE  /\ RomList(dat) /\ ValidDat(dat) /\ SimplifiedDat(dat, d.ext) = dat /\ Len(dat) = Total(d)
           /\ \E w : Keyed(dat, w)
           /\ \A i \in 1 .. Total(d) :
                 /\ dat[i].content = d.roms[Keys(d)[i]]
                 /\ TrackOf(dat[i].name).n = IF Total(d) > 1 THEN Keys(d)[i].n ELSE IF d.ext = "iso" THEN 0 ELSE 1
<1> DEFINE N == Total(d)
           K == Keys(d)
<1>1. /\ N \in Nat \ {0} /\ DOMAIN K = 1 .. N
      /\ \A i \in 1 .. N : K[i] \in DOMAIN d.roms /\ K[i].n \in Nat
      /\ N > 1 => d.ext # "iso"
    BY KeysOfRoms
<1>2. dat = [i \in 1 .. N |-> [name |-> Numbered(<<"Track">>, K[i].n, N, d.ext), content |-> d.roms[K[i]]]]
    BY <1>1 DEF Snapshot
<1> HIDE DEF N, K
<1>3. Len(dat) = N
  <2>1. dat = [i \in 1 .. N |-> dat[i]]
      BY <1>2
  <2> QED BY <1>1, <2>1, LengthIs
<1>4. IsList(dat)
    BY <1>1, <1>2, <1>3 DEF IsList
<1>5. ASSUME NEW i \in 1 .. N
      PROVE  /\ dat[i].name = Numbered(<<"Track">>, K[i].n, N, d.ext) /\ dat[i].content = d.roms[K[i]]
             /\ dat[i] = [name |-> dat[i].name, content |-> dat[i].content]
    BY <1>2
<1>6. ASSUME NEW i \in 1 .. N
      PROVE  TrackOf(dat[i].name) = IF d.ext = "iso" THEN [n |-> 0, wide |-> FALSE]
                                    ELSE IF N > 1 THEN [n |-> K[i].n, wide |-> N >= TwoDigits]
                                    ELSE [n |-> 1, wide |-> FALSE]
  <2> DEFINE number == K[i].n
  <2>1. number \in Nat
      BY <1>1
  <2>2. dat[i].name = Numbered(<<"Track">>, number, N, d.ext)
      BY <1>5
  <2> HIDE DEF number
  <2>3. TrackOf(Numbered(<<"Track">>, number, N, d.ext)) =
           IF d.ext = "iso" THEN [n |-> 0, wide |-> FALSE]
           ELSE IF N > 1 THEN [n |-> number, wide |-> N >= TwoDigits]
           ELSE [n |-> 1, wide |-> FALSE]
      BY <1>1, <2>1, NumberedTrack
  <2> QED BY <2>2, <2>3 DEF number
<1>7. ASSUME NEW i \in 1 .. N
      PROVE  TrackOf(dat[i].name).n = IF N > 1 THEN K[i].n ELSE IF d.ext = "iso" THEN 0 ELSE 1
  <2>1. CASE N > 1
    <3>1. TrackOf(dat[i].name) = [n |-> K[i].n, wide |-> N >= TwoDigits]
        BY <1>1, <1>6, <2>1
    <3> QED BY <2>1, <3>1
  <2>2. CASE ~(N > 1)
    <3>1. TrackOf(dat[i].name) = [n |-> IF d.ext = "iso" THEN 0 ELSE 1, wide |-> FALSE]
        BY <1>6, <2>2
    <3> QED BY <2>2, <3>1
  <2> QED BY <2>1, <2>2
<1>8. ASSUME NEW i \in 1 .. N PROVE TrackOf(dat[i].name).n \in Nat
    BY <1>1, <1>7
<1>9. RomList(dat)
    BY <1>1, <1>3, <1>4, <1>5, <1>8 DEF RomList, IsList
<1>10. ValidDat(dat)
  <2>1. dat # <<>>
      BY <1>1, <1>3
  <2>2. NoNumber \notin Nat
      BY DiscFilesAssumption
  <2> QED BY <1>3, <1>4, <1>8, <2>1, <2>2 DEF ValidDat, IsList
<1>11. SimplifiedDat(dat, d.ext) = dat
  <2>1. ASSUME NEW i \in 1 .. N
        PROVE  Numbered(<<"Track">>, TrackOf(dat[i].name).n, N, d.ext) = dat[i].name
    <3>1. CASE N > 1
        BY <1>5, <1>7, <3>1
    <3>2. CASE ~(N > 1)
        BY <1>5, <3>2 DEF Numbered
    <3> QED BY <3>1, <3>2
  <2>2. ASSUME NEW i \in 1 .. N, NEW name, name = dat[i].name PROVE [dat[i] EXCEPT !.name = name] = dat[i]
      BY <1>5, <2>2
  <2>3. SimplifiedDat(dat, d.ext) = [i \in 1 .. N |-> dat[i]]
      BY <1>3, <1>4, <2>1, <2>2 DEF SimplifiedDat, IsList
  <2> QED BY <1>3, <1>4, <2>3 DEF IsList
<1>12. \E w : Keyed(dat, w)
    BY <1>9, <1>10, <1>11, CanonicalKeyed
<1> QED BY <1>3, <1>5, <1>7, <1>9, <1>10, <1>11, <1>12 DEF N, K

\* It is stored again as it was.
LEMMA DumpShown ==
    ASSUME NEW d, RomsStand(d.roms, d.ext), DumpStands(d.roms, d.dump, d.ext), NEW dat, dat = Snapshot(d).dat
    PROVE  DumpStands(StoredRoms(dat), d.dump, d.ext)
<1> DEFINE N == Total(d)
           K == Keys(d)
           number(i) == IF N > 1 THEN K[i].n ELSE IF d.ext = "iso" THEN 0 ELSE 1
<1>1. SUFFICES ASSUME IsProper(d.dump, d.ext)
               PROVE  /\ Cardinality(DOMAIN StoredRoms(dat)) = Len(d.dump)
                      /\ \A i \in DOMAIN d.dump : \E k \in DOMAIN StoredRoms(dat) :
                            /\ StoredRoms(dat)[k] = d.dump[i].content
                            /\ k.n = IF Len(d.dump) > 1 THEN TrackOf(d.dump[i].name).n ELSE IF d.ext = "iso" THEN 0 ELSE 1
    BY DEF DumpStands
<1>2. /\ N = Len(d.dump)
      /\ \A i \in DOMAIN d.dump : \E k \in DOMAIN d.roms :
            /\ d.roms[k] = d.dump[i].content
            /\ k.n = IF Len(d.dump) > 1 THEN TrackOf(d.dump[i].name).n ELSE IF d.ext = "iso" THEN 0 ELSE 1
    BY <1>1 DEF DumpStands, Total
<1>3. /\ N \in Nat \ {0}
      /\ \A i, j \in 1 .. N : K[i].n = K[j].n => i = j
      /\ \A k \in DOMAIN d.roms : \E i \in 1 .. N : K[i] = k
    BY KeysOfRoms
<1>4. /\ Len(dat) = N
      /\ \E w : Keyed(dat, w)
      /\ \A i \in 1 .. N : dat[i].content = d.roms[K[i]] /\ TrackOf(dat[i].name).n = number(i)
    BY SnapshotDat
<1> HIDE DEF N, K
<1>5. ASSUME NEW i \in 1 .. Len(dat), NEW j \in 1 .. Len(dat), TrackOf(dat[i].name).n = TrackOf(dat[j].name).n
      PROVE  i = j
  <2>1. CASE N > 1
      BY <1>3, <1>4, <1>5, <2>1
  <2>2. CASE ~(N > 1)
      BY <1>3, <1>4, <2>2
  <2> QED BY <2>1, <2>2
<1>6. PICK w : Keyed(dat, w)
    BY <1>4
<1>7. /\ Cardinality(DOMAIN StoredRoms(dat)) = Len(dat)
      /\ \A i \in 1 .. Len(dat) : /\ TrackOf(dat[i].name) \in DOMAIN StoredRoms(dat)
                                   /\ StoredRoms(dat)[TrackOf(dat[i].name)] = dat[i].content
    BY <1>5, <1>6, AllStored
<1>8. ASSUME NEW i \in DOMAIN d.dump
      PROVE  \E k \in DOMAIN StoredRoms(dat) :
                /\ StoredRoms(dat)[k] = d.dump[i].content
                /\ k.n = IF Len(d.dump) > 1 THEN TrackOf(d.dump[i].name).n ELSE IF d.ext = "iso" THEN 0 ELSE 1
  <2>1. PICK k \in DOMAIN d.roms :
            /\ d.roms[k] = d.dump[i].content
            /\ k.n = IF N > 1 THEN TrackOf(d.dump[i].name).n ELSE IF d.ext = "iso" THEN 0 ELSE 1
      BY <1>2
  <2>2. PICK j \in 1 .. N : K[j] = k
      BY <1>3
  <2>3. dat[j].content = d.dump[i].content /\ TrackOf(dat[j].name).n = k.n
      BY <1>4, <2>1, <2>2
  <2>4. TrackOf(dat[j].name) \in DOMAIN StoredRoms(dat) /\ StoredRoms(dat)[TrackOf(dat[j].name)] = dat[j].content
      BY <1>4, <1>7
  <2> QED BY <1>2, <2>1, <2>3, <2>4
<1> QED BY <1>2, <1>4, <1>7, <1>8

-----------------------------------------------------------------------------
(* The steps.                                                              *)

\* The fields of a form in canonical form.
LEMMA CanonicalFields ==
    ASSUME NEW p, FormTyped(p)
    PROVE  /\ Canonical(p).cue = Simplified([given |-> p.cue.sheet # <<>>, sheet |-> p.cue.sheet, names |-> p.cue.names], p.ext)
           /\ Canonical(p).dat = SimplifiedDat(p.dat, p.ext)
           /\ Canonical(p).sbi = IF p.ext = "bin" THEN p.sbi ELSE <<>>
           /\ Canonical(p).base = Supported(p.base) /\ Canonical(p).ext = p.ext /\ Canonical(p).dump = p.dump
<1> DEFINE given == p.cue.sheet # <<>>
           cue == [p.cue EXCEPT !.given = given]
           sbi == IF p.ext = "bin" THEN p.sbi ELSE <<>>
<1>1. /\ p = [base |-> p.base, ext |-> p.ext, cue |-> p.cue, dat |-> p.dat, sbi |-> p.sbi, dump |-> p.dump]
      /\ p.cue = [given |-> p.cue.given, sheet |-> p.cue.sheet, names |-> p.cue.names]
    BY DEF FormTyped
<1>2. cue = [given |-> given, sheet |-> p.cue.sheet, names |-> p.cue.names]
  <2> HIDE DEF given
  <2> QED BY <1>1
<1>3. Canonical(p) = [p EXCEPT !.base = Supported(p.base), !.cue = Simplified(cue, p.ext), !.dat = SimplifiedDat(p.dat, p.ext), !.sbi = sbi]
    BY DEF Canonical
<1> HIDE DEF cue, sbi
<1>4. /\ Canonical(p).cue = Simplified(cue, p.ext) /\ Canonical(p).dat = SimplifiedDat(p.dat, p.ext)
      /\ Canonical(p).sbi = sbi
      /\ Canonical(p).base = Supported(p.base) /\ Canonical(p).ext = p.ext /\ Canonical(p).dump = p.dump
    BY <1>1, <1>3
<1> QED BY <1>2, <1>4 DEF sbi

\* The dump of a form is its DAT, or that of the disc it was opened on if it
\* still shows the disc's files.
HasDump(p) ==
    \/ p.dump = p.dat
    \/ \E d : DiscStands(d) /\ p.dat = Snapshot(d).dat /\ p.ext = d.ext /\ p.dump = d.dump

LEMMA FormStands ==
    ASSUME NEW p, FormTyped(p), HasDump(p), ValidPost(p)
    PROVE  PostStands(Canonical(p))
<1> DEFINE c == Canonical(p)
           raw == [given |-> p.cue.sheet # <<>>, sheet |-> p.cue.sheet, names |-> p.cue.names]
<1>1. /\ c.cue = Simplified(raw, p.ext) /\ c.dat = SimplifiedDat(p.dat, p.ext)
      /\ c.sbi = IF p.ext = "bin" THEN p.sbi ELSE <<>>
      /\ c.ext = p.ext /\ c.dump = p.dump
    BY CanonicalFields
<1>2. /\ p.cue.sheet \in Sheets /\ RomList(p.dat) /\ IsList(p.sbi)
      /\ ValidDat(p.dat) /\ ValidSbi(p.sbi) /\ ValidCue(p.cue, p.ext)
    BY DEF FormTyped, ValidPost
<1> HIDE DEF c
<1>3. CueStands(c.cue, c.ext)
  <2>1. c.cue.sheet = Kept(p.cue.sheet) /\ c.cue.given = (p.cue.sheet # <<>>)
      BY <1>1 DEF Simplified
  <2>2. IF p.ext = "bin" THEN p.cue.sheet # <<>> /\ IsCueSheet(p.cue.sheet) ELSE p.cue.sheet = <<>>
      BY <1>2 DEF ValidCue
  <2>3. IsCueSheet(p.cue.sheet)
      BY <2>2, NoSheet
  <2>4. c.cue.sheet \in Sheets /\ IsCueSheet(c.cue.sheet) /\ Kept(c.cue.sheet) = c.cue.sheet
      BY <1>2, <2>1, <2>3, KeptIsCueSheet, KeptOnce
  <2>5. p.ext # "bin" => c.cue.sheet = <<>>
      BY <2>1, <2>2, NoSheet
  <2>6. c.cue.given = (p.ext = "bin")
      BY <2>1, <2>2
  <2> QED BY <1>1, <2>4, <2>5, <2>6 DEF CueStands
<1>4. SbiStands(c.sbi, c.ext)
  <2>1. IsList(<<>>) /\ ValidSbi(<<>>)
      BY DEF IsList, ValidSbi
  <2> QED BY <1>1, <1>2, <2>1 DEF SbiStands
<1>5. RomsStand(StoredRoms(c.dat), c.ext)
    BY <1>1, <1>2, CanonicalKeyed
<1>6. DumpStands(StoredRoms(c.dat), c.dump, c.ext)
  <2>1. CASE p.dump = p.dat
      BY <1>1, <1>2, <2>1, DumpOfDat
  <2>2. ASSUME NEW d, DiscStands(d), p.dat = Snapshot(d).dat, p.ext = d.ext, p.dump = d.dump
        PROVE  DumpStands(StoredRoms(c.dat), c.dump, c.ext)
    <3>1. RomsStand(d.roms, d.ext) /\ DumpStands(d.roms, d.dump, d.ext)
        BY <2>2 DEF DiscStands
    <3>2. SimplifiedDat(p.dat, d.ext) = p.dat
        BY <2>2, <3>1, SnapshotDat
    <3>3. DumpStands(StoredRoms(p.dat), d.dump, d.ext)
        BY <2>2, <3>1, DumpShown
    <3> QED BY <1>1, <2>2, <3>2, <3>3
  <2> QED BY <2>1, <2>2 DEF HasDump
<1> QED BY <1>3, <1>4, <1>5, <1>6 DEF PostStands, c

LEMMA PostStep ==
    ASSUME FormsInv, NEW p, FormTyped(p), HasDump(p), Post(p)
    PROVE  FormsInv'
<1>1. disc' = disc /\ posted' = IF ValidPost(p) THEN Canonical(p) ELSE NoDisc
    BY DEF Post
<1>2. ASSUME ValidPost(p) PROVE PostStands(Canonical(p))
    BY <1>2, FormStands
<1>3. posted' # NoDisc => PostStands(posted')
    BY <1>1, <1>2
<1> QED BY <1>1, <1>3 DEF FormsInv

LEMMA NewPostTyped ==
    ASSUME NEW f \in Files
    PROVE  FormTyped(NewPost(f)) /\ NewPost(f).dump = NewPost(f).dat
<1>1. f.sheet \in Seq(CueLines) /\ f.dat \in Seq(Roms) /\ f.sbi \in Seq(SbiLines) /\ NoNumber \notin Nat
    BY DiscFilesAssumption
<1> DEFINE p == NewPost(f)
           names == [n \in DOMAIN FileNumbers(f.sheet) |-> Name(<<"dump">>, NoNumber, FALSE, "bin")]
<1>2. p = [base |-> f.base, ext |-> f.ext, dat |-> f.dat, sbi |-> f.sbi, dump |-> f.dat,
           cue |-> [given |-> f.sheet # <<>>, sheet |-> f.sheet, names |-> names]]
    BY DEF NewPost
<1> HIDE DEF p, names
<1>3. /\ p = [base |-> p.base, ext |-> p.ext, cue |-> p.cue, dat |-> p.dat, sbi |-> p.sbi, dump |-> p.dump]
      /\ p.dat = f.dat /\ p.sbi = f.sbi /\ p.dump = f.dat
      /\ p.cue = [given |-> f.sheet # <<>>, sheet |-> f.sheet, names |-> names]
    BY <1>2
<1>4. p.cue = [given |-> p.cue.given, sheet |-> p.cue.sheet, names |-> p.cue.names] /\ p.cue.sheet = f.sheet
    BY <1>3
<1>5. RomList(f.dat)
  <2>1. Len(f.dat) \in Nat /\ DOMAIN f.dat = 1 .. Len(f.dat) /\ \A i \in 1 .. Len(f.dat) : f.dat[i] \in Roms
      BY <1>1
  <2>2. IsList(f.dat)
      BY <1>1 DEF IsList
  <2>3. ASSUME NEW r \in Roms PROVE r = [name |-> r.name, content |-> r.content] /\ TrackOf(r.name).n \in Nat \cup {NoNumber}
    <3>1. r.name \in FileNames
        BY DEF Roms
    <3>2. r.name.num \in Nat \cup {NoNumber}
        BY <3>1 DEF FileNames
    <3>3. TrackOf(r.name).n \in Nat \cup {NoNumber}
        BY <3>2 DEF TrackOf
    <3> QED BY <3>3 DEF Roms
  <2> QED BY <2>1, <2>2, <2>3 DEF RomList
<1>6. IsList(f.sbi)
    BY <1>1 DEF IsList
<1> QED BY <1>1, <1>3, <1>4, <1>5, <1>6 DEF FormTyped, Sheets, p

\* What a form shows, with the fields that are changed.
LEMMA EditedTyped ==
    ASSUME NEW d, DiscStands(d), NEW f \in Files, NEW changed \in Changes,
           NEW e, e = [field \in DOMAIN Snapshot(d) |-> IF field \in changed THEN NewPost(f)[field] ELSE Snapshot(d)[field]]
    PROVE  /\ FormTyped(e) /\ e.dump = d.dump
           /\ changed \cap {"dat", "ext"} = {} => e.dat = Snapshot(d).dat /\ e.ext = d.ext
<1> DEFINE shown == Snapshot(d)
           post == NewPost(f)
<1>1. /\ shown.base = d.base /\ shown.ext = d.ext /\ shown.cue = Simplified(d.cue, d.ext) /\ shown.sbi = d.sbi
      /\ shown.dump = d.dump /\ DOMAIN shown = {"base", "ext", "cue", "sbi", "dump", "dat"}
    BY DEF Snapshot
<1>2. FormTyped(post) /\ RomList(shown.dat)
    BY NewPostTyped, SnapshotDat DEF DiscStands
<1> HIDE DEF shown, post
<1>3. changed \subseteq {"base", "ext", "cue", "dat", "sbi"}
    BY DiscFilesAssumption
<1>4. \A field \in {"base", "ext", "cue", "sbi", "dump", "dat"} :
         e[field] = IF field \in changed THEN post[field] ELSE shown[field]
    BY <1>1 DEF shown, post
<1>5. e = [base |-> e.base, ext |-> e.ext, cue |-> e.cue, dat |-> e.dat, sbi |-> e.sbi, dump |-> e.dump]
    BY <1>1 DEF shown
<1>6. e.dump = d.dump /\ (changed \cap {"dat", "ext"} = {} => e.dat = shown.dat /\ e.ext = d.ext)
    BY <1>1, <1>3, <1>4
<1>7. RomList(e.dat)
    BY <1>2, <1>4 DEF FormTyped
<1>8. IsList(e.sbi)
    BY <1>1, <1>2, <1>4 DEF FormTyped, DiscStands, SbiStands
<1>9. e.cue = [given |-> e.cue.given, sheet |-> e.cue.sheet, names |-> e.cue.names] /\ e.cue.sheet \in Sheets
  <2>1. CASE "cue" \in changed
      BY <1>2, <1>4, <2>1 DEF FormTyped
  <2>2. CASE "cue" \notin changed
    <3>1. e.cue = Simplified(d.cue, d.ext)
        BY <1>1, <1>4, <2>2
    <3>2. Kept(d.cue.sheet) \in Sheets
        BY DEF DiscStands, CueStands
    <3> QED BY <3>1, <3>2 DEF Simplified
  <2> QED BY <2>1, <2>2
<1> QED BY <1>5, <1>6, <1>7, <1>8, <1>9 DEF FormTyped, shown

LEMMA EditStep ==
    ASSUME FormsInv, NEW f \in Files, NEW changed \in Changes, EditDisc(NewPost(f), changed)
    PROVE  FormsInv'
<1> DEFINE e == [field \in DOMAIN Snapshot(disc) |-> IF field \in changed THEN NewPost(f)[field] ELSE Snapshot(disc)[field]]
           p == IF changed \cap {"dat", "ext"} = {} THEN e ELSE [e EXCEPT !.dump = e.dat]
<1>1. DiscStands(disc) /\ Post(p)
    BY DEF EditDisc, FormsInv
<1>2. /\ FormTyped(e) /\ e.dump = disc.dump
      /\ changed \cap {"dat", "ext"} = {} => e.dat = Snapshot(disc).dat /\ e.ext = disc.ext
    BY <1>1, EditedTyped
<1> HIDE DEF e
<1>3. FormTyped(p) /\ HasDump(p)
  <2>1. CASE changed \cap {"dat", "ext"} = {}
    <3>1. p = e
        BY <2>1
    <3> HIDE DEF p
    <3> QED BY <1>1, <1>2, <2>1, <3>1 DEF HasDump
  <2>2. CASE changed \cap {"dat", "ext"} # {}
    <3>1. p = [e EXCEPT !.dump = e.dat]
        BY <2>2
    <3>2. e = [base |-> e.base, ext |-> e.ext, cue |-> e.cue, dat |-> e.dat, sbi |-> e.sbi, dump |-> e.dump]
        BY <1>2 DEF FormTyped
    <3> HIDE DEF p
    <3>3. p = [base |-> e.base, ext |-> e.ext, cue |-> e.cue, dat |-> e.dat, sbi |-> e.sbi, dump |-> e.dat]
        BY <3>1, <3>2
    <3>4. /\ p = [base |-> p.base, ext |-> p.ext, cue |-> p.cue, dat |-> p.dat, sbi |-> p.sbi, dump |-> p.dump]
          /\ p.cue = e.cue /\ p.dat = e.dat /\ p.sbi = e.sbi /\ p.dump = p.dat
        BY <3>3
    <3> QED BY <1>2, <3>4 DEF FormTyped, HasDump
  <2> QED BY <2>1, <2>2
<1> HIDE DEF p
<1> QED BY <1>1, <1>3, PostStep

LEMMA ApproveStep ==
    ASSUME FormsInv, Approve
    PROVE  FormsInv'
<1>1. PostStands(posted) /\ disc' = Stored(disc, posted) /\ posted' = NoDisc
    BY DEF Approve, FormsInv
<1>2. ASSUME NEW old, NEW p, PostStands(p) PROVE DiscStands(Stored(old, p))
  <2> DEFINE had == old # NoDisc /\ old.hasCue
             base == Supported(p.base)
             d == [base |-> base, ext |-> p.ext, cue |-> p.cue, hasCue |-> had,
                   roms |-> StoredRoms(p.dat), sbi |-> p.sbi, dump |-> p.dump, numbered |-> numbered]
             s == Stored(old, p)
  <2>1. s = WithCue(d)
      BY DEF Stored
  <2>6. ~numbered => base = <<base[1]>>
      BY DEF Supported
  <2> HIDE DEF had, s, base
  <2>2. CueStands(p.cue, p.ext)
      BY <1>2 DEF PostStands
  <2>3. /\ SbiStands(p.sbi, p.ext) /\ RomsStand(StoredRoms(p.dat), p.ext)
        /\ DumpStands(StoredRoms(p.dat), p.dump, p.ext)
      BY <1>2 DEF PostStands
  <2>4. CASE p.ext = "bin"
    <3>1. s = [d EXCEPT !.cue = Finalized(p.cue, base, p.ext), !.hasCue = TRUE]
        BY <2>1, <2>2, <2>4 DEF WithCue, CueStands
    <3> DEFINE cue == Finalized(p.cue, base, p.ext)
    <3>2. cue.sheet = p.cue.sheet /\ cue.given = p.cue.given /\ cue.names = NamesOf(p.cue.sheet, base, p.ext)
        BY <2>2 DEF Finalized, CueStands, NamesOf
    <3> HIDE DEF cue
    <3>3. s.base = base /\ s.numbered = numbered /\ s.ext = p.ext /\ s.cue = cue /\ s.hasCue = TRUE /\ s.roms = StoredRoms(p.dat)
          /\ s.sbi = p.sbi /\ s.dump = p.dump
        BY <3>1 DEF cue
    <3>4. CueStands(s.cue, s.ext)
        BY <2>2, <3>2, <3>3 DEF CueStands
    <3>5. s.hasCue = (s.ext = "bin")
        BY <2>4, <3>3
    <3>6. s.cue.names = NamesOf(s.cue.sheet, s.base, s.ext)
        BY <3>2, <3>3
    <3>7. SbiStands(s.sbi, s.ext) /\ RomsStand(s.roms, s.ext) /\ DumpStands(s.roms, s.dump, s.ext)
        BY <2>3, <3>3
    <3>8. ~s.numbered => s.base = <<s.base[1]>>
        BY <2>6, <3>3
    <3> QED BY <2>4, <3>4, <3>5, <3>6, <3>7, <3>8 DEF DiscStands, s
  <2>5. CASE p.ext # "bin"
    <3>1. s = [d EXCEPT !.hasCue = FALSE]
        BY <2>1, <2>5 DEF WithCue
    <3>2. s.base = base /\ s.numbered = numbered /\ s.ext = p.ext /\ s.cue = p.cue /\ s.hasCue = FALSE /\ s.roms = StoredRoms(p.dat)
          /\ s.sbi = p.sbi /\ s.dump = p.dump
        BY <3>1
    <3>3. s.hasCue = (s.ext = "bin")
        BY <2>5, <3>2
    <3>4. CueStands(s.cue, s.ext)
        BY <2>2, <3>2
    <3>5. SbiStands(s.sbi, s.ext) /\ RomsStand(s.roms, s.ext) /\ DumpStands(s.roms, s.dump, s.ext)
        BY <2>3, <3>2
    <3>6. s.ext # "bin"
        BY <2>5, <3>2
    <3>7. ~s.numbered => s.base = <<s.base[1]>>
        BY <2>6, <3>2
    <3> QED BY <3>3, <3>4, <3>5, <3>6, <3>7 DEF DiscStands, s
  <2> QED BY <2>4, <2>5 DEF s
<1>3. DiscStands(disc')
    BY <1>1, <1>2
<1> QED BY <1>1, <1>3 DEF FormsInv

\* What is stored and what waits is in the form that the readers of discs
\* expect, after any number of forms and approvals (src/src/routes/disc_edit.rs,
\* build_flat_changes, and src/src/services/disc_service.rs, update_disc).
THEOREM FormsInvariance == FilesSpec => []FormsInv
<1>1. FilesInit => FormsInv
    BY DEF FilesInit, FormsInv
<1>2. FormsInv /\ [FilesNext]_fileVars => FormsInv'
  <2> SUFFICES ASSUME FormsInv, [FilesNext]_fileVars PROVE FormsInv'
      OBVIOUS
  <2>1. ASSUME NEW f \in Files, AddDisc(NewPost(f)) PROVE FormsInv'
    <3>1. FormTyped(NewPost(f)) /\ HasDump(NewPost(f)) /\ Post(NewPost(f))
        BY <2>1, NewPostTyped DEF HasDump, AddDisc
    <3> QED BY <3>1, PostStep
  <2>2. ASSUME NEW f \in Files, NEW changed \in Changes, EditDisc(NewPost(f), changed) PROVE FormsInv'
      BY <2>2, EditStep
  <2>3. CASE Approve
      BY <2>3, ApproveStep
  <2>4. CASE UpdateSystem
      BY <2>4 DEF UpdateSystem, FormsInv
  <2>5. CASE UNCHANGED fileVars
      BY <2>5 DEF fileVars, FormsInv
  <2> QED BY <2>1, <2>2, <2>3, <2>4, <2>5 DEF FilesNext
<1> QED BY <1>1, <1>2, PTL DEF FilesSpec

-----------------------------------------------------------------------------
(* The form of a disc, posted as it was opened.                            *)

\* Unless the system has lost its disc numbers, the disc's name is its own.
LEMMA NameIsKept ==
    ASSUME NEW d, DiscStands(d), KeepsNumber(d)
    PROVE  Supported(d.base) = d.base
<1>1. numbered \/ d.base = <<d.base[1]>>
    BY DEF DiscStands, KeepsNumber
<1> QED BY <1>1 DEF Supported

LEMMA Reopened ==
    ASSUME FormsInv
    PROVE  ReopeningIsNoChange
<1> SUFFICES ASSUME disc # NoDisc, KeepsNumber(disc), disc.cue.given => disc.cue.sheet # <<>>
             PROVE  ValidPost(Snapshot(disc)) /\ Canonical(Snapshot(disc)) = Snapshot(disc)
    BY DEF ReopeningIsNoChange
<1> DEFINE d == disc
           p == Snapshot(d)
<1>1. CueStands(d.cue, d.ext) /\ SbiStands(d.sbi, d.ext) /\ RomsStand(d.roms, d.ext)
    BY DEF FormsInv, DiscStands
<1>10. Supported(d.base) = d.base
    BY NameIsKept DEF FormsInv
<1>2. /\ p = [base |-> p.base, ext |-> p.ext, cue |-> p.cue, dat |-> p.dat, sbi |-> p.sbi, dump |-> p.dump]
      /\ p.ext = d.ext /\ p.sbi = d.sbi /\ p.cue = Simplified(d.cue, d.ext) /\ p.base = d.base
    BY DEF Snapshot
<1>3. RomList(p.dat) /\ ValidDat(p.dat) /\ SimplifiedDat(p.dat, d.ext) = p.dat
    BY <1>1, SnapshotDat
<1> HIDE DEF d, p
<1>4. /\ d.cue.sheet \in Sheets /\ Kept(d.cue.sheet) = d.cue.sheet /\ IsCueSheet(d.cue.sheet)
      /\ d.cue.given <=> d.ext = "bin"
      /\ d.ext # "bin" => d.cue.sheet = <<>>
    BY <1>1 DEF CueStands
<1>5. d.cue.given <=> d.cue.sheet # <<>>
    BY <1>4 DEF d
<1>6. /\ p.cue = [given |-> p.cue.given, sheet |-> p.cue.sheet, names |-> p.cue.names]
      /\ p.cue.given = d.cue.given /\ p.cue.sheet = d.cue.sheet
    BY <1>2, <1>4 DEF Simplified
<1>7. FormTyped(p)
    BY <1>1, <1>2, <1>3, <1>4, <1>6 DEF FormTyped, SbiStands
<1>8. ValidPost(p)
  <2>1. ValidCue(p.cue, p.ext)
      BY <1>2, <1>4, <1>5, <1>6 DEF ValidCue
  <2>2. ValidSbi(p.sbi)
      BY <1>1, <1>2 DEF SbiStands
  <2> QED BY <1>3, <2>1, <2>2 DEF ValidPost
<1>9. Canonical(p) = p
  <2> DEFINE given == p.cue.sheet # <<>>
             cue == [p.cue EXCEPT !.given = given]
             sbi == IF p.ext = "bin" THEN p.sbi ELSE <<>>
  <2>1. Canonical(p) = [p EXCEPT !.base = Supported(p.base), !.cue = Simplified(cue, p.ext), !.dat = SimplifiedDat(p.dat, p.ext), !.sbi = sbi]
      BY DEF Canonical
  <2>2. cue.given = given /\ cue.sheet = d.cue.sheet
    <3> HIDE DEF given
    <3> QED BY <1>6
  <2>3. Simplified(cue, p.ext) = p.cue
    <3>1. given = d.cue.given
        BY <1>1, <1>5, <1>6 DEF CueStands
    <3> HIDE DEF cue, given
    <3>2. cue.given = d.cue.given
        BY <2>2, <3>1
    <3> QED BY <1>2, <2>2, <3>2 DEF Simplified
  <2>4. sbi = p.sbi
      BY <1>1, <1>2 DEF SbiStands
  <2>5. SimplifiedDat(p.dat, p.ext) = p.dat
      BY <1>2, <1>3
  <2> HIDE DEF cue, sbi
  <2>6. \A n, c, t, b : n = p.base /\ c = p.cue /\ t = p.dat /\ b = p.sbi
                        => [p EXCEPT !.base = n, !.cue = c, !.dat = t, !.sbi = b] = p
      BY <1>2
  <2>7. Supported(p.base) = p.base
      BY <1>2, <1>10
  <2> QED BY <2>1, <2>3, <2>4, <2>5, <2>6, <2>7
<1> QED BY <1>8, <1>9 DEF d, p

\* An Edit Disc form that is posted as it was opened is valid and changes
\* nothing, whatever was posted before, unless no line of the cue sheet was
\* kept or the system has lost its disc numbers (src/src/services/disc_service.rs, build_snapshot_from_disc).
THEOREM ReopeningChangesNothing == FilesSpec => []ReopeningIsNoChange
<1>1. FormsInv => ReopeningIsNoChange
    BY Reopened
<1> QED BY <1>1, FormsInvariance, PTL

-----------------------------------------------------------------------------
(* DATs that are looked up.                                                *)

\* The rom of each number.
RomOfEach(roms, dat) ==
    \A i \in 1 .. Len(dat) : \E k \in DOMAIN roms : k.n = TrackOf(dat[i].name).n /\ roms[k] = dat[i].content

\* As many roms as tracks of different numbers are those tracks.
LEMMA TracksOfRoms ==
    ASSUME NEW roms, InLine(DOMAIN roms, Numbers(roms)), NEW dat, IsList(dat),
           \A i, j \in 1 .. Len(dat) : TrackOf(dat[i].name).n = TrackOf(dat[j].name).n => i = j,
           Cardinality(DOMAIN roms) = Len(dat), RomOfEach(roms, dat)
    PROVE  NumberedTracks(dat) = {<<k.n, roms[k]>> : k \in DOMAIN roms}
<1> DEFINE R == DOMAIN roms
           S == 1 .. Len(dat)
           at == [i \in S |-> CHOOSE k \in R : k.n = TrackOf(dat[i].name).n /\ roms[k] = dat[i].content]
<1>1. Len(dat) \in Nat /\ DOMAIN dat = S
    BY DEF IsList
<1>2. ASSUME NEW i \in S PROVE at[i] \in R /\ at[i].n = TrackOf(dat[i].name).n /\ roms[at[i]] = dat[i].content
  <2>1. \E k \in R : k.n = TrackOf(dat[i].name).n /\ roms[k] = dat[i].content
      BY DEF RomOfEach
  <2> QED BY <2>1
<1>3. IsFiniteSet(S) /\ Cardinality(S) = Len(dat)
    BY <1>1, NumbersTo
<1>4. DOMAIN at = S
    OBVIOUS
<1>5. at = [i \in S |-> at[i]]
    OBVIOUS
<1>6. \A i, j \in S : TrackOf(dat[i].name).n = TrackOf(dat[j].name).n => i = j
    OBVIOUS
<1>7. IsFiniteSet(R) /\ Cardinality(R) = Len(dat)
    BY DEF InLine
<1> HIDE DEF R, S, at
<1>8. at \in Injection(S, R)
  <2>1. at \in [S -> R]
      BY <1>2, <1>5
  <2>2. \A i, j \in S : at[i] = at[j] => i = j
      BY <1>2, <1>6
  <2> QED BY <2>1, <2>2 DEF Injection, IsInjective
<1>9. at \in Surjection(S, R)
    BY <1>3, <1>7, <1>8, FS_Injection
<1>10. \A k \in R : \E i \in S : at[i] = k
    BY <1>9 DEF Surjection
<1>11. NumberedTracks(dat) = {<<TrackOf(dat[i].name).n, dat[i].content>> : i \in S}
    BY <1>1 DEF NumberedTracks
<1>12. {<<TrackOf(dat[i].name).n, dat[i].content>> : i \in S} = {<<k.n, roms[k]>> : k \in R}
  <2>1. ASSUME NEW i \in S
        PROVE  \E k \in R : <<TrackOf(dat[i].name).n, dat[i].content>> = <<k.n, roms[k]>>
    <3>1. at[i] \in R /\ <<TrackOf(dat[i].name).n, dat[i].content>> = <<at[i].n, roms[at[i]]>>
        BY <1>2
    <3> QED BY <3>1
  <2>2. ASSUME NEW k \in R
        PROVE  \E i \in S : <<TrackOf(dat[i].name).n, dat[i].content>> = <<k.n, roms[k]>>
    <3>1. PICK i \in S : at[i] = k
        BY <1>10
    <3>2. k.n = TrackOf(dat[i].name).n /\ roms[k] = dat[i].content
        BY <1>2, <3>1
    <3> QED BY <3>2
  <2> QED BY <2>1, <2>2
<1> QED BY <1>11, <1>12 DEF R

\* Dumps with the same numbered tracks have as many.
LEMMA AsManyTracks ==
    ASSUME NEW dat, IsList(dat),
           \A i, j \in 1 .. Len(dat) : TrackOf(dat[i].name).n = TrackOf(dat[j].name).n => i = j
    PROVE  Cardinality(NumberedTracks(dat)) = Len(dat)
<1> DEFINE S == 1 .. Len(dat)
           f == [i \in S |-> <<TrackOf(dat[i].name).n, dat[i].content>>]
<1>1. IsFiniteSet(S) /\ Cardinality(S) = Len(dat)
    BY NumbersTo DEF IsList
<1>2. NumberedTracks(dat) = {f[i] : i \in S}
    BY DEF NumberedTracks, IsList
<1>3. \A i, j \in S : f[i] = f[j] => i = j
    OBVIOUS
<1> HIDE DEF S, f
<1>4. Cardinality({f[i] : i \in S}) = Cardinality(S)
    BY <1>1, <1>3, AsManyValues
<1> QED BY <1>1, <1>2, <1>4

LEMMA Recognised ==
    ASSUME NEW d, DiscStands(d), IsProper(d.dump, d.ext),
           NEW dat, RomList(dat), ValidDat(dat), IsProper(dat, d.ext)
    PROVE  Matching(d, dat) <=> SameDump(dat, d.dump)
<1> DEFINE R == DOMAIN d.roms
           n(i) == TrackOf(dat[i].name).n
<1>1. /\ InLine(R, Numbers(d.roms)) /\ R # {} /\ IsFiniteSet(R)
      /\ IsList(d.dump) /\ Cardinality(R) = Len(d.dump)
      /\ \A i \in 1 .. Len(d.dump) : \E k \in R :
            /\ d.roms[k] = d.dump[i].content
            /\ k.n = IF Len(d.dump) > 1 THEN TrackOf(d.dump[i].name).n ELSE IF d.ext = "iso" THEN 0 ELSE 1
    BY DEF DiscStands, RomsStand, DumpStands, InLine, IsList
<1>2. /\ IsList(dat) /\ Len(dat) \in Nat \ {0} /\ DOMAIN dat = 1 .. Len(dat) /\ Len(d.dump) \in Nat
      /\ DOMAIN d.dump = 1 .. Len(d.dump) /\ 1 \in 1 .. Len(dat)
    BY <1>1, CanonicalDat DEF RomList, IsList
<1>3. /\ \A i, j \in 1 .. Len(dat) : n(i) = n(j) => i = j
      /\ \A i, j \in 1 .. Len(d.dump) : TrackOf(d.dump[i].name).n = TrackOf(d.dump[j].name).n => i = j
    BY <1>1, <1>2, ProperNumbers
<1>4. \A i, j \in DOMAIN dat : i < j => n(i) # n(j)
    BY DEF IsProper, HasNumbersOfItsOwn
<1>5. CASE Len(dat) = 1
  <2>1. ASSUME Matching(d, dat) PROVE SameDump(dat, d.dump)
    <3>1. Cardinality(R) = 1 /\ \E k \in R : d.roms[k] = dat[1].content
        BY <1>5, <2>1 DEF Matching, FilesMatch
    <3>2. \A k, l \in R : k = l
      <4>1. \E x : R = {x}
          BY <1>1, <3>1, FS_Singleton
      <4> QED BY <4>1
    <3>3. Len(d.dump) = 1
        BY <1>1, <3>1
    <3>4. \E k \in R : d.roms[k] = d.dump[1].content
        BY <1>1, <3>3
    <3> QED BY <1>5, <3>1, <3>2, <3>3, <3>4 DEF SameDump
  <2>2. ASSUME SameDump(dat, d.dump) PROVE Matching(d, dat)
    <3>1. Len(d.dump) = 1 /\ dat[1].content = d.dump[1].content
        BY <1>5, <2>2 DEF SameDump
    <3>2. PICK k \in R : d.roms[k] = dat[1].content /\ k.n = IF d.ext = "iso" THEN 0 ELSE 1
        BY <1>1, <3>1
    <3>3. \A l \in R : l = k
      <4>1. \E x : R = {x}
          BY <1>1, <3>1, FS_Singleton
      <4> QED BY <4>1
    <3>4. ASSUME n(1) # NoNumber PROVE n(1) = k.n
      <4>1. dat[1].name.ext = d.ext /\ dat[1].name.num \in {NoNumber, 1}
          BY <1>2, <1>5 DEF IsProper
      <4>2. CASE d.ext = "iso"
          BY <3>2, <4>1, <4>2 DEF TrackOf
      <4>3. CASE d.ext # "iso" /\ dat[1].name.num = 1 /\ 1 # NoNumber
          BY <3>2, <4>1, <4>3 DEF TrackOf
      <4>4. CASE d.ext # "iso" /\ dat[1].name.num = NoNumber
        <5>1. dat[1].name.base = <<"Track">>
            BY <3>4, <4>1, <4>4 DEF TrackOf
        <5> QED BY <3>2, <4>1, <4>4, <5>1 DEF TrackOf
      <4> QED BY <4>1, <4>2, <4>3, <4>4
    <3>5. Cardinality(R) = Len(dat)
        BY <1>1, <1>5, <3>1
    <3>6. DOMAIN dat = {1}
        BY <1>2, <1>5
    <3>7. \A l \in R : d.roms[l] = dat[1].content
        BY <3>2, <3>3
    <3>8. n(1) # NoNumber => \E l \in R : SameTrack(l, TrackOf(dat[1].name)) /\ d.roms[l] = dat[1].content
        BY <3>2, <3>4 DEF SameTrack
    <3>9. FilesMatch(d.roms, dat)
        BY <1>5, <3>5, <3>6, <3>7, <3>8 DEF FilesMatch
    <3> QED BY <3>2, <3>9 DEF Matching
  <2> QED BY <2>1, <2>2
<1>6. CASE Len(dat) > 1
  <2>1. \A i \in DOMAIN dat : n(i) # NoNumber
      BY <1>6 DEF ValidDat
  <2>2. Matching(d, dat) <=> Cardinality(R) = Len(dat) /\ RomOfEach(d.roms, dat)
    <3>1. FilesMatch(d.roms, dat) <=>
             /\ Cardinality(R) = Len(dat)
             /\ \A i \in DOMAIN dat : \E k \in R : SameTrack(k, TrackOf(dat[i].name)) /\ d.roms[k] = dat[i].content
        BY <1>4, <2>1 DEF FilesMatch
    <3>2. FilesMatch(d.roms, dat) <=> Cardinality(R) = Len(dat) /\ RomOfEach(d.roms, dat)
        BY <1>2, <3>1 DEF RomOfEach, SameTrack
    <3>3. RomOfEach(d.roms, dat) => \E k \in R : d.roms[k] = dat[1].content
        BY <1>2 DEF RomOfEach
    <3> QED BY <3>2, <3>3 DEF Matching
  <2>3. SameDump(dat, d.dump) <=> NumberedTracks(dat) = NumberedTracks(d.dump)
    <3>1. Len(dat) # 1
        BY <1>2, <1>6
    <3> QED BY <3>1 DEF SameDump
  <2>4. Len(d.dump) > 1 => RomOfEach(d.roms, d.dump)
      BY <1>1 DEF RomOfEach
  <2>5. ASSUME Cardinality(R) = Len(dat), RomOfEach(d.roms, dat)
        PROVE  NumberedTracks(dat) = NumberedTracks(d.dump)
    <3>1. NumberedTracks(dat) = {<<k.n, d.roms[k]>> : k \in DOMAIN d.roms}
        BY <1>1, <1>2, <1>3, <2>5, TracksOfRoms
    <3>2. RomOfEach(d.roms, d.dump)
        BY <1>1, <1>6, <2>4, <2>5
    <3>3. NumberedTracks(d.dump) = {<<k.n, d.roms[k]>> : k \in DOMAIN d.roms}
        BY <1>1, <1>3, <3>2, TracksOfRoms
    <3> QED BY <3>1, <3>3
  <2>6. ASSUME NumberedTracks(dat) = NumberedTracks(d.dump)
        PROVE  Cardinality(R) = Len(dat) /\ RomOfEach(d.roms, dat)
    <3>1. Cardinality(NumberedTracks(dat)) = Len(dat)
        BY <1>2, <1>3, AsManyTracks
    <3>2. Cardinality(NumberedTracks(d.dump)) = Len(d.dump)
        BY <1>1, <1>3, AsManyTracks
    <3>3. Len(d.dump) = Len(dat) /\ RomOfEach(d.roms, d.dump)
        BY <1>6, <2>4, <2>6, <3>1, <3>2
    <3>4. ASSUME NEW i \in 1 .. Len(dat)
          PROVE  \E k \in R : k.n = n(i) /\ d.roms[k] = dat[i].content
      <4>1. <<n(i), dat[i].content>> \in NumberedTracks(d.dump)
          BY <1>2, <2>6 DEF NumberedTracks
      <4>2. PICK j \in 1 .. Len(d.dump) : <<n(i), dat[i].content>> = <<TrackOf(d.dump[j].name).n, d.dump[j].content>>
          BY <1>2, <4>1 DEF NumberedTracks
      <4>3. n(i) = TrackOf(d.dump[j].name).n /\ dat[i].content = d.dump[j].content
          BY <4>2
      <4> QED BY <3>3, <4>3 DEF RomOfEach
    <3> QED BY <1>1, <3>3, <3>4 DEF RomOfEach
  <2> QED BY <2>2, <2>3, <2>5, <2>6
<1> QED BY <1>2, <1>5, <1>6

\* A DAT finds a disc if, and only if, it is the dump that was stored, however
\* many tracks it has, in whatever order and however they are named
\* (src/src/services/queue_service.rs, files_match_submission).
THEOREM DumpsAreRecognised == FilesSpec => []DumpIsRecognised
<1>1. FormsInv => DumpIsRecognised
  <2> SUFFICES ASSUME FormsInv, disc # NoDisc, IsProper(disc.dump, disc.ext), NEW f \in Files,
                      ValidDat(f.dat), IsProper(f.dat, disc.ext)
               PROVE  Matching(disc, f.dat) <=> SameDump(f.dat, disc.dump)
      BY DEF DumpIsRecognised
  <2>1. RomList(NewPost(f).dat)
      BY NewPostTyped DEF FormTyped
  <2>2. NewPost(f).dat = f.dat
      BY DEF NewPost
  <2>3. RomList(f.dat) /\ DiscStands(disc)
      BY <2>1, <2>2 DEF FormsInv
  <2> QED BY <2>3, Recognised
<1> QED BY <1>1, FormsInvariance, PTL

-----------------------------------------------------------------------------
(* Downloads.                                                              *)

\* A list into which an element is put.
LEMMA Inserted ==
    ASSUME NEW s, IsList(s), NEW z \in 0 .. Len(s), NEW x
    PROVE  /\ Len(InsertAt(s, z + 1, x)) = Len(s) + 1 /\ InsertAt(s, z + 1, x)[z + 1] = x
           /\ IsList(InsertAt(s, z + 1, x))
           /\ \A i \in z + 1 .. Len(s) : InsertAt(s, z + 1, x)[i + 1] = s[i]
<1> DEFINE S == {s[i] : i \in 1 .. Len(s)} \cup {x}
           before == SubSeq(s, 1, z)
           after == SubSeq(s, z + 1, Len(s))
           u == InsertAt(s, z + 1, x)
<1>1. Len(s) \in Nat /\ s = [i \in 1 .. Len(s) |-> s[i]] /\ z \in Nat /\ z <= Len(s)
    BY DEF IsList
<1>2. s \in Seq(S) /\ <<x>> \in Seq(S)
  <2>1. s \in [1 .. Len(s) -> S]
      BY <1>1
  <2>2. x \in S
      OBVIOUS
  <2> HIDE DEF S
  <2> QED BY <1>1, <2>1, <2>2
<1> HIDE DEF S
<1>3. before \in Seq(S) /\ Len(before) = z
    BY <1>1, <1>2
<1>4. after \in Seq(S) /\ Len(after) = Len(s) - z /\ \A i \in 1 .. Len(s) - z : after[i] = s[z + i]
    BY <1>1, <1>2
<1>5. u = before \o <<x>> \o after
  <2>1. (z + 1) - 1 = z
      BY <1>1
  <2> QED BY <2>1 DEF InsertAt
<1> HIDE DEF before, after, u
<1> DEFINE v == before \o <<x>>
<1>6. v \in Seq(S) /\ Len(v) = z + 1 /\ v[z + 1] = x
    BY <1>1, <1>2, <1>3
<1>7. u = v \o after
    BY <1>5
<1> HIDE DEF v
<1>8. u \in Seq(S) /\ Len(u) = Len(s) + 1 /\ u[z + 1] = x
  <2>1. v \in Seq(S) /\ after \in Seq(S)
      BY <1>4, <1>6
  <2>2. v \o after \in Seq(S)
      BY <2>1
  <2>3. Len(v \o after) = Len(v) + Len(after)
      BY <2>1
  <2>4. u \in Seq(S) /\ Len(u) = Len(v) + Len(after)
      BY <1>7, <2>2, <2>3
  <2>5. Len(v) + Len(after) = Len(s) + 1
      BY <1>1, <1>4, <1>6
  <2>6. u[z + 1] = v[z + 1]
      BY <1>1, <1>4, <1>6, <1>7
  <2> QED BY <1>6, <2>4, <2>5, <2>6
<1>9. ASSUME NEW i \in z + 1 .. Len(s) PROVE u[i + 1] = s[i]
  <2>1. u[i + 1] = after[i - z]
      BY <1>1, <1>4, <1>6, <1>7
  <2>2. after[i - z] = s[z + (i - z)] /\ z + (i - z) = i
      BY <1>1, <1>4
  <2> QED BY <2>1, <2>2
<1>10. IsList(u)
    BY <1>1, <1>8 DEF IsList
<1> QED BY <1>8, <1>9, <1>10 DEF u

\* The page shows as many tracks as there are TRACKs, and numbers them from 1.
LEMMA PageNumbers ==
    ASSUME NEW sheet \in Sheets
    PROVE  /\ TrackCount(sheet) \in Nat /\ DOMAIN PageTracks(sheet) = 1 .. TrackCount(sheet)
           /\ IsCueSheet(sheet) => \A i \in DOMAIN PageTracks(sheet) : PageTracks(sheet)[i].number = i
           /\ sheet = <<>> => TrackCount(sheet) = 0
<1> DEFINE T == {i \in DOMAIN sheet : sheet[i].k = "TRACK"}
<1>1. T \in SUBSET Nat /\ IsFiniteSet(T)
  <2> DEFINE P == [i \in DOMAIN sheet |-> sheet[i].k = "TRACK"]
  <2>1. T = {i \in DOMAIN sheet : P[i]}
      OBVIOUS
  <2> HIDE DEF T, P
  <2> QED BY <2>1, Positions
<1>2. TrackCount(sheet) = Cardinality(T) /\ TrackLines(sheet) = Ascending(T)
    BY DEF TrackCount, TrackLines
<1>3. sheet = <<>> => T = {}
    OBVIOUS
<1> HIDE DEF T
<1>4. Cardinality(T) \in Nat /\ DOMAIN TrackLines(sheet) = 1 .. Cardinality(T)
    BY <1>1, <1>2, Ascends
<1>5. DOMAIN PageTracks(sheet) = DOMAIN TrackLines(sheet)
    BY DEF PageTracks
<1>6. ASSUME IsCueSheet(sheet), NEW i \in DOMAIN PageTracks(sheet) PROVE PageTracks(sheet)[i].number = i
  <2>1. i \in DOMAIN TrackLines(sheet) /\ PageTracks(sheet)[i].number = sheet[TrackLines(sheet)[i]].n
      BY <1>5, <1>6 DEF PageTracks
  <2> QED BY <1>6, <2>1, TracksNumbered
<1>7. sheet = <<>> => TrackCount(sheet) = 0
    BY <1>2, <1>3, FS_EmptySet
<1> QED BY <1>2, <1>4, <1>5, <1>6, <1>7

\* Where the FILEs and the roms are those of the TRACKs, the names lead to them.
LEMMA NamesAgree ==
    ASSUME NEW d, DiscStands(d),
           FileNumbers(d.cue.sheet) = [i \in DOMAIN PageTracks(d.cue.sheet) |-> i],
           {k.n : k \in DOMAIN d.roms} = DOMAIN PageTracks(d.cue.sheet),
           NEW i \in DOMAIN PageTracks(d.cue.sheet)
    PROVE  /\ d.cue.names[i] \in DOMAIN DatArchiveEntry(d)
           /\ TrackTable(d)[i] = {DatArchiveEntry(d)[d.cue.names[i]]}
           /\ KeepsNumber(d) => PageFiles(d)[i + 1] = d.cue.names[i]
<1> DEFINE R == DOMAIN d.roms
           T == TrackCount(d.cue.sheet)
           L == Listing(R, Numbers(d.roms))
           name == Numbered(d.base, i, T, d.ext)
<1>1. /\ d.cue.sheet \in Sheets /\ IsCueSheet(d.cue.sheet) /\ (d.ext # "bin" => d.cue.sheet = <<>>)
      /\ d.hasCue = (d.ext = "bin") /\ (d.ext = "bin" => d.cue.names = NamesOf(d.cue.sheet, d.base, d.ext))
      /\ InLine(R, Numbers(d.roms))
    BY DEF DiscStands, CueStands, RomsStand
<1>2. /\ T \in Nat /\ DOMAIN PageTracks(d.cue.sheet) = 1 .. T /\ i \in 1 .. T
      /\ PageTracks(d.cue.sheet)[i].number = i /\ d.cue.sheet # <<>>
    BY <1>1, PageNumbers
<1>3. d.ext = "bin" /\ d.hasCue
    BY <1>1, <1>2
<1>4. d.cue.names[i] = name
  <2> DEFINE numbers == FileNumbers(d.cue.sheet)
  <2>1. i \in DOMAIN numbers /\ numbers[i] = i /\ i # 0
      BY <1>2
  <2>2. d.cue.names = [f \in DOMAIN numbers |-> Numbered(d.base, IF numbers[f] = 0 THEN NoNumber ELSE numbers[f], T, d.ext)]
      BY <1>1, <1>3 DEF NamesOf
  <2> HIDE DEF numbers, T
  <2> QED BY <2>1, <2>2
<1>5. /\ \A k \in R : Numbers(d.roms)[k] = k.n /\ k.n \in 1 .. T
      /\ {Numbers(d.roms)[k] : k \in R} = 1 .. T
  <2>1. \A k \in R : Numbers(d.roms)[k] = k.n
      BY DEF Numbers
  <2>2. {k.n : k \in R} = 1 .. T
      BY <1>2
  <2> HIDE DEF R, T
  <2> QED BY <2>1, <2>2
<1> HIDE DEF R, T
<1>6. Cardinality(R) = T /\ \A j \in 1 .. T : Numbers(d.roms)[L[j]] = j
    BY <1>1, <1>2, <1>5, ListedByNumber
<1>7. DOMAIN L = 1 .. T /\ \A j \in 1 .. T : L[j] \in R
    BY <1>1, <1>6, Listed
<1>8. Keys(d) = L /\ Total(d) = T
    BY <1>6 DEF Keys, ByTrack, Total, Numbers, R
<1> HIDE DEF L
<1> DEFINE own == L[i]
<1>9. own \in R /\ own.n = i
    BY <1>2, <1>5, <1>6, <1>7
<1>10. ASSUME NEW k \in R PROVE k.n = i <=> k = own
    BY <1>1, <1>5, <1>9 DEF InLine
<1>11. ASSUME NEW k \in R PROVE Numbered(d.base, k.n, T, d.ext) = name <=> k = own
  <2>1. ASSUME Numbered(d.base, k.n, T, d.ext) = name PROVE k.n = i
    <3>1. CASE T > 1
      <4>1. k.n # NoNumber /\ i # NoNumber
          BY <1>2, <1>5, DiscFilesAssumption
      <4>2. Numbered(d.base, k.n, T, d.ext).num = k.n /\ name.num = i
          BY <3>1, <4>1 DEF Numbered, Name
      <4> QED BY <2>1, <4>2
    <3>2. CASE ~(T > 1)
        BY <1>2, <1>5, <3>2
    <3> QED BY <3>1, <3>2
  <2> QED BY <1>9, <1>10, <2>1
<1> HIDE DEF name, own
<1>12. /\ name \in DOMAIN DatArchiveEntry(d)
       /\ DatArchiveEntry(d)[name] = d.roms[CHOOSE k \in R : Numbered(d.base, k.n, T, d.ext) = name]
  <2>1. name \in {Numbered(d.base, k.n, T, d.ext) : k \in R}
      BY <1>9, <1>11
  <2> QED BY <1>8, <2>1 DEF DatArchiveEntry, R
<1>13. DatArchiveEntry(d)[name] = d.roms[own]
  <2>1. (CHOOSE k \in R : Numbered(d.base, k.n, T, d.ext) = name) = own
      BY <1>9, <1>11
  <2> QED BY <1>12, <2>1
<1>14. TrackTable(d)[i] = {d.roms[own]}
  <2>1. TrackTable(d)[i] = {d.roms[k] : k \in {l \in R : l.n = i}}
      BY <1>2 DEF TrackTable, R
  <2>2. {l \in R : l.n = i} = {own}
      BY <1>9, <1>10
  <2> QED BY <2>1, <2>2
<1>15. ASSUME KeepsNumber(d) PROVE PageFiles(d)[i + 1] = name
  <2> DEFINE s == [j \in 1 .. T |-> Numbered(d.base, L[j].n, T, d.ext)]
             cue == Name(d.base, NoNumber, FALSE, "cue")
  <2>1. Supported(d.base) = d.base
      BY <1>15, NameIsKept
  <2>2. Cardinality({k \in DOMAIN d.roms : k.n = 0}) = 0
    <3>1. {k \in DOMAIN d.roms : k.n = 0} = {}
        BY <1>2, <1>5 DEF R
    <3> QED BY <3>1, FS_EmptySet
  <2>3. PageFiles(d) = InsertAt(s, 0 + 1, cue)
      BY <1>3, <1>7, <1>8, <2>1, <2>2 DEF PageFiles
  <2>4. s[i] = name /\ s = [j \in 1 .. T |-> s[j]]
      BY <1>2, <1>9 DEF name, own
  <2> HIDE DEF s, cue
  <2>5. Len(s) = T /\ IsList(s)
    <3>1. Len(s) = T
        BY <1>2, <2>4, LengthIs
    <3> QED BY <1>2, <2>4, <3>1 DEF IsList
  <2>6. 0 \in 0 .. Len(s) /\ i \in 0 + 1 .. Len(s)
      BY <1>2, <2>5
  <2>7. InsertAt(s, 0 + 1, cue)[i + 1] = s[i]
      BY <2>5, <2>6, Inserted
  <2> QED BY <2>3, <2>4, <2>7
<1> QED BY <1>4, <1>12, <1>13, <1>14, <1>15

\* No line of a valid SBI is skipped.
LEMMA AllEntries ==
    ASSUME NEW sbi, IsList(sbi), ValidSbi(sbi), NEW least, least \in {10, 12}
    PROVE  SbiEntries(sbi, least) = sbi
<1>1. Len(sbi) \in Nat /\ DOMAIN sbi = 1 .. Len(sbi) /\ sbi = [i \in 1 .. Len(sbi) |-> sbi[i]]
    BY DEF IsList
<1>2. \A i \in DOMAIN sbi : sbi[i].msf \in {"digits", "hex"} /\ sbi[i].bytes >= least
    BY DEF ValidSbi
<1>3. {i \in DOMAIN sbi : sbi[i].msf \in {"digits", "hex"} /\ sbi[i].bytes >= least} = 1 .. Len(sbi)
    BY <1>1, <1>2
<1>4. Ascending(1 .. Len(sbi)) = [i \in 1 .. Len(sbi) |-> i]
    BY <1>1, AscendsFromOne
<1>5. SbiEntries(sbi, least) = [i \in 1 .. Len(sbi) |-> sbi[i]]
    BY <1>3, <1>4 DEF SbiEntries
<1> QED BY <1>1, <1>5

LEMMA PageLength ==
    ASSUME NEW d, DiscStands(d)
    PROVE  /\ Len(WithImage(d)) = Len(Keys(d)) + IF CueDownload(d) = {} THEN 0 ELSE 2
           /\ \A c \in CueDownload(d) :
                 /\ IsCueSheet(c.sheet)
                 /\ KeepsNumber(d) => \E i \in DOMAIN PageFiles(d) : PageFiles(d)[i] = c.name
<1> DEFINE N == Total(d)
           base == Supported(d.base)
           s == [i \in DOMAIN Keys(d) |-> Numbered(base, Keys(d)[i].n, Total(d), d.ext)]
           cue == Name(base, NoNumber, FALSE, "cue")
           zero == Cardinality({k \in DOMAIN d.roms : k.n = 0})
<1>1. N \in Nat /\ DOMAIN Keys(d) = 1 .. N
    BY KeysOfRoms DEF DiscStands
<1>2. s = [i \in 1 .. N |-> s[i]]
    BY <1>1
<1> HIDE DEF s, N
<1>3. Len(s) = N /\ Len(Keys(d)) = N
  <2>1. Keys(d) = [i \in 1 .. N |-> Keys(d)[i]]
    <3>1. \A S, f : Listing(S, f) = [i \in 1 .. Cardinality(S) |-> Listing(S, f)[i]]
        BY DEF Listing
    <3> QED BY <3>1 DEF Keys, ByTrack, N, Total
  <2> QED BY <1>1, <1>2, <2>1, LengthIs
<1>4. IsList(s)
    BY <1>1, <1>2, <1>3 DEF IsList
<1>5. (d.hasCue <=> d.ext = "bin") /\ (d.cue.given <=> d.ext = "bin") /\ IsCueSheet(d.cue.sheet)
    BY DEF DiscStands, CueStands
<1>6. CASE d.ext = "bin"
  <2> DEFINE t == InsertAt(s, zero + 1, cue)
             image == Name(base, NoNumber, FALSE, "img")
             given == Name(d.base, NoNumber, FALSE, "cue")
  <2>1. PageFiles(d) = t
      BY <1>5, <1>6 DEF PageFiles, s
  <2>2. CueDownload(d) = {[name |-> given, sheet |-> d.cue.sheet]}
      BY <1>5, <1>6 DEF CueDownload
  <2>3. WithImage(d) = Append(t, image)
      BY <1>5, <1>6, <2>1 DEF WithImage
  <2>4. zero \in 0 .. Len(s)
    <3>1. IsFiniteSet(DOMAIN d.roms) /\ {k \in DOMAIN d.roms : k.n = 0} \in SUBSET DOMAIN d.roms
        BY DEF DiscStands, RomsStand, InLine
    <3>2. zero <= Cardinality(DOMAIN d.roms) /\ zero \in Nat
        BY <3>1, FS_Subset, FS_CardinalityType
    <3> HIDE DEF zero
    <3> QED BY <1>1, <1>3, <3>2 DEF N, Total
  <2>5. KeepsNumber(d) => cue = given
      BY NameIsKept
  <2> HIDE DEF cue, zero, image, given
  <2>6. Len(t) = N + 1 /\ t[zero + 1] = cue /\ IsList(t)
      BY <1>3, <1>4, <2>4, Inserted
  <2> HIDE DEF t
  <2>7. Len(Append(t, image)) = N + 2
    <3> DEFINE u == Append(t, image)
    <3>1. u = [i \in 1 .. N + 2 |-> u[i]]
      <4>1. t = [i \in 1 .. N + 1 |-> t[i]] /\ N + 1 \in Nat
          BY <1>1, <2>6 DEF IsList
      <4>2. u = [i \in 1 .. N + 2 |-> IF i = N + 2 THEN image ELSE t[i]]
          BY <1>1, <2>6, <4>1 DEF Append
      <4> HIDE DEF u
      <4> QED BY <4>2
    <3> HIDE DEF u
    <3>2. Len(u) = N + 2
        BY <1>1, <3>1, LengthIs
    <3> QED BY <3>2 DEF u
  <2>8. CueDownload(d) # {} /\ \A c \in CueDownload(d) : c.name = given /\ c.sheet = d.cue.sheet
      BY <2>2
  <2>9. zero + 1 \in DOMAIN PageFiles(d) /\ PageFiles(d)[zero + 1] = cue
    <3>1. DOMAIN t = 1 .. N + 1
        BY <2>6 DEF IsList
    <3> QED BY <1>1, <1>3, <2>1, <2>4, <2>6, <3>1
  <2>10. Len(WithImage(d)) = N + 2
      BY <2>3, <2>7
  <2>11. ASSUME NEW c \in CueDownload(d)
         PROVE  /\ IsCueSheet(c.sheet)
                /\ KeepsNumber(d) => \E i \in DOMAIN PageFiles(d) : PageFiles(d)[i] = c.name
      BY <1>5, <2>5, <2>8, <2>9
  <2> QED BY <1>3, <2>8, <2>10, <2>11
<1>7. CASE d.ext # "bin"
  <2>1. PageFiles(d) = s /\ CueDownload(d) = {}
      BY <1>7 DEF PageFiles, CueDownload, s
  <2>2. WithImage(d) = PageFiles(d)
      BY <1>7 DEF WithImage
  <2> QED BY <1>3, <2>1, <2>2
<1> QED BY <1>6, <1>7

\* The page, the cue sheet, the DAT archive, the SBI and the LSD of a disc
\* agree, whatever the forms changed and in whatever order; the names of the page
\* do unless the system has lost its disc numbers since the disc was stored
\* (src/src/routes/disc_view.rs and src/src/services/archive_service.rs).
THEOREM DownloadsOfADiscAgree == FilesSpec => []DownloadsAgree
<1>1. FormsInv => DownloadsAgree
  <2> SUFFICES ASSUME FormsInv, disc # NoDisc PROVE DownloadsAgree
      BY DEF DownloadsAgree
  <2> DEFINE d == disc
  <2>1. DiscStands(d) /\ SbiStands(d.sbi, d.ext)
      BY DEF FormsInv, DiscStands
  <2> HIDE DEF d
  <2>2. SbiDownload(d) = d.sbi /\ LsdDownload(d) = d.sbi
      BY <2>1, AllEntries DEF SbiDownload, LsdDownload, SbiStands
  <2>3. \A i \in DOMAIN SbiRows(d) : SbiRows(d)[i].checked
    <3>1. CASE d.ext = "bin"
      <4>1. SbiRows(d) = [i \in DOMAIN d.sbi |-> [line |-> d.sbi[i], checked |-> d.sbi[i].bytes >= 12]]
          BY <3>1 DEF SbiRows
      <4>2. \A i \in DOMAIN d.sbi : d.sbi[i].bytes >= 12
          BY <2>1 DEF SbiStands, ValidSbi
      <4>3. ASSUME NEW i \in DOMAIN SbiRows(d) PROVE SbiRows(d)[i].checked
        <5>1. i \in DOMAIN d.sbi /\ SbiRows(d)[i] = [line |-> d.sbi[i], checked |-> d.sbi[i].bytes >= 12]
            BY <4>1, <4>3
        <5>2. SbiRows(d)[i].checked = (d.sbi[i].bytes >= 12)
            BY <5>1
        <5> QED BY <4>2, <5>1, <5>2
      <4> QED BY <4>3
    <3>2. CASE d.ext # "bin"
        BY <3>2 DEF SbiRows
    <3> QED BY <3>1, <3>2
  <2>4. /\ Len(WithImage(d)) = Len(Keys(d)) + IF CueDownload(d) = {} THEN 0 ELSE 2
        /\ \A c \in CueDownload(d) :
              /\ IsCueSheet(c.sheet)
              /\ KeepsNumber(d) => \E i \in DOMAIN PageFiles(d) : PageFiles(d)[i] = c.name
      BY <2>1, PageLength
  <2>5. ASSUME FileNumbers(d.cue.sheet) = [i \in DOMAIN PageTracks(d.cue.sheet) |-> i],
               {k.n : k \in DOMAIN d.roms} = DOMAIN PageTracks(d.cue.sheet),
               NEW i \in DOMAIN PageTracks(d.cue.sheet)
        PROVE  /\ d.cue.names[i] \in DOMAIN DatArchiveEntry(d)
               /\ TrackTable(d)[i] = {DatArchiveEntry(d)[d.cue.names[i]]}
               /\ KeepsNumber(d) => PageFiles(d)[i + 1] = d.cue.names[i]
      BY <2>1, <2>5, NamesAgree
  <2> QED BY <2>2, <2>3, <2>4, <2>5 DEF DownloadsAgree, d
<1> QED BY <1>1, FormsInvariance, PTL

-----------------------------------------------------------------------------
(* The export of the database.                                             *)

\* A catalogue as the database's own constraints keep it.
Whole(db) == db \in Databases /\ \A d \in Catalogued : db.disc_regions[d] \in db.regions

Exporting == {"read", "check", "compress", "finish", "publish", "remove"}

CatalogueInv ==
    /\ Whole(database) /\ committed \in Nat
    /\ \A db \in since : Whole(db)

\* Whatever has been read is of one state, and the last table is read last.
ReadInv ==
    exporter \in Exporting =>
        /\ database \in since
        /\ snapshot # NotRead => snapshot \in since
        /\ output = [t \in TableNames |-> output[t]]
        /\ \A t \in TableNames : output[t] # NotRead =>
              snapshot # NotRead /\ output[t] = RowsOf(t, snapshot)
        /\ exporter = "read" => output["files"] = NotRead
        /\ exporter # "read" => snapshot \in since /\ output = CopyOf(snapshot)

Contents(dir) == IF dir = "zips" THEN Nat ELSE {NotRead} \cup Copies
StoredFiles(dir) == [kind : {"sqlite", "partial", "final"}, at : Nat \ {0}, content : Contents(dir)]

\* The newest published file of a directory is there.
StoredIn(dir) ==
    /\ newest[dir] \in 0 .. exportClock
    /\ \A f \in directory[dir] : f \in StoredFiles(dir) /\ f.at <= exportClock
    /\ \A f \in Finished(dir) : f.at <= newest[dir] /\ f.content # NotRead
    /\ newest[dir] # 0 => \E f \in Finished(dir) : f.at = newest[dir]

FilesInv ==
    /\ exportClock \in Nat
    /\ directory = [dir \in Dirs |-> directory[dir]]
    /\ newest \in [Dirs -> Nat]
    /\ \A dir \in Dirs : StoredIn(dir)
    /\ exporter \in Exporting => exportClock > 0
    /\ exporter \in Exporting \ {"remove"} => newest["database"] < exportClock
    /\ exporter = "rename zip" => /\ newest["zips"] < exportClock
                                  /\ \E f \in directory["zips"] : f.at = exportClock
    /\ exporter = "remove" => newest["database"] = exportClock
    /\ exporter = "remove zips" => newest["zips"] = exportClock

\* What a visitor was shown or chose had been published by then.
RequestInv(request) ==
    /\ request \in [at : {"idle", "chosen", "served", "not found"}, dir : Dirs, shown : Nat,
                    chosen : Nat, floor : Nat, content : {request.content}]
    /\ request.shown <= newest["database"]
    /\ request.at = "served" => request.content # NotRead
    /\ request.at = "not found" => request.floor = 0 \/ newest[request.dir] > request.floor
    /\ request.at \in {"chosen", "served"} =>
          /\ request.chosen \in 1 .. newest[request.dir]
          /\ request.chosen >= request.floor
          /\ request.dir = "database" => request.chosen >= request.shown

VisitorInv ==
    /\ visitor = [v \in Downloaders |-> visitor[v]]
    /\ \A v \in Downloaders : RequestInv(visitor[v])

ExportInv == CatalogueInv /\ ReadInv /\ FilesInv /\ VisitorInv

-----------------------------------------------------------------------------
(* What is copied. *)

\* A copy of a whole catalogue has the types of its tables, is a table, and
\* refers to nothing that is not in it.
LEMMA CopyIsWhole ==
    ASSUME NEW db, Whole(db)
    PROVE  CopyOf(db) \in Copies /\ ReferencesHold(CopyOf(db))
<1>1. TableNames = {"regions", "discs", "disc_regions", "files"}
    BY DEF TableNames, Tables
<1>2. /\ RowsOf("regions", db) = db.regions
      /\ RowsOf("discs", db) = DiscRows(db)
      /\ RowsOf("disc_regions", db) = ChildRows(db, db.disc_regions)
      /\ RowsOf("files", db) = ChildRows(db, db.files)
    BY DEF RowsOf, LookupRows
<1>3. /\ CopyOf(db)["regions"] = db.regions
      /\ CopyOf(db)["discs"] = DiscRows(db)
      /\ CopyOf(db)["disc_regions"] = ChildRows(db, db.disc_regions)
      /\ CopyOf(db)["files"] = ChildRows(db, db.files)
    BY <1>1, <1>2 DEF CopyOf
<1>4. CopyOf(db) \in Copies
    <2> DEFINE Rows == RegionCodes \cup [id : Catalogued, value : Nat]
                                   \cup [disc_id : Catalogued, value : Nat \cup RegionCodes]
    <2>1. db.regions \subseteq Rows
        BY DEF Whole, Databases
    <2>2. DiscRows(db) \subseteq [id : Catalogued, value : Nat]
        BY DEF DiscRows, Exported, Whole, Databases
    <2>3. ChildRows(db, db.disc_regions) \subseteq [disc_id : Catalogued, value : Nat \cup RegionCodes]
        BY DEF ChildRows, Exported, Whole, Databases
    <2>4. ChildRows(db, db.files) \subseteq [disc_id : Catalogued, value : Nat \cup RegionCodes]
        BY DEF ChildRows, Exported, Whole, Databases
    <2>5. \A t \in TableNames : RowsOf(t, db) \in SUBSET Rows
        BY <1>1, <1>2, <2>1, <2>2, <2>3, <2>4
    <2>6. CopyOf(db) \in [TableNames -> SUBSET Rows]
        BY <2>5 DEF CopyOf
    <2> QED BY <2>6 DEF Copies, TableNames
<1>5. \A d \in Exported(db) : [id |-> d, value |-> db.discs[d]] \in DiscRows(db)
    BY DEF DiscRows
<1>6. Exported(db) \subseteq {row.id : row \in DiscRows(db)}
    <2>1. ASSUME NEW d \in Exported(db) PROVE d \in {row.id : row \in DiscRows(db)}
        <3> DEFINE own == [id |-> d, value |-> db.discs[d]]
        <3>1. own \in DiscRows(db) /\ own.id = d
            BY <1>5
        <3> HIDE DEF own
        <3> QED BY <3>1
    <2> QED BY <2>1
<1>7. \A row \in ChildRows(db, db.disc_regions) : row.disc_id \in Exported(db) /\ row.value \in db.regions
    BY DEF ChildRows, Exported, Whole
<1>8. \A row \in ChildRows(db, db.files) : row.disc_id \in Exported(db)
    BY DEF ChildRows
<1> QED BY <1>3, <1>4, <1>6, <1>7, <1>8 DEF ReferencesHold

\* While tables are missing, the next is the first of them.
LEMMA NextIsATable ==
    ASSUME output["files"] = NotRead
    PROVE  NextTable \in 1..4 /\ (NextTable = 4 => \A t \in TableNames \ {"files"} : output[t] # NotRead)
<1> DEFINE Next0(i) == /\ output[Tables[i]] = NotRead
                       /\ \A j \in 1..(i - 1) : output[Tables[j]] # NotRead
<1>1. /\ Tables[1] = "regions" /\ Tables[2] = "discs" /\ Tables[3] = "disc_regions" /\ Tables[4] = "files"
      /\ DOMAIN Tables = 1..4
    BY DEF Tables
<1>2. \E i \in 1..4 : Next0(i)
    <2>1. CASE output["regions"] = NotRead
        BY <2>1, <1>1
    <2>2. CASE output["regions"] # NotRead /\ output["discs"] = NotRead
        <3>1. Next0(2)
            BY <2>2, <1>1
        <3> QED BY <3>1
    <2>3. CASE output["regions"] # NotRead /\ output["discs"] # NotRead /\ output["disc_regions"] = NotRead
        <3>1. \A j \in 1..(3 - 1) : j = 1 \/ j = 2
            OBVIOUS
        <3>2. Next0(3)
            BY <2>3, <1>1, <3>1
        <3> QED BY <3>2
    <2>4. CASE output["regions"] # NotRead /\ output["discs"] # NotRead /\ output["disc_regions"] # NotRead
        <3>1. \A j \in 1..(4 - 1) : j = 1 \/ j = 2 \/ j = 3
            OBVIOUS
        <3>2. Next0(4)
            BY <2>4, <1>1, <3>1
        <3> QED BY <3>2
    <2> QED BY <2>1, <2>2, <2>3, <2>4
<1>3. NextTable = CHOOSE i \in 1..4 : Next0(i)
    BY <1>1 DEF NextTable
<1>4. NextTable \in 1..4 /\ Next0(NextTable)
    <2> HIDE DEF Next0
    <2> QED BY <1>2, <1>3
<1>5. NextTable = 4 => \A j \in 1..3 : output[Tables[j]] # NotRead
    BY <1>4
<1>6. TableNames \ {"files"} = {Tables[j] : j \in 1..3}
    BY <1>1 DEF TableNames
<1> QED BY <1>4, <1>5, <1>6

\* The newest file of a directory is the last one published.
LEMMA LatestIsNewest == ASSUME FilesInv, NEW dir \in Dirs PROVE Latest(dir) = newest[dir]
<1> DEFINE times == {f.at : f \in Finished(dir)}
<1>1. StoredIn(dir) /\ newest[dir] \in Nat
    BY DEF FilesInv
<1>2. \A t \in times : t \in Nat \ {0} /\ t <= newest[dir]
    BY <1>1 DEF StoredIn, Finished, StoredFiles
<1>3. CASE times = {}
    <2>1. newest[dir] = 0
        BY <1>1, <1>3 DEF StoredIn
    <2> QED BY <1>3, <2>1 DEF Latest
<1>4. CASE times # {}
    <2>1. newest[dir] \in times
        BY <1>1, <1>2, <1>4 DEF StoredIn
    <2>2. Max(times) = newest[dir]
        <3> HIDE DEF times
        <3> QED BY <1>1, <1>2, <2>1 DEF Max
    <2> QED BY <1>4, <2>2 DEF Latest
<1> QED BY <1>3, <1>4

-----------------------------------------------------------------------------
(* What a step does to a directory. *)

\* Partial files come and go, old files go: the newest stays.
LEMMA NewestStays ==
    ASSUME FilesInv, NEW dir \in Dirs, exportClock' \in Nat, exportClock' >= exportClock,
           newest'[dir] = newest[dir],
           \A f \in directory'[dir] :
               \/ f \in directory[dir]
               \/ f \in StoredFiles(dir) /\ f.kind # "final" /\ f.at <= exportClock',
           \A f \in Finished(dir) : f.at = newest[dir] => f \in directory'[dir]
    PROVE  StoredIn(dir)'
<1>1. StoredIn(dir) /\ exportClock \in Nat /\ newest[dir] \in Nat
    BY DEF FilesInv
<1>2. \A f \in directory'[dir] : f \in StoredFiles(dir) /\ f.at <= exportClock'
    BY <1>1 DEF StoredIn, StoredFiles
<1>3. \A f \in Finished(dir)' : f \in Finished(dir)
    BY DEF Finished
<1>4. \A f \in Finished(dir) : f.at = newest[dir] => f \in Finished(dir)'
    BY DEF Finished
<1> QED BY <1>1, <1>2, <1>3, <1>4 DEF StoredIn

\* A file under the time of the worker is published.
LEMMA NewestIsPublished ==
    ASSUME FilesInv, NEW dir \in Dirs, UNCHANGED exportClock, exportClock > 0, newest'[dir] = exportClock,
           \A f \in directory'[dir] :
               \/ f \in directory[dir]
               \/ f \in StoredFiles(dir) /\ f.at = exportClock /\ f.content # NotRead,
           \E f \in directory'[dir] : f.kind = "final" /\ f.at = exportClock
    PROVE  StoredIn(dir)'
<1>1. StoredIn(dir) /\ exportClock \in Nat /\ newest[dir] \in Nat
    BY DEF FilesInv
<1>2. \A f \in directory'[dir] : f \in StoredFiles(dir) /\ f.at <= exportClock'
    BY <1>1 DEF StoredIn, StoredFiles
<1>3. \A f \in Finished(dir)' : f.at <= newest'[dir] /\ f.content # NotRead
    BY <1>1, <1>2 DEF Finished, StoredIn
<1>4. \E f \in Finished(dir)' : f.at = newest'[dir]
    BY DEF Finished
<1> QED BY <1>1, <1>2, <1>3, <1>4 DEF StoredIn

\* The other directory is not touched.
LEMMA OtherStays ==
    ASSUME FilesInv, NEW dir \in Dirs, NEW files, directory' = [directory EXCEPT ![dir] = files],
           exportClock' \in Nat, exportClock' >= exportClock,
           newest' = newest \/ newest' = [newest EXCEPT ![dir] = exportClock],
           StoredIn(dir)'
    PROVE  /\ directory' = [other \in Dirs |-> directory'[other]]
           /\ newest' \in [Dirs -> Nat]
           /\ \A other \in Dirs : StoredIn(other)' /\ newest'[other] >= newest[other]
<1>1. directory = [other \in Dirs |-> directory[other]] /\ newest \in [Dirs -> Nat] /\ exportClock \in Nat
    BY DEF FilesInv
<1>2. directory' = [other \in Dirs |-> directory'[other]] /\ newest' \in [Dirs -> Nat]
    BY <1>1
<1>3. ASSUME NEW other \in Dirs, other # dir
      PROVE  directory'[other] = directory[other] /\ newest'[other] = newest[other]
    BY <1>1, <1>3
<1>4. ASSUME NEW other \in Dirs, other # dir PROVE StoredIn(other)'
    <2>1. StoredIn(other) /\ newest[other] \in Nat
        BY <1>1 DEF FilesInv
    <2>2. Finished(other)' = Finished(other)
        BY <1>3, <1>4 DEF Finished
    <2> QED BY <1>1, <1>3, <1>4, <2>1, <2>2 DEF StoredIn, StoredFiles
<1>5. \A other \in Dirs : newest'[other] >= newest[other]
    <2>5. StoredIn(dir)
        BY DEF FilesInv
    <2>1. newest[dir] \in Nat /\ newest[dir] <= exportClock
        BY <1>1, <2>5 DEF StoredIn
    <2>2. newest'[dir] = newest[dir] \/ newest'[dir] = exportClock
        BY <1>1
    <2>3. newest'[dir] >= newest[dir]
        BY <1>1, <1>2, <2>1, <2>2
    <2>4. ASSUME NEW other \in Dirs, other # dir PROVE newest'[other] >= newest[other]
        BY <1>1, <1>3, <2>4
    <2> QED BY <2>3, <2>4
<1> QED BY <1>2, <1>4, <1>5

\* Visitors hold what was published; publishing more disturbs nobody.
LEMMA RequestKeeps ==
    ASSUME NEW q, RequestInv(q), q.dir \in Dirs => newest'[q.dir] >= newest[q.dir],
           newest'["database"] >= newest["database"],
           newest["database"] \in Nat, newest'["database"] \in Nat,
           q.dir \in Dirs => newest[q.dir] \in Nat /\ newest'[q.dir] \in Nat
    PROVE  RequestInv(q)'
<1>1. /\ q.dir \in Dirs /\ q.chosen \in Nat /\ q.shown \in Nat /\ q.floor \in Nat
      /\ q.shown <= newest["database"]
    BY DEF RequestInv
<1>2. q.shown <= newest'["database"]
    BY <1>1
<1>5. newest'[q.dir] >= newest[q.dir] /\ newest[q.dir] \in Nat /\ newest'[q.dir] \in Nat
    BY <1>1
<1>6. q.at = "not found" => q.floor = 0 \/ newest[q.dir] > q.floor
    BY DEF RequestInv
<1>7. q.at \in {"chosen", "served"} => q.chosen \in 1 .. newest[q.dir]
    BY DEF RequestInv
<1>3. ASSUME q.at = "not found", q.floor # 0 PROVE newest'[q.dir] > q.floor
    <2>1. newest[q.dir] > q.floor
        BY <1>3, <1>6
    <2> QED BY <1>1, <1>5, <2>1
<1>4. q.at \in {"chosen", "served"} => q.chosen \in 1 .. newest'[q.dir]
    BY <1>1, <1>5, <1>7
<1> QED BY <1>2, <1>3, <1>4 DEF RequestInv

LEMMA VisitorsKeep ==
    ASSUME FilesInv, VisitorInv, UNCHANGED visitor, newest' \in [Dirs -> Nat],
           \A dir \in Dirs : newest'[dir] >= newest[dir]
    PROVE  VisitorInv'
<1>1. newest \in [Dirs -> Nat] /\ "database" \in Dirs
    BY DEF FilesInv, Dirs
<1>2. /\ newest["database"] \in Nat /\ newest'["database"] \in Nat
      /\ newest'["database"] >= newest["database"]
    BY <1>1
<1>3. \A dir \in Dirs : newest[dir] \in Nat /\ newest'[dir] \in Nat
    BY <1>1
<1>4. ASSUME NEW v \in Downloaders PROVE RequestInv(visitor[v])'
    <2> PICK q : q = visitor[v]
        OBVIOUS
    <2>1. RequestInv(q) /\ visitor'[v] = q
        BY DEF VisitorInv
    <2>2. RequestInv(q)'
        BY <1>2, <1>3, <2>1, RequestKeeps
    <2> QED BY <2>1, <2>2 DEF RequestInv
<1> QED BY <1>4 DEF VisitorInv

\* A step of the worker that leaves both directories and its clock alone.
LEMMA DirectoriesStay ==
    ASSUME FilesInv, VisitorInv, UNCHANGED <<directory, newest, exportClock, visitor>>,
           exporter' \in Exporting => exporter \in Exporting,
           exporter' \in Exporting \ {"remove"} => exporter \in Exporting \ {"remove"},
           exporter' \in {"rename zip", "remove", "remove zips"} => exporter' = exporter
    PROVE  FilesInv' /\ VisitorInv'
<1>1. ASSUME NEW dir \in Dirs PROVE StoredIn(dir)'
    <2>1. StoredIn(dir)
        BY DEF FilesInv
    <2> QED BY <2>1 DEF StoredIn, Finished
<1>2. VisitorInv'
    BY DEF VisitorInv, RequestInv
<1> QED BY <1>1, <1>2 DEF FilesInv

\* Another catalogue.
LEMMA CommitStep == ASSUME ExportInv, NEW db, Whole(db), Commit(db) PROVE ExportInv'
<1> USE DEF ExportInv
<1>1. /\ database' = db /\ committed' = committed + 1
      /\ since' = IF exporter = "asleep" THEN since ELSE since \cup {db}
      /\ UNCHANGED <<directory, exporter, snapshot, output, exportClock, visitor, faults, newest>>
    BY DEF Commit, exportWork
<1>2. CatalogueInv'
    BY <1>1 DEF CatalogueInv, Whole
<1>3. ReadInv'
    <2>1. ASSUME exporter \in Exporting PROVE since' = since \cup {db}
        BY <1>1, <2>1 DEF Exporting
    <2> QED BY <1>1, <2>1 DEF ReadInv
<1>4. FilesInv' /\ VisitorInv'
    BY <1>1, DirectoriesStay
<1> QED BY <1>2, <1>3, <1>4

LEMMA ApproveDiscStep ==
    ASSUME ExportInv, NEW d \in Catalogued, NEW r \in RegionCodes, NEW status \in {"Unverified", "Disabled"},
           ApproveDisc(d, r, status)
    PROVE  ExportInv'
<1> DEFINE db == [database EXCEPT !.status[d] = status, !.discs[d] = committed + 1,
                                  !.disc_regions[d] = r, !.files[d] = committed + 1]
<1>1. r \in database.regions /\ Commit(db)
    BY DEF ApproveDisc
<1>2. Whole(database) /\ committed \in Nat
    BY DEF ExportInv, CatalogueInv
<1>3. db \in Databases
    <2>1. database \in Databases
        BY <1>2 DEF Whole
    <2>2. [database.status EXCEPT ![d] = status] \in [Catalogued -> {"Absent", "Unverified", "Disabled"}]
        BY <2>1 DEF Databases
    <2>3. /\ [database.discs EXCEPT ![d] = committed + 1] \in [Catalogued -> Nat]
          /\ [database.files EXCEPT ![d] = committed + 1] \in [Catalogued -> Nat]
        BY <1>2, <2>1 DEF Databases
    <2>4. [database.disc_regions EXCEPT ![d] = r] \in [Catalogued -> RegionCodes]
        BY <2>1 DEF Databases
    <2> QED BY <2>1, <2>2, <2>3, <2>4 DEF Databases
<1>4. \A e \in Catalogued : db.disc_regions[e] \in db.regions
    BY <1>1, <1>2 DEF Whole, Databases
<1> QED BY <1>1, <1>3, <1>4, CommitStep DEF Whole

LEMMA RecodeRegionStep ==
    ASSUME ExportInv, NEW old \in RegionCodes, NEW new \in RegionCodes, RecodeRegion(old, new)
    PROVE  ExportInv'
<1> DEFINE db == [database EXCEPT
                    !.regions = (@ \ {old}) \cup {new},
                    !.disc_regions = [d \in Catalogued |-> IF @[d] = old THEN new ELSE @[d]]]
<1>1. Commit(db)
    BY DEF RecodeRegion
<1>2. Whole(database)
    BY DEF ExportInv, CatalogueInv
<1>3. db \in Databases
    <2>1. database \in Databases
        BY <1>2 DEF Whole
    <2>2. db.regions \in SUBSET RegionCodes
        BY <2>1 DEF Databases
    <2>3. db.disc_regions \in [Catalogued -> RegionCodes]
        BY <2>1 DEF Databases
    <2>4. db = [database EXCEPT !.regions = db.regions, !.disc_regions = db.disc_regions]
        BY <2>1 DEF Databases
    <2> HIDE DEF db
    <2> QED BY <2>1, <2>2, <2>3, <2>4 DEF Databases
<1>4. \A e \in Catalogued : db.disc_regions[e] \in db.regions
    BY <1>2 DEF Whole, Databases
<1> QED BY <1>1, <1>3, <1>4, CommitStep DEF Whole

-----------------------------------------------------------------------------
(* The worker makes an export. *)

LEMMA BeginExportStep == ASSUME ExportInv, BeginExport PROVE ExportInv'
<1> USE DEF ExportInv
<1> DEFINE sqlite == [kind |-> "sqlite", at |-> exportClock + 1, content |-> NotRead]
           files == (directory["database"] \ Partials("database")) \cup {sqlite}
<1>1. /\ exporter' = "read" /\ exportClock' = exportClock + 1
      /\ directory' = [directory EXCEPT !["database"] = files]
      /\ snapshot' = NotRead /\ output' = NothingRead /\ since' = {database}
      /\ UNCHANGED <<database, visitor, committed, faults, newest>>
    BY DEF BeginExport
<1>2. exportClock \in Nat /\ newest \in [Dirs -> Nat] /\ "database" \in Dirs
      /\ directory'["database"] = files
    BY <1>1 DEF FilesInv, Dirs
<1>3. CatalogueInv'
    BY <1>1 DEF CatalogueInv, Whole
<1>4. ReadInv'
    <2>1. "files" \in TableNames
        BY DEF TableNames, Tables
    <2> QED BY <1>1, <2>1 DEF ReadInv, NothingRead
<1>5. StoredIn("database")'
    <2>1. sqlite \in StoredFiles("database") /\ sqlite.kind # "final" /\ sqlite.at <= exportClock'
        BY <1>1, <1>2 DEF StoredFiles, Contents
    <2>2. \A f \in Finished("database") : f \in files
        BY DEF Finished, Partials
    <2>3. \A f \in files : f = sqlite \/ f \in directory["database"]
        OBVIOUS
    <2> HIDE DEF files, sqlite
    <2> QED BY <1>1, <1>2, <2>1, <2>2, <2>3, NewestStays
<1>6. /\ directory' = [dir \in Dirs |-> directory'[dir]]
      /\ \A dir \in Dirs : StoredIn(dir)'
    <2>1. /\ directory' = [directory EXCEPT !["database"] = files]
          /\ exportClock' \in Nat /\ exportClock' >= exportClock /\ newest' = newest
        BY <1>1, <1>2
    <2> HIDE DEF files, sqlite
    <2> QED BY <1>2, <1>5, <2>1, OtherStays
<1>7. newest["database"] < exportClock'
    <2>1. StoredIn("database")
        BY <1>2 DEF FilesInv
    <2> QED BY <1>1, <1>2, <2>1 DEF StoredIn
<1>8. FilesInv'
    <2>1. /\ exportClock' \in Nat /\ exportClock' > 0 /\ exporter' = "read"
          /\ newest' \in [Dirs -> Nat] /\ newest'["database"] < exportClock'
        BY <1>1, <1>2, <1>7
    <2> QED BY <1>6, <2>1 DEF FilesInv
<1>9. VisitorInv'
    BY <1>1, <1>2, VisitorsKeep
<1> QED BY <1>3, <1>4, <1>8, <1>9

\* Every table is read from the one state that the first read saw.
LEMMA ReadTableStep == ASSUME ExportInv, ReadTable PROVE ExportInv'
<1> USE DEF ExportInv
<1> DEFINE seen == IF snapshot = NotRead THEN database ELSE snapshot
           next == Tables[NextTable]
<1>1. /\ exporter = "read" /\ exporter' = IF NextTable = Len(Tables) THEN "check" ELSE "read"
      /\ output' = [output EXCEPT ![next] = RowsOf(next, seen)] /\ snapshot' = seen
      /\ UNCHANGED <<database, directory, exportClock, visitor, committed, faults, since, newest>>
    BY DEF ReadTable, CopyTable, exportHistory
<1>2. exporter' \in {"read", "check"}
    BY <1>1
<1>3. CatalogueInv'
    BY <1>1 DEF CatalogueInv, Whole
<1>4. /\ database \in since /\ output = [t \in TableNames |-> output[t]]
      /\ snapshot # NotRead => snapshot \in since
      /\ \A t \in TableNames : output[t] # NotRead => snapshot # NotRead /\ output[t] = RowsOf(t, snapshot)
      /\ output["files"] = NotRead
    BY <1>1 DEF ReadInv, Exporting
<1>5. seen \in since /\ seen # NotRead
    <2>1. database # NotRead
        BY ExportAssumption DEF CatalogueInv, Whole
    <2> QED BY <1>4, <2>1
<1>6. /\ NextTable \in 1..4
      /\ NextTable = 4 => \A t \in TableNames \ {"files"} : output[t] # NotRead
    BY <1>4, NextIsATable
<1>7. next \in TableNames /\ (NextTable = 4 <=> next = "files") /\ Len(Tables) = 4
    BY <1>6 DEF TableNames, Tables
<1>8. output' = [t \in TableNames |-> output'[t]]
    BY <1>1, <1>4, <1>7
<1>9. \A t \in TableNames : output'[t] = IF t = next THEN RowsOf(t, seen) ELSE output[t]
    BY <1>1, <1>4, <1>7
<1>10. \A t \in TableNames : output'[t] # NotRead => output'[t] = RowsOf(t, seen)
    BY <1>4, <1>9
<1>11. exporter' = "read" => output'["files"] = NotRead
    <2>1. "files" \in TableNames
        BY DEF TableNames, Tables
    <2> HIDE DEF next
    <2> QED BY <1>1, <1>4, <1>7, <1>9, <2>1
<1>12. exporter' # "read" => output' = CopyOf(seen)
    <2> SUFFICES ASSUME NextTable = 4 PROVE output' = CopyOf(seen)
        BY <1>1, <1>7
    <2>1. ASSUME NEW t \in TableNames PROVE output'[t] = RowsOf(t, seen)
        <3>1. CASE t = next
            BY <1>9, <3>1
        <3>2. CASE t # next
            BY <1>4, <1>6, <1>7, <1>9, <3>2
        <3> QED BY <3>1, <3>2
    <2> HIDE DEF seen
    <2> QED BY <1>8, <2>1 DEF CopyOf
<1>13. ReadInv'
    <2> HIDE DEF seen, next
    <2> QED BY <1>1, <1>4, <1>5, <1>8, <1>10, <1>11, <1>12 DEF ReadInv
<1>14. FilesInv' /\ VisitorInv'
    BY <1>1, <1>2, DirectoriesStay DEF Exporting
<1> QED BY <1>3, <1>13, <1>14

\* The worker has read all and goes on.
LEMMA CopiedStays ==
    ASSUME ExportInv, exporter \in Exporting \ {"read"}, exporter' \in Exporting \ {"read"},
           UNCHANGED <<database, snapshot, output, since, committed>>
    PROVE  CatalogueInv' /\ ReadInv'
    BY DEF ExportInv, CatalogueInv, ReadInv, Whole

\* What has been read is of a catalogue, and not nothing.
LEMMA OutputIsCopy ==
    ASSUME ExportInv, exporter \in Exporting \ {"read"}
    PROVE  /\ output \in Copies /\ output # NotRead /\ ReferencesHold(output)
           /\ \E db \in since : output = CopyOf(db)
<1>1. snapshot \in since /\ output = CopyOf(snapshot)
    BY DEF ExportInv, ReadInv
<1>2. Whole(snapshot)
    BY <1>1 DEF ExportInv, CatalogueInv
<1> QED BY <1>1, <1>2, CopyIsWhole, ExportAssumption

\* The worker is done, whether or not it has made a file.
LEMMA SleepKeeps ==
    ASSUME ExportInv, Sleep, VisitorInv,
           NEW files, directory' = [directory EXCEPT !["database"] = files],
           \A f \in files : f \in directory["database"],
           \A f \in Finished("database") : f.at = newest["database"] => f \in files
    PROVE  ExportInv'
<1> USE DEF ExportInv
<1>1. /\ exporter' = "asleep" /\ since' = {}
      /\ UNCHANGED <<database, exportClock, visitor, committed, newest>>
    BY DEF Sleep
<1>2. exportClock \in Nat /\ newest \in [Dirs -> Nat] /\ "database" \in Dirs
      /\ directory'["database"] = files
    BY DEF FilesInv, Dirs
<1>3. CatalogueInv' /\ ReadInv'
    BY <1>1 DEF CatalogueInv, Whole, ReadInv, Exporting
<1>4. StoredIn("database")'
    BY <1>1, <1>2, NewestStays
<1>5. /\ directory' = [dir \in Dirs |-> directory'[dir]]
      /\ \A dir \in Dirs : StoredIn(dir)'
    <2>1. exportClock' \in Nat /\ exportClock' >= exportClock /\ newest' = newest
        BY <1>1, <1>2
    <2> QED BY <1>2, <1>4, <2>1, OtherStays
<1>6. FilesInv'
    BY <1>1, <1>2, <1>5 DEF FilesInv, Exporting
<1>7. VisitorInv'
    BY <1>1, <1>2, VisitorsKeep
<1> QED BY <1>3, <1>6, <1>7

LEMMA SleepStep ==
    ASSUME ExportInv, RenameFails \/ StopExport \/ ExportFails \/ RemoveOldExports \/ (GiveUp /\ exporter = "check")
    PROVE  ExportInv'
<1> USE DEF ExportInv
<1>1. directory = [dir \in Dirs |-> directory[dir]] /\ "database" \in Dirs /\ Sleep
    BY DEF FilesInv, RenameFails, StopExport, ExportFails, RemoveOldExports, GiveUp, Dirs
<1>2. CASE RenameFails \/ StopExport
    <2> DEFINE files == directory["database"]
    <2>1. directory' = [directory EXCEPT !["database"] = files]
        BY <1>1, <1>2 DEF RenameFails, StopExport
    <2>2. \A f \in Finished("database") : f \in files
        BY DEF Finished
    <2> HIDE DEF files
    <2>3. \A f \in files : f \in directory["database"]
        BY DEF files
    <2> QED BY <1>1, <2>1, <2>2, <2>3, SleepKeeps
<1>3. CASE ExportFails \/ GiveUp
    <2> DEFINE files == directory["database"] \ Partials("database")
    <2>1. directory' = [directory EXCEPT !["database"] = files]
        BY <1>3 DEF ExportFails, GiveUp
    <2>2. \A f \in Finished("database") : f \in files
        BY DEF Finished, Partials
    <2>3. \A f \in files : f \in directory["database"]
        OBVIOUS
    <2> HIDE DEF files
    <2> QED BY <1>1, <2>1, <2>2, <2>3, SleepKeeps
<1>4. CASE RemoveOldExports
    <2> DEFINE files == {f \in directory["database"] : f.kind = "final" => f.at = exportClock}
    <2>1. directory' = [directory EXCEPT !["database"] = files]
        BY <1>4 DEF RemoveOldExports
    <2>2. newest["database"] = exportClock
        BY <1>4 DEF RemoveOldExports, FilesInv
    <2>3. \A f \in Finished("database") : f.at = newest["database"] => f \in files
        BY <2>2 DEF Finished
    <2>4. \A f \in files : f \in directory["database"]
        OBVIOUS
    <2> HIDE DEF files
    <2> QED BY <1>1, <2>1, <2>3, <2>4, SleepKeeps
<1> QED BY <1>2, <1>3, <1>4

LEMMA CheckExportStep == ASSUME ExportInv, CheckExport PROVE ExportInv'
<1>1. CASE exporter' = "compress" /\ UNCHANGED <<database, directory, snapshot, output, exportClock, visitor,
                                                 committed, exportHistory>>
    <2>1. exporter = "check" /\ UNCHANGED <<since, newest>>
        BY <1>1 DEF CheckExport, exportHistory
    <2>2. CatalogueInv' /\ ReadInv'
        BY <1>1, <2>1, CopiedStays DEF Exporting
    <2>3. FilesInv' /\ VisitorInv'
        BY <1>1, <2>1, DirectoriesStay DEF Exporting, ExportInv
    <2> QED BY <2>2, <2>3 DEF ExportInv
<1>2. CASE GiveUp /\ exporter = "check"
    BY <1>2, SleepStep
<1> QED BY <1>1, <1>2 DEF CheckExport

\* The partial file is begun.
LEMMA CompressStep == ASSUME ExportInv, Compress PROVE ExportInv'
<1> USE DEF ExportInv
<1> DEFINE packed == Working("partial", NotRead)
           files == directory["database"] \cup {packed}
<1>1. /\ exporter = "compress" /\ exporter' = "finish"
      /\ directory' = [directory EXCEPT !["database"] = files]
      /\ UNCHANGED <<database, snapshot, output, exportClock, visitor, committed, since, newest>>
    BY DEF Compress, exportHistory
<1>2. exportClock \in Nat \ {0} /\ newest \in [Dirs -> Nat] /\ "database" \in Dirs
      /\ directory'["database"] = files /\ newest["database"] < exportClock
    BY <1>1 DEF FilesInv, Dirs, Exporting
<1>3. CatalogueInv' /\ ReadInv'
    BY <1>1, CopiedStays DEF Exporting
<1>4. StoredIn("database")'
    <2>1. packed \in StoredFiles("database") /\ packed.kind # "final" /\ packed.at <= exportClock'
        BY <1>1, <1>2 DEF StoredFiles, Contents, Working
    <2>2. \A f \in Finished("database") : f \in files
        BY DEF Finished
    <2>3. \A f \in files : f = packed \/ f \in directory["database"]
        OBVIOUS
    <2> HIDE DEF files, packed
    <2> QED BY <1>1, <1>2, <2>1, <2>2, <2>3, NewestStays
<1>5. /\ directory' = [dir \in Dirs |-> directory'[dir]]
      /\ \A dir \in Dirs : StoredIn(dir)'
    <2>1. /\ directory' = [directory EXCEPT !["database"] = files]
          /\ exportClock' \in Nat /\ exportClock' >= exportClock /\ newest' = newest
        BY <1>1, <1>2
    <2> HIDE DEF files
    <2> QED BY <1>2, <1>4, <2>1, OtherStays
<1>6. FilesInv'
    <2>1. /\ exportClock' \in Nat /\ exportClock' > 0 /\ exporter' = "finish"
          /\ newest' \in [Dirs -> Nat] /\ newest'["database"] < exportClock'
        BY <1>1, <1>2
    <2> QED BY <1>5, <2>1 DEF FilesInv
<1>7. VisitorInv'
    BY <1>1, <1>2, VisitorsKeep
<1> QED BY <1>3, <1>6, <1>7

\* The partial file is complete.
LEMMA FinishPackingStep == ASSUME ExportInv, FinishPacking PROVE ExportInv'
<1> USE DEF ExportInv
<1> DEFINE packed(f) == IF f.at = exportClock /\ f.kind # "sqlite" THEN [f EXCEPT !.content = output] ELSE f
           files == {packed(f) : f \in directory["database"]}
<1>1. /\ exporter = "finish" /\ exporter' = "publish"
      /\ directory' = [directory EXCEPT !["database"] = files]
      /\ UNCHANGED <<database, snapshot, output, exportClock, visitor, committed, since, newest>>
    BY DEF FinishPacking, exportHistory
<1>2. exportClock \in Nat \ {0} /\ newest \in [Dirs -> Nat] /\ "database" \in Dirs
      /\ directory'["database"] = files /\ newest["database"] < exportClock /\ StoredIn("database")
    BY <1>1 DEF FilesInv, Dirs, Exporting
<1>3. CatalogueInv' /\ ReadInv' /\ output \in Copies
    BY <1>1, CopiedStays, OutputIsCopy DEF Exporting
<1>4. StoredIn("database")'
    <2>1. ASSUME NEW f \in directory["database"], f.kind = "final" PROVE packed(f) = f
        <3>1. f.at <= newest["database"] /\ f.at \in Nat
            BY <1>2, <2>1 DEF StoredIn, Finished, StoredFiles
        <3>2. newest["database"] \in Nat
            BY <1>2
        <3> QED BY <1>2, <3>1, <3>2
    <2>2. ASSUME NEW f \in directory["database"], f.kind # "final"
          PROVE  /\ packed(f) \in StoredFiles("database") /\ packed(f).kind # "final"
                 /\ packed(f).at <= exportClock'
        BY <1>1, <1>2, <1>3, <2>2 DEF StoredIn, StoredFiles, Contents
    <2>3. \A f \in Finished("database") : f \in files
        BY <2>1 DEF Finished
    <2>4. \A f \in files : \/ f \in directory["database"]
                           \/ f \in StoredFiles("database") /\ f.kind # "final" /\ f.at <= exportClock'
        <3> HIDE DEF packed
        <3> QED BY <2>1, <2>2
    <2> HIDE DEF files
    <2> QED BY <1>1, <1>2, <2>3, <2>4, NewestStays
<1>5. /\ directory' = [dir \in Dirs |-> directory'[dir]]
      /\ \A dir \in Dirs : StoredIn(dir)'
    <2>1. /\ directory' = [directory EXCEPT !["database"] = files]
          /\ exportClock' \in Nat /\ exportClock' >= exportClock /\ newest' = newest
        BY <1>1, <1>2
    <2> HIDE DEF files
    <2> QED BY <1>2, <1>4, <2>1, OtherStays
<1>6. FilesInv'
    <2>1. /\ exportClock' \in Nat /\ exportClock' > 0 /\ exporter' = "publish"
          /\ newest' \in [Dirs -> Nat] /\ newest'["database"] < exportClock'
        BY <1>1, <1>2
    <2> QED BY <1>5, <2>1 DEF FilesInv
<1>7. VisitorInv'
    BY <1>1, <1>2, VisitorsKeep
<1> QED BY <1>3, <1>6, <1>7

\* The rename: a complete file gets the final name.
LEMMA PublishExportStep == ASSUME ExportInv, PublishExport PROVE ExportInv'
<1> USE DEF ExportInv
<1> DEFINE published == Working("final", output)
           files == Finished("database") \cup {published}
<1>1. /\ exporter = "publish" /\ exporter' = "remove"
      /\ directory' = [directory EXCEPT !["database"] = files]
      /\ newest' = [newest EXCEPT !["database"] = exportClock]
      /\ UNCHANGED <<database, snapshot, output, exportClock, visitor, committed, since>>
    BY DEF PublishExport
<1>2. exportClock \in Nat \ {0} /\ newest \in [Dirs -> Nat] /\ "database" \in Dirs
      /\ directory'["database"] = files /\ newest'["database"] = exportClock
    BY <1>1 DEF FilesInv, Dirs, Exporting
<1>3. CatalogueInv' /\ ReadInv' /\ output \in Copies /\ output # NotRead
    BY <1>1, CopiedStays, OutputIsCopy DEF Exporting
<1>4. StoredIn("database")'
    <2>1. /\ published \in StoredFiles("database") /\ published.at = exportClock
          /\ published.kind = "final" /\ published.content # NotRead
        BY <1>2, <1>3 DEF StoredFiles, Contents, Working
    <2>2. \A f \in files : f = published \/ f \in directory["database"]
        BY DEF Finished
    <2>3. published \in files
        OBVIOUS
    <2> HIDE DEF files, published
    <2> QED BY <1>1, <1>2, <2>1, <2>2, <2>3, NewestIsPublished
<1>5. /\ directory' = [dir \in Dirs |-> directory'[dir]] /\ newest' \in [Dirs -> Nat]
      /\ \A dir \in Dirs : StoredIn(dir)' /\ newest'[dir] >= newest[dir]
    <2>1. /\ directory' = [directory EXCEPT !["database"] = files]
          /\ exportClock' \in Nat /\ exportClock' >= exportClock
          /\ newest' = [newest EXCEPT !["database"] = exportClock]
        BY <1>1, <1>2
    <2> HIDE DEF files
    <2> QED BY <1>2, <1>4, <2>1, OtherStays
<1>6. FilesInv'
    <2>1. /\ exportClock' \in Nat /\ exportClock' > 0 /\ exporter' = "remove"
          /\ newest'["database"] = exportClock'
        BY <1>1, <1>2
    <2> QED BY <1>5, <2>1 DEF FilesInv
<1>7. VisitorInv'
    BY <1>1, <1>5, VisitorsKeep
<1> QED BY <1>3, <1>6, <1>7

-----------------------------------------------------------------------------
(* The worker stores a zip. *)

LEMMA WriteZipStep == ASSUME ExportInv, WriteZip PROVE ExportInv'
<1> USE DEF ExportInv
<1> DEFINE zip == [kind |-> "partial", at |-> exportClock + 1, content |-> exportClock + 1]
           files == directory["zips"] \cup {zip}
<1>1. /\ exporter' = "rename zip" /\ exportClock' = exportClock + 1
      /\ directory' = [directory EXCEPT !["zips"] = files]
      /\ UNCHANGED <<database, snapshot, output, visitor, committed, since, newest>>
    BY DEF WriteZip, exportHistory
<1>2. exportClock \in Nat /\ newest \in [Dirs -> Nat] /\ "zips" \in Dirs
      /\ directory'["zips"] = files /\ StoredIn("zips")
    BY <1>1 DEF FilesInv, Dirs
<1>9. /\ exportClock' = exportClock + 1 /\ exportClock' \in Nat /\ exportClock' >= exportClock /\ exportClock' # 0
      /\ UNCHANGED <<visitor, newest>>
    <2>1. exportClock \in Nat
        BY <1>2
    <2>2. exportClock' = exportClock + 1 /\ UNCHANGED <<visitor, newest>>
        BY <1>1
    <2> QED BY <2>1, <2>2
<1>3. CatalogueInv' /\ ReadInv'
    BY <1>1 DEF CatalogueInv, Whole, ReadInv, Exporting
<1>4. /\ zip \in files /\ zip.at = exportClock' /\ zip.content = exportClock'
      /\ zip = [kind |-> "partial", at |-> zip.at, content |-> zip.content]
    BY <1>9
<1>5. StoredIn("zips")'
    <2>1. zip \in StoredFiles("zips") /\ zip.kind # "final" /\ zip.at <= exportClock'
        BY <1>4, <1>9 DEF StoredFiles, Contents
    <2>2. \A f \in Finished("zips") : f \in files
        BY DEF Finished
    <2>3. \A f \in files : f = zip \/ f \in directory["zips"]
        OBVIOUS
    <2> HIDE DEF files, zip
    <2> QED BY <1>2, <1>9, <2>1, <2>2, <2>3, NewestStays
<1>6. /\ directory' = [dir \in Dirs |-> directory'[dir]]
      /\ \A dir \in Dirs : StoredIn(dir)'
    <2>1. /\ directory' = [directory EXCEPT !["zips"] = files]
          /\ exportClock' \in Nat /\ exportClock' >= exportClock /\ newest' = newest
        BY <1>1, <1>9
    <2> HIDE DEF files, zip
    <2> QED BY <1>2, <1>5, <2>1, OtherStays
<1>7. FilesInv'
    <2>3. newest["zips"] \in 0 .. exportClock
        BY <1>2 DEF StoredIn
    <2>1. /\ exportClock' \in Nat /\ exporter' = "rename zip" /\ newest' \in [Dirs -> Nat]
          /\ newest'["zips"] < exportClock'
        <3>1. newest["zips"] < exportClock + 1
            BY <1>2, <2>3
        <3>2. newest'["zips"] < exportClock'
            BY <1>9, <3>1
        <3> QED BY <1>1, <1>2, <1>9, <3>2
    <2>2. \E f \in directory'["zips"] : f.at = exportClock'
        BY <1>2, <1>4
    <2> QED BY <1>6, <2>1, <2>2 DEF FilesInv, Exporting
<1>8. VisitorInv'
    <2>1. newest' \in [Dirs -> Nat] /\ \A dir \in Dirs : newest'[dir] >= newest[dir]
        BY <1>2, <1>9
    <2> QED BY <1>9, <2>1, VisitorsKeep
<1> QED BY <1>3, <1>7, <1>8

LEMMA RenameZipStep == ASSUME ExportInv, RenameZip PROVE ExportInv'
<1> USE DEF ExportInv
<1> DEFINE named(f) == IF f.at = exportClock THEN [f EXCEPT !.kind = "final"] ELSE f
           files == {named(f) : f \in directory["zips"]}
<1>1. /\ exporter = "rename zip" /\ exporter' = "remove zips"
      /\ directory' = [directory EXCEPT !["zips"] = files]
      /\ newest' = [newest EXCEPT !["zips"] = exportClock]
      /\ UNCHANGED <<database, snapshot, output, exportClock, visitor, committed, since>>
    BY DEF RenameZip
<1>2. /\ exportClock \in Nat /\ newest \in [Dirs -> Nat] /\ "zips" \in Dirs /\ directory'["zips"] = files
      /\ newest'["zips"] = exportClock /\ newest["zips"] < exportClock /\ StoredIn("zips")
      /\ \E f \in directory["zips"] : f.at = exportClock
    BY <1>1 DEF FilesInv, Dirs
<1>8. exportClock > 0 /\ exportClock' \in Nat /\ exportClock' >= exportClock /\ UNCHANGED exportClock
    <2>1. exportClock \in Nat /\ newest["zips"] \in Nat /\ newest["zips"] < exportClock
        BY <1>2
    <2>2. UNCHANGED exportClock
        BY <1>1
    <2> QED BY <2>1, <2>2
<1>3. CatalogueInv' /\ ReadInv'
    BY <1>1 DEF CatalogueInv, Whole, ReadInv, Exporting
<1>4. StoredIn("zips")'
    <2>1. ASSUME NEW f \in directory["zips"], f.at = exportClock
          PROVE  /\ named(f) \in StoredFiles("zips") /\ named(f).at = exportClock
                 /\ named(f).kind = "final" /\ named(f).content # NotRead
        <3>1. f \in StoredFiles("zips")
            BY <1>2 DEF StoredIn
        <3>2. f.content \in Nat
            BY <3>1 DEF StoredFiles, Contents
        <3>3. f.content # NotRead
            BY <3>2, ExportAssumption
        <3> QED BY <2>1, <3>1, <3>3 DEF StoredFiles
    <2>2. ASSUME NEW f \in directory["zips"], f.at # exportClock PROVE named(f) = f
        BY <2>2
    <2>3. \E f \in files : f.kind = "final" /\ f.at = exportClock
        <3> HIDE DEF named
        <3> QED BY <1>2, <2>1
    <2>4. \A f \in files : \/ f \in directory["zips"]
                           \/ f \in StoredFiles("zips") /\ f.at = exportClock /\ f.content # NotRead
        <3> HIDE DEF named
        <3> QED BY <2>1, <2>2
    <2> HIDE DEF files
    <2> QED BY <1>2, <1>8, <2>3, <2>4, NewestIsPublished
<1>5. /\ directory' = [dir \in Dirs |-> directory'[dir]] /\ newest' \in [Dirs -> Nat]
      /\ \A dir \in Dirs : StoredIn(dir)' /\ newest'[dir] >= newest[dir]
    <2>1. /\ directory' = [directory EXCEPT !["zips"] = files]
          /\ exportClock' \in Nat /\ exportClock' >= exportClock
          /\ newest' = [newest EXCEPT !["zips"] = exportClock]
        BY <1>1, <1>8
    <2> HIDE DEF files
    <2> QED BY <1>2, <1>4, <2>1, OtherStays
<1>6. FilesInv'
    <2>1. /\ exportClock' \in Nat /\ exporter' = "remove zips" /\ newest'["zips"] = exportClock'
        BY <1>1, <1>2
    <2> QED BY <1>5, <2>1 DEF FilesInv, Exporting
<1>7. VisitorInv'
    BY <1>1, <1>5, VisitorsKeep
<1> QED BY <1>3, <1>6, <1>7

\* The zips are done with, whether or not one has been stored.
LEMMA ZipsDoneStep == ASSUME ExportInv, StoreFails \/ RemoveOtherZips PROVE ExportInv'
<1> USE DEF ExportInv
<1> DEFINE files == IF StoreFails THEN {f \in directory["zips"] : f.at # exportClock}
                    ELSE {f \in directory["zips"] : f.kind = "final" => f.at = exportClock}
<1>1. /\ exporter' = "asleep" /\ directory' = [directory EXCEPT !["zips"] = files]
      /\ UNCHANGED <<database, snapshot, output, exportClock, visitor, committed, since, newest>>
    BY DEF StoreFails, RemoveOtherZips, exportHistory
<1>2. exportClock \in Nat /\ newest \in [Dirs -> Nat] /\ "zips" \in Dirs /\ directory'["zips"] = files
    BY <1>1 DEF FilesInv, Dirs
<1>3. CatalogueInv' /\ ReadInv'
    BY <1>1 DEF CatalogueInv, Whole, ReadInv, Exporting
<1>4. StoredIn("zips")'
    <2>1. CASE StoreFails
        <3>1. newest["zips"] < exportClock /\ newest["zips"] \in Nat
            BY <1>2, <2>1 DEF StoreFails, FilesInv
        <3>2. \A f \in Finished("zips") : f.at = newest["zips"] => f \in files
            BY <1>2, <2>1, <3>1 DEF Finished
        <3>3. \A f \in files : f \in directory["zips"]
            BY <2>1
        <3> HIDE DEF files
        <3> QED BY <1>1, <1>2, <3>2, <3>3, NewestStays
    <2>2. CASE ~StoreFails
        <3>1. newest["zips"] = exportClock
            BY <2>2 DEF RemoveOtherZips, FilesInv
        <3>2. \A f \in Finished("zips") : f.at = newest["zips"] => f \in files
            BY <2>2, <3>1 DEF Finished
        <3>3. \A f \in files : f \in directory["zips"]
            BY <2>2
        <3> HIDE DEF files
        <3> QED BY <1>1, <1>2, <3>2, <3>3, NewestStays
    <2> QED BY <2>1, <2>2
<1>5. /\ directory' = [dir \in Dirs |-> directory'[dir]]
      /\ \A dir \in Dirs : StoredIn(dir)'
    <2>1. /\ directory' = [directory EXCEPT !["zips"] = files]
          /\ exportClock' \in Nat /\ exportClock' >= exportClock /\ newest' = newest
        BY <1>1, <1>2
    <2> HIDE DEF files
    <2> QED BY <1>2, <1>4, <2>1, OtherStays
<1>6. FilesInv'
    BY <1>1, <1>2, <1>5 DEF FilesInv, Exporting
<1>7. VisitorInv'
    BY <1>1, <1>2, VisitorsKeep
<1> QED BY <1>3, <1>6, <1>7

-----------------------------------------------------------------------------
(* Downloads. *)

\* Only a visitor moves.
LEMMA VisitorMoves ==
    ASSUME ExportInv, NEW v \in Downloaders, NEW record, VisitorNow(v, record), RequestInv(record)
    PROVE  ExportInv'
<1> USE DEF ExportInv
<1>1. /\ visitor' = [visitor EXCEPT ![v] = record]
      /\ UNCHANGED <<database, directory, exporter, snapshot, output, exportClock, committed, faults, since, newest>>
    BY DEF VisitorNow, exportWork, exportHistory
<1>2. CatalogueInv' /\ ReadInv'
    BY <1>1 DEF CatalogueInv, ReadInv, Whole
<1>3. ASSUME NEW dir \in Dirs PROVE StoredIn(dir)'
    <2>1. StoredIn(dir)
        BY DEF FilesInv
    <2> QED BY <1>1, <2>1 DEF StoredIn, Finished
<1>4. FilesInv'
    BY <1>1, <1>3 DEF FilesInv
<1>5. VisitorInv'
    <2>1. visitor = [w \in Downloaders |-> visitor[w]]
        BY DEF VisitorInv
    <2>2. visitor' = [w \in Downloaders |-> visitor'[w]]
        BY <1>1, <2>1
    <2>3. ASSUME NEW w \in Downloaders PROVE RequestInv(visitor[w])'
        <3> PICK q : q = visitor'[w]
            OBVIOUS
        <3>1. RequestInv(q)
            BY <1>1, <2>1 DEF VisitorInv
        <3> QED BY <1>1, <3>1 DEF RequestInv
    <2> QED BY <2>2, <2>3 DEF VisitorInv
<1> QED BY <1>2, <1>4, <1>5

LEMMA DownloadStep ==
    ASSUME ExportInv, NEW v \in Downloaders,
           DownloadsPage(v) \/ (\E dir \in Dirs : ChooseFile(v, dir)) \/ OpenFile(v) \/ ReadAnswer(v)
    PROVE  ExportInv'
<1> DEFINE request == visitor[v]
<1>1. /\ request \in [at : {"idle", "chosen", "served", "not found"}, dir : Dirs, shown : Nat,
                      chosen : Nat, floor : Nat, content : {request.content}]
      /\ RequestInv(request)
    BY DEF ExportInv, VisitorInv, RequestInv
<1>2. FilesInv /\ newest \in [Dirs -> Nat] /\ "database" \in Dirs /\ newest["database"] \in Nat
    BY DEF ExportInv, FilesInv, Dirs
<1>3. CASE DownloadsPage(v)
    <2> DEFINE record == [NewVisitor EXCEPT !.shown = Latest("database")]
    <2>1. Latest("database") = newest["database"]
        BY <1>2, LatestIsNewest
    <2>4. /\ record.at = "idle" /\ record.shown = newest["database"]
          /\ record \in [at : {"idle", "chosen", "served", "not found"}, dir : Dirs, shown : Nat,
                         chosen : Nat, floor : Nat, content : {record.content}]
        BY <1>2, <2>1 DEF NewVisitor
    <2>5. record.shown <= newest["database"]
        <3>1. newest["database"] <= newest["database"]
            BY <1>2
        <3>2. record.shown = newest["database"]
            BY <2>4
        <3> HIDE DEF record
        <3> QED BY <3>1, <3>2
    <2>2. RequestInv(record)
        <3> HIDE DEF record
        <3> QED BY <2>4, <2>5 DEF RequestInv
    <2>3. VisitorNow(v, record)
        BY <1>3 DEF DownloadsPage
    <2> HIDE DEF record
    <2> QED BY <2>2, <2>3, VisitorMoves
<1>4. CASE \E dir \in Dirs : ChooseFile(v, dir)
    <2> PICK dir \in Dirs : ChooseFile(v, dir)
        BY <1>4
    <2> DEFINE record == [request EXCEPT !.dir = dir, !.floor = newest[dir], !.chosen = Latest(dir),
                                         !.at = IF Latest(dir) = 0 THEN "not found" ELSE "chosen"]
    <2>1. Latest(dir) = newest[dir] /\ newest[dir] \in Nat
        BY <1>2, LatestIsNewest
    <2>2. /\ record.at = IF newest[dir] = 0 THEN "not found" ELSE "chosen"
          /\ record.dir = dir /\ record.floor = newest[dir] /\ record.chosen = newest[dir]
          /\ record.shown = request.shown
          /\ record \in [at : {"idle", "chosen", "served", "not found"}, dir : Dirs, shown : Nat,
                         chosen : Nat, floor : Nat, content : {record.content}]
        BY <1>1, <2>1
    <2>3. request.shown <= newest["database"]
        BY <1>1 DEF RequestInv
    <2>4. VisitorNow(v, record)
        BY DEF ChooseFile
    <2> HIDE DEF record, request
    <2>5. record.at \in {"chosen", "served"} =>
              /\ record.chosen \in 1 .. newest[record.dir]
              /\ record.chosen >= record.floor
              /\ record.dir = "database" => record.chosen >= record.shown
        <3>1. ASSUME record.at \in {"chosen", "served"} PROVE newest[dir] # 0
            BY <2>2, <3>1
        <3>2. ASSUME newest[dir] # 0 PROVE newest[dir] \in 1 .. newest[dir] /\ newest[dir] >= newest[dir]
            BY <2>1, <3>2
        <3>3. dir = "database" => newest[dir] >= request.shown
            <4>1. request.shown \in Nat
                BY <1>1
            <4> QED BY <1>2, <2>3, <4>1
        <3> QED BY <2>2, <3>1, <3>2, <3>3
    <2>6. /\ record.shown <= newest["database"] /\ record.at # "served"
          /\ record.at = "not found" => record.floor = 0
        BY <2>1, <2>2, <2>3
    <2>7. RequestInv(record)
        BY <2>2, <2>5, <2>6 DEF RequestInv
    <2> QED BY <2>4, <2>7, VisitorMoves
<1>5. CASE OpenFile(v)
    <2> DEFINE found == {f \in Finished(request.dir) : f.at = request.chosen}
    <2>1. request.at = "chosen" /\ request.dir \in Dirs
        BY <1>1, <1>5 DEF OpenFile
    <2>2. StoredIn(request.dir) /\ newest[request.dir] \in Nat
        BY <1>2, <2>1 DEF FilesInv
    <2>3. /\ request.chosen \in 1 .. newest[request.dir] /\ request.chosen >= request.floor
          /\ request.dir = "database" => request.chosen >= request.shown
          /\ request.shown <= newest["database"]
        BY <1>1, <2>1 DEF RequestInv
    <2>4. CASE found = {} /\ VisitorNow(v, [request EXCEPT !.at = "not found"])
        <3> DEFINE record == [request EXCEPT !.at = "not found"]
        <3>1. newest[request.dir] # request.chosen
            <4>1. newest[request.dir] # 0
                BY <2>2, <2>3
            <4>2. PICK f \in Finished(request.dir) : f.at = newest[request.dir]
                BY <2>2, <4>1 DEF StoredIn
            <4>3. f \notin found
                BY <2>4
            <4> QED BY <4>2, <4>3
        <3>2. newest[request.dir] > request.floor
            <4>1. request.floor \in Nat /\ request.chosen \in Nat
                BY <1>1
            <4>2. request.chosen <= newest[request.dir] /\ request.chosen >= request.floor
                BY <2>2, <2>3
            <4> HIDE DEF request
            <4> QED BY <2>2, <3>1, <4>1, <4>2
        <3>3. /\ record.at = "not found" /\ record.dir = request.dir /\ record.floor = request.floor
              /\ record.shown = request.shown
              /\ record \in [at : {"idle", "chosen", "served", "not found"}, dir : Dirs, shown : Nat,
                             chosen : Nat, floor : Nat, content : {record.content}]
            BY <1>1
        <3>4. VisitorNow(v, record)
            BY <2>4
        <3> HIDE DEF record, request
        <3>5. RequestInv(record)
            BY <2>3, <3>2, <3>3 DEF RequestInv
        <3> QED BY <3>4, <3>5, VisitorMoves
    <2>5. ASSUME NEW f \in found, VisitorNow(v, [request EXCEPT !.at = "served", !.content = f.content])
          PROVE  ExportInv'
        <3> DEFINE record == [request EXCEPT !.at = "served", !.content = f.content]
        <3>1. f.content # NotRead
            BY <2>2 DEF StoredIn
        <3>2. /\ record.at = "served" /\ record.dir = request.dir /\ record.floor = request.floor
              /\ record.shown = request.shown /\ record.chosen = request.chosen /\ record.content = f.content
              /\ record \in [at : {"idle", "chosen", "served", "not found"}, dir : Dirs, shown : Nat,
                             chosen : Nat, floor : Nat, content : {record.content}]
            BY <1>1
        <3>3. VisitorNow(v, record)
            BY <2>5
        <3> HIDE DEF record, request
        <3>4. RequestInv(record)
            BY <2>3, <3>1, <3>2 DEF RequestInv
        <3> QED BY <3>3, <3>4, VisitorMoves
    <2> QED BY <1>5, <2>4, <2>5 DEF OpenFile
<1>6. CASE ReadAnswer(v)
    <2>1. RequestInv(NewVisitor)
        BY <1>2 DEF RequestInv, NewVisitor, Dirs
    <2>2. VisitorNow(v, NewVisitor)
        BY <1>6 DEF ReadAnswer
    <2> QED BY <2>1, <2>2, VisitorMoves
<1> QED BY <1>3, <1>4, <1>5, <1>6

-----------------------------------------------------------------------------
(* The theorems. *)

LEMMA ExportInitInv == ASSUME DatabaseExportInit PROVE ExportInv
<1>1. CatalogueInv /\ ReadInv
    <2>1. (CHOOSE r \in RegionCodes : TRUE) \in RegionCodes
        BY ExportAssumption
    <2> QED BY <2>1 DEF DatabaseExportInit, CatalogueInv, ReadInv, Exporting, Whole, Databases
<1>2. FilesInv
    BY DEF DatabaseExportInit, FilesInv, StoredIn, Finished, Exporting, Dirs
<1>3. VisitorInv
    <2>1. newest["database"] = 0 /\ visitor = [v \in Downloaders |-> NewVisitor]
        BY DEF DatabaseExportInit, Dirs
    <2>2. RequestInv(NewVisitor)
        BY <2>1 DEF RequestInv, NewVisitor, Dirs
    <2> QED BY <2>1, <2>2 DEF VisitorInv
<1> QED BY <1>1, <1>2, <1>3 DEF ExportInv

LEMMA ExportNextStep == ASSUME ExportInv, [DatabaseExportNext]_exportVars PROVE ExportInv'
<1>1. CASE UNCHANGED exportVars
    <2>1. UNCHANGED <<database, directory, exporter, snapshot, output, exportClock, visitor, committed,
                      since, newest>>
        BY <1>1 DEF exportVars, exportWork, exportHistory
    <2>2. CatalogueInv' /\ ReadInv'
        BY <2>1 DEF ExportInv, CatalogueInv, ReadInv, Whole
    <2> QED BY <2>1, <2>2, DirectoriesStay DEF ExportInv
<1>2. CASE DatabaseExportNext
    BY <1>2, ApproveDiscStep, RecodeRegionStep, BeginExportStep, ReadTableStep, CheckExportStep, CompressStep,
       FinishPackingStep, PublishExportStep, SleepStep, WriteZipStep, RenameZipStep, ZipsDoneStep, DownloadStep
       DEF DatabaseExportNext
<1> QED BY <1>1, <1>2

\* What the worker of services/database_export_service.rs and the visitors
\* have done is, at every moment, as ExportInv says.
THEOREM ExportInvariance == DatabaseExportSpec => []ExportInv
<1>1. DatabaseExportInit => ExportInv
    BY ExportInitInv
<1>2. ExportInv /\ [DatabaseExportNext]_exportVars => ExportInv'
    BY ExportNextStep
<1> QED BY <1>1, <1>2, PTL DEF DatabaseExportSpec

\* An export (services/database_export_service.rs) is the catalogue of one
\* moment since it began, whatever commits between its SELECTs.
THEOREM ExportIsConsistent == DatabaseExportSpec => []ExportIsOneState
<1>1. ExportInv => ExportIsOneState
    BY OutputIsCopy DEF ExportIsOneState, Exporting
<1> QED BY <1>1, ExportInvariance, PTL

\* A download (routes/downloads.rs) is of a complete file, and not of an older
\* one than was published when it was asked for.
THEOREM DownloadsAreComplete == DatabaseExportSpec => []DownloadsAreWhole
<1>1. ExportInv => DownloadsAreWhole
    BY DEF ExportInv, VisitorInv, RequestInv, DownloadsAreWhole
<1> QED BY <1>1, ExportInvariance, PTL
=============================================================================
