------------------------------ MODULE DiscFiles ------------------------------
(***************************************************************************)
(* The files of a disc from the form to the downloads: the DAT (a rom for  *)
(* each track), the cue sheet, and the SBI.  A form is validated and put   *)
(* in canonical form (src/src/routes/disc_edit.rs); an approval stores the *)
(* roms by track number and rewrites the cue sheet with the name of the    *)
(* disc (src/src/services/disc_service.rs); the page, the downloads and    *)
(* the DAT archive name the files again (disc_view.rs,                     *)
(* archive_service.rs); an Edit Disc form shows what is stored in          *)
(* canonical form; and a DAT is looked up among the stored discs           *)
(* (queue_service.rs).                                                     *)
(*                                                                         *)
(* A file name is a base, a track number, whether it is padded to two      *)
(* digits, and an extension; a base is a title and, if the disc has one,   *)
(* its disc number or disc title; a rom is a name and a content, which     *)
(* stands for its size and hashes.  The discs are of one system, which a   *)
(* moderator may edit (src/src/routes/maintenance.rs).                     *)
(***************************************************************************)
EXTENDS CueSheet

CONSTANTS
    NoNumber,      \* no track number
    NoDisc,        \* nothing
    Files,         \* what dumpers post: [base, ext, sheet, dat, sbi]
    Changes,       \* the fields that one edit changes
    TwoDigits,     \* numbers are padded if there are as many tracks: 10 in the code
    MaxPosts       \* bound: forms that are posted

\* What the lines of a DAT and of an SBI are parsed into.
FileNames == [base : Seq(STRING), num : Nat \cup {NoNumber}, wide : BOOLEAN, ext : STRING]
Roms == [name : FileNames, content : STRING]
SbiLines == [msf : {"digits", "hex", "bad"}, bytes : Nat]

ASSUME DiscFilesAssumption ==
    /\ NoNumber \notin Nat
    /\ \A f \in Files : /\ f.base \in Seq(STRING) \ {<<>>}
                         /\ f.ext \in STRING
                         /\ f.sheet \in Seq(CueLines)
                         /\ f.dat \in Seq(Roms)
                         /\ f.sbi \in Seq(SbiLines)
    /\ Changes \subseteq SUBSET {"base", "ext", "cue", "dat", "sbi"}
    /\ {TwoDigits, MaxPosts} \subseteq Nat

VARIABLES
    disc,          \* the row in discs with its files; ghosts: the DAT as it was posted, and what
                   \* `numbered' was when the row was written
    posted,        \* the submission that waits
    posts,
    numbered       \* does the system have disc numbers and disc titles?

fileVars == <<disc, posted, posts, numbered, cueVars>>

-----------------------------------------------------------------------------
(* Names. *)

Name(base, number, wide, ext) == [base |-> base, num |-> number, wide |-> wide, ext |-> ext]

\* build_rom_name and build_simple_track_name: with its number if there are others.
Numbered(base, number, total, ext) ==
    IF total > 1 /\ number # NoNumber THEN Name(base, number, total >= TwoDigits, ext)
    ELSE Name(base, NoNumber, FALSE, ext)

\* filter_unsupported_fields_for_changes
Supported(base) == IF numbered THEN base ELSE <<base[1]>>

\* extract_track_from_filename: the digits are the key of a file.
TrackOf(name) ==
    CASE name.ext = "iso" -> [n |-> 0, wide |-> FALSE]
      [] name.ext # "iso" /\ name.base = <<"Track">> /\ name.num = NoNumber -> [n |-> 1, wide |-> FALSE]
      [] name.ext # "iso" /\ name.num # NoNumber -> [n |-> name.num, wide |-> name.wide]
      [] OTHER -> [n |-> NoNumber, wide |-> FALSE]

-----------------------------------------------------------------------------
(* The form. *)

\* A DAT has a rom, and a track number in each name if it has several.
ValidDat(dat) ==
    /\ dat # <<>>
    /\ Len(dat) > 1 => \A i \in DOMAIN dat : TrackOf(dat[i].name).n # NoNumber

\* A line has a time in digits and twelve bytes of subchannel data.
ValidSbi(sbi) == \A i \in DOMAIN sbi : sbi[i].msf = "digits" /\ sbi[i].bytes = 12

\* A cue sheet is for CDs, and every CD has one.
ValidCue(cue, ext) == IF ext = "bin" THEN cue.sheet # <<>> /\ IsCueSheet(cue.sheet) ELSE cue.sheet = <<>>

ValidPost(post) == ValidDat(post.dat) /\ ValidSbi(post.sbi) /\ ValidCue(post.cue, post.ext)

\* simplify_cue: it may drop every line, and then leaves an empty text.
Simplified(cue, ext) ==
    [given |-> cue.given, sheet |-> Kept(cue.sheet),
     names |-> LET numbers == FileNumbers(cue.sheet) IN
               [f \in DOMAIN numbers |->
                   Numbered(<<"Track">>, IF numbers[f] = 0 THEN NoNumber ELSE numbers[f], TrackCount(cue.sheet), ext)]]

\* simplify_files_xml
SimplifiedDat(dat, ext) ==
    [i \in DOMAIN dat |-> [dat[i] EXCEPT !.name = Numbered(<<"Track">>, TrackOf(dat[i].name).n, Len(dat), ext)]]

\* build_flat_changes: a text without lines is none.
Canonical(post) ==
    [post EXCEPT !.base = Supported(post.base),
                 !.cue = Simplified([post.cue EXCEPT !.given = post.cue.sheet # <<>>], post.ext),
                 !.dat = SimplifiedDat(post.dat, post.ext),
                 !.sbi = IF post.ext = "bin" THEN post.sbi ELSE <<>>]

-----------------------------------------------------------------------------
(* The disc. *)

\* parse_and_insert_files: a rom replaces one with the same key.
StoredRoms(dat) ==
    LET key(i) == TrackOf(dat[i].name)
    IN  [k \in {key(i) : i \in DOMAIN dat} |-> dat[LastOf({i \in DOMAIN dat : key(i) = k})].content]

\* finalize_cue
Finalized(cue, base, ext) ==
    [given |-> cue.given, sheet |-> Kept(cue.sheet),
     names |-> LET numbers == FileNumbers(cue.sheet) IN
               [f \in DOMAIN numbers |->
                   Numbered(base, IF numbers[f] = 0 THEN NoNumber ELSE numbers[f], TrackCount(cue.sheet), ext)]]

\* regenerate_cue_entry: a file without number stands for the cue sheet of a CD.
WithCue(d) ==
    IF ~d.cue.given \/ d.ext # "bin" THEN [d EXCEPT !.hasCue = FALSE]
    ELSE [d EXCEPT !.cue = Finalized(d.cue, d.base, d.ext), !.hasCue = TRUE]

\* Mutant: the cue sheet keeps the name that the disc had.
StoredLate(old, post) ==
    LET base == Supported(post.base)
        cue == [post.cue EXCEPT !.names = Finalized(post.cue, IF old = NoDisc THEN base ELSE old.base, post.ext).names]
    IN  [base |-> base, ext |-> post.ext, cue |-> cue, hasCue |-> post.ext = "bin",
         roms |-> StoredRoms(post.dat), sbi |-> post.sbi, dump |-> post.dump, numbered |-> numbered]

\* update_disc, with what the system has when the form is approved.
Stored(old, post) ==
    WithCue([base |-> Supported(post.base), ext |-> post.ext, cue |-> post.cue, hasCue |-> old # NoDisc /\ old.hasCue,
             roms |-> StoredRoms(post.dat), sbi |-> post.sbi, dump |-> post.dump, numbered |-> numbered])

\* The files of a disc in the order of their tracks.
ByTrack(roms) == Listing(DOMAIN roms, [k \in DOMAIN roms |-> k.n])
Keys(d) == ByTrack(d.roms)

\* Mutant: the file of the cue sheet is counted.
TotalWithCue(d) == Cardinality(DOMAIN d.roms) + IF d.hasCue THEN 1 ELSE 0

Total(d) == Cardinality(DOMAIN d.roms)

\* build_snapshot_from_disc
Snapshot(d) ==
    [base |-> d.base, ext |-> d.ext, cue |-> Simplified(d.cue, d.ext), sbi |-> d.sbi, dump |-> d.dump,
     dat |-> [i \in DOMAIN Keys(d) |->
                 [name |-> Numbered(<<"Track">>, Keys(d)[i].n, Total(d), d.ext), content |-> d.roms[Keys(d)[i]]]]]

-----------------------------------------------------------------------------
(* The downloads and the page. *)

\* build_game_entry
DatArchiveEntry(d) ==
    [name \in {Numbered(d.base, k.n, Total(d), d.ext) : k \in DOMAIN d.roms} |->
        d.roms[CHOOSE k \in DOMAIN d.roms : Numbered(d.base, k.n, Total(d), d.ext) = name]]

\* build_track_table_rows: the roms that have the number of the track.
TrackTable(d) ==
    LET tracks == PageTracks(d.cue.sheet)
    IN  [f \in DOMAIN tracks |-> {d.roms[k] : k \in {l \in DOMAIN d.roms : l.n = tracks[f].number}}]

\* disc_view: the files by track, and those of a track by suffix.  The cue
\* sheet is of track 0: a rom of track 0 precedes it, as .bin precedes .cue.
\* The disc number is in the names if the system has one now.
PageFiles(d) ==
    LET base == Supported(d.base)
        tracks == [i \in DOMAIN Keys(d) |-> Numbered(base, Keys(d)[i].n, Total(d), d.ext)]
        zero == Cardinality({k \in DOMAIN d.roms : k.n = 0})
    IN  IF d.hasCue /\ d.ext = "bin" THEN InsertAt(tracks, zero + 1, Name(base, NoNumber, FALSE, "cue")) ELSE tracks

\* append_synthetic_img_file: with a cue sheet, the image of the tracks.
WithImage(d) ==
    IF d.hasCue /\ d.ext = "bin" THEN Append(PageFiles(d), Name(Supported(d.base), NoNumber, FALSE, "img")) ELSE PageFiles(d)

\* disc_cue_download: the disc number is in the name whatever the system has.
CueDownload(d) ==
    IF d.ext = "bin" /\ d.cue.given
    THEN {[name |-> Name(d.base, NoNumber, FALSE, "cue"), sheet |-> d.cue.sheet]} ELSE {}

\* The lines of an SBI that have a time and so many bytes; the others are skipped.
SbiEntries(sbi, least) ==
    LET complete == Ascending({i \in DOMAIN sbi : sbi[i].msf \in {"digits", "hex"} /\ sbi[i].bytes >= least})
    IN  [i \in DOMAIN complete |-> sbi[complete[i]]]

\* build_sbi_binary, build_lsd_binary, and the rows of the page, which has a
\* checksum for each complete line.
SbiDownload(d) == IF d.ext = "bin" THEN SbiEntries(d.sbi, 10) ELSE <<>>
LsdDownload(d) == IF d.ext = "bin" THEN SbiEntries(d.sbi, 12) ELSE <<>>
SbiRows(d) ==
    IF d.ext = "bin" THEN [i \in DOMAIN d.sbi |-> [line |-> d.sbi[i], checked |-> d.sbi[i].bytes >= 12]] ELSE <<>>

-----------------------------------------------------------------------------
(* Looking up a DAT. *)

\* Mutant: tracks are compared as they are written.
SameTrackAsWritten(key, track) == key = track

SameTrack(key, track) == key.n = track.n

\* A DAT in the order of its tracks; those of one number as they are written.
DatByTrack(dat) ==
    LET number(i) == TrackOf(dat[i].name).n
    IN  SetToSortSeq(DOMAIN dat, LAMBDA i, j : number(i) < number(j) \/ (number(i) = number(j) /\ i < j))

\* files_match_submission: by number if all have one of their own, else in order.
FilesMatch(roms, dat) ==
    LET track(i) == TrackOf(dat[i].name)
        byNumber == /\ \A i \in DOMAIN dat : track(i).n # NoNumber
                    /\ \A i, j \in DOMAIN dat : i < j => track(i).n # track(j).n
    IN  /\ Cardinality(DOMAIN roms) = Len(dat)
        /\ IF byNumber
           THEN \A i \in DOMAIN dat : \E k \in DOMAIN roms : SameTrack(k, track(i)) /\ roms[k] = dat[i].content
           ELSE IF Len(dat) = 1 THEN \A k \in DOMAIN roms : roms[k] = dat[1].content
           ELSE \A n \in DOMAIN dat : roms[ByTrack(roms)[n]] = dat[DatByTrack(dat)[n]].content

\* find_matching_disc: among the discs that have the first rom.
Matching(d, dat) ==
    /\ \E k \in DOMAIN d.roms : d.roms[k] = dat[1].content
    /\ FilesMatch(d.roms, dat)

-----------------------------------------------------------------------------
(* Submissions. *)

FilesInit == disc = NoDisc /\ posted = NoDisc /\ posts = 0 /\ numbered \in BOOLEAN /\ CueInit

Post(post) ==
    /\ posted = NoDisc
    /\ posts < MaxPosts /\ posts' = posts + 1
    /\ posted' = IF ValidPost(post) THEN Canonical(post) ELSE NoDisc
    /\ UNCHANGED <<disc, numbered, cueVars>>

\* Files as a dumper posts them: the names are whatever the dumping program gave them.
NewPost(f) ==
    [base |-> f.base, ext |-> f.ext, dat |-> f.dat, sbi |-> f.sbi, dump |-> f.dat,
     cue |-> [given |-> f.sheet # <<>>, sheet |-> f.sheet, names |-> [n \in DOMAIN FileNumbers(f.sheet) |-> Name(<<"dump">>, NoNumber, FALSE, "bin")]]]

AddDisc(post) == disc = NoDisc /\ Post(post)

\* The form shows the disc; some of its fields are changed.
EditDisc(post, changed) ==
    LET shown == Snapshot(disc)
        edited == [field \in DOMAIN shown |-> IF field \in changed THEN post[field] ELSE shown[field]]
    IN  /\ disc # NoDisc
        /\ Post(IF changed \cap {"dat", "ext"} = {} THEN edited ELSE [edited EXCEPT !.dump = edited.dat])

Approve ==
    /\ posted # NoDisc
    /\ disc' = Stored(disc, posted)
    /\ posted' = NoDisc
    /\ UNCHANGED <<posts, numbered, cueVars>>

\* The row of the system is saved with the flag changed.
UpdateSystem ==
    /\ numbered' = ~numbered
    /\ UNCHANGED <<disc, posted, posts, cueVars>>

FilesNext ==
    \/ \E f \in Files : \/ AddDisc(NewPost(f))
                        \/ \E changed \in Changes : EditDisc(NewPost(f), changed)
    \/ Approve
    \/ UpdateSystem

FilesSpec == FilesInit /\ [][FilesNext]_fileVars

-----------------------------------------------------------------------------
(* Properties. *)

\* The system has not lost its disc numbers since the disc was stored.
KeepsNumber(d) == d.numbered => numbered

\* An Edit Disc form that is posted as it was opened is valid and changes
\* nothing: what it shows is in canonical form.  The exceptions are a cue
\* sheet of which no line is kept: it is stored as an empty text, and the
\* form then lacks a cue sheet; and a system that has lost its disc numbers:
\* the form drops that of the disc.
ReopeningIsNoChange ==
    disc # NoDisc /\ KeepsNumber(disc) /\ (disc.cue.given => disc.cue.sheet # <<>>) =>
        ValidPost(Snapshot(disc)) /\ Canonical(Snapshot(disc)) = Snapshot(disc)

HasNumbersOfItsOwn(dat) == \A i, j \in DOMAIN dat : i < j => TrackOf(dat[i].name).n # TrackOf(dat[j].name).n

\* The downloads of a disc agree, whatever the form changed and in whatever
\* order.  Where the cue sheet has a FILE for each TRACK and the DAT a rom,
\* the DAT archive has under the name of each FILE the rom that the page
\* shows for the track.  The page lists each of them, after the cue sheet,
\* and every cue sheet that can be downloaded, by the names that the downloads
\* use, unless the system has lost its disc numbers since the disc was stored:
\* the downloads keep the disc number, and so do the FILEs.  The SBI, the LSD
\* and the page have every line of the SBI.
DownloadsAgree ==
    disc # NoDisc =>
        LET tracks == PageTracks(disc.cue.sheet)
            names == disc.cue.names
        IN  /\ /\ FileNumbers(disc.cue.sheet) = [i \in DOMAIN tracks |-> i]
               /\ {k.n : k \in DOMAIN disc.roms} = DOMAIN tracks
               => \A i \in DOMAIN tracks :
                     /\ names[i] \in DOMAIN DatArchiveEntry(disc)
                     /\ TrackTable(disc)[i] = {DatArchiveEntry(disc)[names[i]]}
                     /\ KeepsNumber(disc) => PageFiles(disc)[i + 1] = names[i]
            /\ \A d \in CueDownload(disc) :
                  /\ IsCueSheet(d.sheet)
                  /\ KeepsNumber(disc) => \E i \in DOMAIN PageFiles(disc) : PageFiles(disc)[i] = d.name
            /\ Len(WithImage(disc)) = Len(Keys(disc)) + IF CueDownload(disc) = {} THEN 0 ELSE 2
            /\ SbiDownload(disc) = disc.sbi /\ LsdDownload(disc) = disc.sbi
            /\ \A i \in DOMAIN SbiRows(disc) : SbiRows(disc)[i].checked

\* A dump whose names say which track each rom is.
IsProper(dat, ext) ==
    /\ HasNumbersOfItsOwn(dat)
    /\ \A i \in DOMAIN dat : dat[i].name.ext = ext
    /\ Len(dat) = 1 => dat[1].name.num \in {NoNumber, 1}

NumberedTracks(dat) == {<<TrackOf(dat[i].name).n, dat[i].content>> : i \in DOMAIN dat}

SameDump(dat, other) ==
    IF Len(dat) = 1 THEN Len(other) = 1 /\ dat[1].content = other[1].content
    ELSE NumberedTracks(dat) = NumberedTracks(other)

\* A DAT finds the disc if, and only if, it is the dump that was stored, with
\* each track under its number, however the names are written and whatever
\* became of the disc's name.
DumpIsRecognised ==
    disc # NoDisc /\ IsProper(disc.dump, disc.ext) =>
        \A dat \in {f.dat : f \in Files} :
            ValidDat(dat) /\ IsProper(dat, disc.ext) => (Matching(disc, dat) <=> SameDump(dat, disc.dump))
=============================================================================
