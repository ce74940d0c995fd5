------------------------------ MODULE DiscList ------------------------------
(***************************************************************************)
(* The disc list (src/src/routes/discs.rs, discs_page): the filters of a   *)
(* query, the order and the pages of its result, and the cache of totals,  *)
(* which many queries share under one key.                                 *)
(*                                                                         *)
(* A text is abstracted to the set of its characters: it contains another  *)
(* if it has all its characters.  A field stands for the fields of its     *)
(* kind: foreign for the texts that a system may lack, serial for the      *)
(* lists of texts, mastering for the texts of a ring.                      *)
(*                                                                         *)
(* A request reads the database several times, at different moments: the   *)
(* discs that have its terms for hashes, the user its dumper names, the    *)
(* count.  A reading [hashes, users, discs] is what these found.           *)
(***************************************************************************)
EXTENDS Integers, FiniteSets, Sequences, SequencesExt

CONSTANTS
    Readers,       \* requests that are served at the same time
    Catalogues,    \* what the database may hold: [discs, users], users the name of each
    Systems,       \* capabilities of each system code
    Queries,       \* the query strings of each, with their viewer
    PageSize,      \* PAGE_SIZE
    NoValue,       \* an absent value
    MaxAsked,      \* bound: requests
    MaxChanges     \* bound: changes of the catalogue, expiries of totals

\* DiscListQuery, and who asks.
QueryFields ==
    {"viewer", "status", "system", "letter", "region", "language", "category", "dumper", "words", "glued", "title",
     "titleExact", "foreign", "serial", "serialExact", "hash", "tracksMin", "tracksMax", "errorsMin", "errorsMax",
     "edc", "protection", "comments", "mastering", "offset", "sort", "order", "page"}
IsQuery(q) ==
    /\ DOMAIN q = QueryFields /\ {q.titleExact, q.serialExact} \subseteq BOOLEAN
    /\ q.glued \subseteq 1 .. Len(q.words) - 1

ASSUME ListAssumption ==
    /\ PageSize \in Nat \ {0} /\ {MaxAsked, MaxChanges} \subseteq Nat
    /\ \A r \in Readers : \A q \in Queries[r] : IsQuery(q)

VARIABLES
    catalogue,     \* the database
    totals,        \* the cache of totals: by key, a number and (ghost) the reading it was counted from
    reader,        \* where each request is
    asked, changes

listVars == <<catalogue, totals, reader, asked, changes>>

-----------------------------------------------------------------------------
(* The filters. *)

LowerCase(text) == {IF c = "A" THEN "a" ELSE c : c \in text}
Compact(text) == LowerCase(text) \ {" "}
Blank(text) == text \subseteq {" "}
HasText(text, part) == LowerCase(part) \subseteq LowerCase(text)

\* Disabled discs are listed for those who may see them, and who ask.
StatusFilter(q) ==
    IF q.status \in {"All Statuses", "Disabled"} /\ q.viewer # "moderator" THEN "" ELSE q.status

MatchesStatus(q, d) ==
    LET status == StatusFilter(q) IN
    CASE status = "" -> d.status # "Disabled"
      [] status = "All Statuses" -> TRUE
      [] OTHER -> d.status = status

\* Letters are A to Z, # for the rest; any other letter filters nothing.
MatchesLetter(q, d) ==
    CASE q.letter = "#" -> d.title \cap {"a", "A"} = {}
      [] q.letter = "A" -> d.title \cap {"a", "A"} # {}
      [] OTHER -> TRUE

(* A quick search is cut into terms at its dashes, blanks and the like.    *)
(* words are the texts between these and the characters U+001F, which are  *)
(* no blanks and are not cut at; glued are the words that such a character *)
(* ties to the next.                                                       *)
LowerWords(q) == [i \in DOMAIN q.words |-> LowerCase(q.words[i])]
UnitSeparator == "U+001F"

FirstWords(q) == {i \in DOMAIN LowerWords(q) : i - 1 \notin q.glued}
Term(q, i) ==
    LET tied == {j \in DOMAIN LowerWords(q) : i <= j /\ i .. (j - 1) \subseteq q.glued} IN
    UNION {LowerWords(q)[j] : j \in tied} \cup (IF tied = {i} THEN {} ELSE {UnitSeparator})

\* Each term is in a title or a serial, or is a hash of the disc: of the discs
\* that had such a hash when the hashes were read.
MatchesTerm(term, id, m) ==
    LET d == m.discs[id] IN
    \/ HasText(d.title, term) \/ HasText(d.foreign, term)
    \/ \E s \in d.serial : Compact(term) \subseteq Compact(s)
    \/ id \in DOMAIN m.hashes /\ term \in m.hashes[id]
MatchesTerms(q, id, m) == \A i \in FirstWords(q) : MatchesTerm(Term(q, i), id, m)

MatchesText(text, wanted, exact) ==
    Blank(wanted) \/ (IF exact THEN text = wanted ELSE HasText(text, wanted))

MatchesTitles(q, d) ==
    /\ MatchesText(d.title, q.title, q.titleExact)
    /\ Blank(q.foreign) \/ (Systems[d.system].foreign /\ MatchesText(d.foreign, q.foreign, FALSE))

\* One entry of the list matches: as it is, or without blanks and case.
MatchesSerial(q, d) ==
    \/ Blank(q.serial)
    \/ /\ Systems[d.system].serial
       /\ IF q.serialExact THEN q.serial \in d.serial
                           ELSE \E s \in d.serial : Compact(q.serial) \subseteq Compact(s)

\* A hash that is no hash is no disc's.
MatchesHash(q, d) == q.hash = {} \/ LowerCase(q.hash) \in d.hashes

Between(n, low, high) == (low = NoValue \/ n >= low) /\ (high = NoValue \/ n <= high)
MatchesTracks(q, d) == Between(d.tracks, q.tracksMin, q.tracksMax)

\* Without a count of errors, no bound holds.
MatchesErrors(q, d) ==
    \/ q.errorsMin = NoValue /\ q.errorsMax = NoValue
    \/ Systems[d.system].errors /\ d.errors # NoValue /\ Between(d.errors, q.errorsMin, q.errorsMax)

MatchesEdc(q, d) ==
    q.edc = "" \/ (Systems[d.system].edc /\ (q.edc = "yes") = d.edc)

\* The protections of video discs are shown to members.
MatchesProtection(q, d) ==
    \/ Blank(q.protection)
    \/ /\ Systems[d.system].protection
       /\ q.viewer # "visitor" \/ ~Systems[d.system].video
       /\ HasText(d.protection, q.protection)

MatchesRings(q, d) ==
    /\ Blank(q.mastering) \/ \E g \in d.rings : HasText(g.mastering, q.mastering)
    /\ \/ q.offset = NoValue
       \/ \E g \in d.rings : \/ g.offset = q.offset
                                \/ (Systems[d.system].offsetExtra /\ g.extra = q.offset)

MatchesRegionAndLanguage(q, d) ==
    /\ q.region = "" \/ q.region \in d.regions
    /\ CASE q.language = "" -> TRUE
         [] q.language = "none" -> d.languages = {}
         [] OTHER -> q.language \in d.languages

MatchesCategory(q, d) == q.category = "" \/ d.category = q.category
MatchesSystem(q, d) == q.system = "" \/ d.system = q.system

\* The user that a name means, whatever its case: the first; of a name nobody
\* has, none, who has dumped nothing.
Dumper(q, users) ==
    LET named == {u \in DOMAIN users : LowerCase(users[u]) = LowerCase(q.dumper)}
    IN  {u \in named : \A v \in named : u <= v}
MatchesDumper(q, d, users) == q.dumper = {} \/ Dumper(q, users) \cap d.dumpers # {}

\* The discs that a query finds by the reading m.
MatchesQuery(q, m) ==
    {id \in DOMAIN m.discs :
        LET d == m.discs[id] IN
        /\ MatchesSystem(q, d) /\ MatchesCategory(q, d) /\ MatchesRegionAndLanguage(q, d)
        /\ MatchesLetter(q, d) /\ MatchesStatus(q, d) /\ MatchesTerms(q, id, m)
        /\ MatchesTitles(q, d) /\ MatchesSerial(q, d) /\ MatchesHash(q, d)
        /\ MatchesTracks(q, d) /\ MatchesErrors(q, d) /\ MatchesEdc(q, d)
        /\ MatchesProtection(q, d) /\ MatchesText(d.comments, q.comments, FALSE)
        /\ MatchesRings(q, d) /\ MatchesDumper(q, d, m.users)}

-----------------------------------------------------------------------------
(* The key of the total, the order, the pages. *)

TextKey(wanted, exact) == IF Blank(wanted) THEN {} ELSE IF exact THEN wanted ELSE LowerCase(wanted)
ExactKey(wanted, exact) == exact /\ ~Blank(wanted)

\* The name the user has, or the one that was asked for if nobody has it.
DumperName(q, users) ==
    IF q.dumper = {} \/ Dumper(q, users) = {} THEN q.dumper ELSE users[CHOOSE u \in Dumper(q, users) : TRUE]

\* Mutant: the key is the query string.
CountKeyOfUrl(q, users) ==
    [status |-> StatusFilter(q), system |-> q.system, letter |-> q.letter, region |-> q.region,
     language |-> q.language, category |-> q.category, dumper |-> q.dumper, words |-> q.words,
     title |-> q.title, foreign |-> q.foreign, serial |-> q.serial, exact |-> {q.titleExact, q.serialExact},
     hash |-> q.hash, tracks |-> {q.tracksMin, q.tracksMax}, errors |-> {q.errorsMin, q.errorsMax},
     edc |-> q.edc, comments |-> q.comments, protection |-> q.protection, mastering |-> q.mastering,
     offset |-> q.offset]

\* What a total depends on: neither the case of a text that is searched
\* without, nor the order or the page.  The terms are joined with the character
\* U+001F, so the key does not tell where a search that has one was cut.
CountKey(q, users) ==
    [status |-> StatusFilter(q), system |-> q.system, letter |-> q.letter, region |-> q.region,
     language |-> q.language, category |-> q.category,
     dumper |-> DumperName(q, users), words |-> LowerWords(q),
     title |-> TextKey(q.title, q.titleExact), titleExact |-> ExactKey(q.title, q.titleExact),
     foreign |-> TextKey(q.foreign, FALSE),
     serial |-> IF q.serialExact THEN q.serial ELSE Compact(q.serial),
     serialExact |-> ExactKey(q.serial, q.serialExact),
     hash |-> LowerCase(q.hash), tracks |-> <<q.tracksMin, q.tracksMax>>, errors |-> <<q.errorsMin, q.errorsMax>>,
     edc |-> q.edc, comments |-> TextKey(q.comments, FALSE), protection |-> TextKey(q.protection, FALSE),
     member |-> ~Blank(q.protection) /\ q.viewer # "visitor",
     mastering |-> TextKey(q.mastering, FALSE), offset |-> q.offset]

\* ORDER BY column, title, id, all in one direction; a missing value sorts
\* last going up (and, for a date, going down too).
SortValue(q, d) ==
    CASE q.sort = "title" -> d.titleKey
      [] d.sorts[q.sort] # NoValue -> d.sorts[q.sort]
      [] q.sort = "added" /\ q.order = "desc" -> -1
      [] OTHER -> 99

Precedes(q, m, i, j) ==
    LET v(id) == SortValue(q, m.discs[id])
        k(id) == m.discs[id].titleKey
        less(x, y) == IF q.order = "desc" THEN x > y ELSE x < y
    IN  IF v(i) # v(j) THEN less(v(i), v(j))
        ELSE IF k(i) # k(j) THEN less(k(i), k(j))
        ELSE less(i, j)

TotalPages(total) == (total + PageSize - 1) \div PageSize
LastPage(total) == IF TotalPages(total) = 0 THEN 1 ELSE TotalPages(total)

\* LIMIT PageSize OFFSET (page - 1) * PageSize
Rows(q, m, page) ==
    LET sorted == SetToSortSeq(MatchesQuery(q, m), LAMBDA i, j : Precedes(q, m, i, j))
        first == (page - 1) * PageSize + 1
    IN  SubSeq(sorted, first, IF first + PageSize - 1 < Len(sorted) THEN first + PageSize - 1 ELSE Len(sorted))

-----------------------------------------------------------------------------
(* The requests. *)

NoRequest == [at |-> "idle", q |-> NoValue, hashes |-> <<>>, users |-> <<>>, total |-> 0, from |-> NoValue,
              locked |-> FALSE]

ListInit ==
    /\ catalogue \in Catalogues
    /\ totals = <<>>
    /\ reader = [r \in Readers |-> NoRequest]
    /\ asked = 0 /\ changes = 0

\* First the discs are read that have a term of the query for a hash.
ReadHashes(r, q) ==
    reader' = [reader EXCEPT ![r] =
        [NoRequest EXCEPT !.at = "hashed", !.q = q,
             !.hashes = IF q.words = <<>> THEN <<>>
                        ELSE [id \in DOMAIN catalogue.discs |-> catalogue.discs[id].hashes]]]

Ask(r, q) ==
    /\ reader[r].at = "idle"
    /\ asked < MaxAsked
    /\ asked' = asked + 1
    /\ ReadHashes(r, q)
    /\ UNCHANGED <<catalogue, totals, changes>>

\* The browser follows a redirect.
AskAgain(r) ==
    /\ reader[r].at = "redirected"
    /\ ReadHashes(r, reader[r].q)
    /\ UNCHANGED <<catalogue, totals, asked, changes>>

\* Then the user, if one is named.
LookUpDumper(r) ==
    /\ reader[r].at = "hashed"
    /\ reader' = [reader EXCEPT ![r].at = "named",
                                ![r].users = IF reader[r].q.dumper = {} THEN <<>> ELSE catalogue.users]
    /\ UNCHANGED <<catalogue, totals, asked, changes>>

KeyOf(r) == CountKey(reader[r].q, reader[r].users)

\* A total that is cached, now or once the lock of the key is had, is taken.
TakeTotal(r) ==
    reader' = [reader EXCEPT ![r].at = "rows", ![r].total = totals[KeyOf(r)].total, ![r].from = totals[KeyOf(r)].from]

GetTotal(r) ==
    /\ reader[r].at = "named"
    /\ IF KeyOf(r) \in DOMAIN totals THEN TakeTotal(r) ELSE reader' = [reader EXCEPT ![r].at = "waiting"]
    /\ UNCHANGED <<catalogue, totals, asked, changes>>

\* The lock of the key is kept until the answer.
HasKeyLock(r) == \A s \in Readers \ {r} : reader[s].locked => KeyOf(s) # KeyOf(r)

LockKey(r) ==
    /\ reader[r].at = "waiting"
    /\ HasKeyLock(r)
    /\ reader' = [reader EXCEPT ![r].at = "locked", ![r].locked = TRUE]
    /\ UNCHANGED <<catalogue, totals, asked, changes>>

GetTotalAgain(r) ==
    /\ reader[r].at = "locked"
    /\ IF KeyOf(r) \in DOMAIN totals THEN TakeTotal(r) ELSE reader' = [reader EXCEPT ![r].at = "counting"]
    /\ UNCHANGED <<catalogue, totals, asked, changes>>

\* What the count goes by: the discs as they are now, the hashes and the user
\* as they were read.  Ghost: where the search was cut.
ReadingOf(r) ==
    [discs |-> catalogue.discs, hashes |-> reader[r].hashes, users |-> reader[r].users, glued |-> reader[r].q.glued]

Count(r) ==
    /\ reader[r].at = "counting"
    /\ reader' = [reader EXCEPT ![r].at = "counted", ![r].from = ReadingOf(r),
                                ![r].total = Cardinality(MatchesQuery(reader[r].q, ReadingOf(r)))]
    /\ UNCHANGED <<catalogue, totals, asked, changes>>

InsertTotal(r) ==
    /\ reader[r].at = "counted"
    /\ totals' = [k \in DOMAIN totals \cup {KeyOf(r)} |->
                     IF k = KeyOf(r) THEN [total |-> reader[r].total, from |-> reader[r].from] ELSE totals[k]]
    /\ reader' = [reader EXCEPT ![r].at = "rows"]
    /\ UNCHANGED <<catalogue, asked, changes>>

\* The rows are read, or the browser is sent to the last page, of a query with
\* the name the user has; if a quick search has one result, to its disc.
Answer(r) ==
    LET q == reader[r].q
        last == LastPage(reader[r].total)
        turned == [q EXCEPT !.page = last, !.dumper = DumperName(q, reader[r].users)]
    IN  /\ reader[r].at = "rows"
        /\ reader' = [reader EXCEPT ![r] =
               IF q.page > last THEN [NoRequest EXCEPT !.at = "redirected", !.q = turned] ELSE NoRequest]
        /\ UNCHANGED <<catalogue, totals, asked, changes>>

CatalogueChanges == changes < MaxChanges /\ changes' = changes + 1

ChangeCatalogue ==
    /\ CatalogueChanges
    /\ catalogue' \in Catalogues
    /\ UNCHANGED <<totals, reader, asked>>

\* A minute later, or to make room for another.
ExpireTotal ==
    /\ CatalogueChanges
    /\ \E key \in DOMAIN totals : totals' = [k \in DOMAIN totals \ {key} |-> totals[k]]
    /\ UNCHANGED <<catalogue, reader, asked>>

\* invalidate_dumper_data, when a user is deleted.
InvalidateTotals ==
    /\ CatalogueChanges
    /\ totals' = <<>>
    /\ UNCHANGED <<catalogue, reader, asked>>

ListNext ==
    \/ \E r \in Readers : \/ \E q \in Queries[r] : Ask(r, q)
                          \/ AskAgain(r) \/ LookUpDumper(r) \/ GetTotal(r) \/ LockKey(r) \/ GetTotalAgain(r)
                          \/ Count(r) \/ InsertTotal(r) \/ Answer(r)
    \/ ChangeCatalogue \/ ExpireTotal \/ InvalidateTotals

ListSpec == ListInit /\ [][ListNext]_listVars

-----------------------------------------------------------------------------
(* Properties. *)

\* The total a request goes by is the number of discs that its query finds, by
\* the hashes, the user and the discs that whoever counted it read, with
\* whichever query, at whichever moments.  But for a quick search that has the
\* character U+001F: its key is that of a search which was cut elsewhere, and it
\* may be given the other's total.
TotalIsOfTheQuery ==
    \A r \in Readers : reader[r].at = "rows" /\ reader[r].from.glued = reader[r].q.glued =>
        reader[r].total = Cardinality(MatchesQuery(reader[r].q, reader[r].from))
=============================================================================
