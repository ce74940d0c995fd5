------------------------------- MODULE MCSite -------------------------------
(***************************************************************************)
(* The parts of the site around the review queue, on small instances.      *)
(* They share neither variables nor locks, so a behaviour is about one of  *)
(* them: the variables of the others keep their first value.               *)
(***************************************************************************)
EXTENDS Login, DiscList, PageCaches, UserAccounts, LookupTables, DiscFiles, QueueList,
        DatabaseExport, TLC

CONSTANTS none, nodisc, a, ann, bob, mia

VARIABLE part    \* what the behaviour is about

siteVars == <<part, loginVars, listVars, cacheVars, accountVars, tableVars, fileVars,
              queueListVars, exportVars>>

FirstCatalogue == CHOOSE c \in Catalogues : \A d \in Catalogues : DOMAIN d.discs \subseteq DOMAIN c.discs
OneState == CHOOSE s \in InitStates : TRUE

SiteInit ==
    /\ LoginInit /\ ListInit /\ CachesInit /\ AccountsInit /\ TablesInit /\ FilesInit
    /\ QueueListInit /\ DatabaseExportInit
    /\ part \in {"login", "list", "caches", "accounts", "tables", "cue", "files", "queue",
                 "export"}
    /\ a \in inUse    \* the tabs are alike
    /\ part # "login" => inUse = Tabs /\ atForum /\ metadata
    /\ ~metadata => atForum
    /\ ~metadata \/ ~atForum => inUse = {a}
    /\ catalogue = FirstCatalogue
    /\ part # "caches" => kind = "homepage"
    /\ part # "accounts" => users = OneState.users
    /\ part # "tables" => table = "systems"
    /\ part # "files" => numbered

Only(p) ==
    /\ part = p
    /\ UNCHANGED part
    /\ p # "login" => UNCHANGED loginVars
    /\ p # "list" => UNCHANGED listVars
    /\ p # "caches" => UNCHANGED cacheVars
    /\ p # "accounts" => UNCHANGED accountVars
    /\ p # "tables" => UNCHANGED tableVars
    /\ p # "files" => UNCHANGED <<disc, posted, posts, numbered>>
    /\ p # "cue" => UNCHANGED cueVars
    /\ p # "queue" => UNCHANGED queueListVars
    /\ p # "export" => UNCHANGED exportVars

SiteNext ==
    \/ Only("login") /\ LoginNext
    \/ Only("list") /\ ListNext
    \/ Only("caches") /\ CachesNext
    \/ Only("accounts") /\ AccountsNext
    \/ Only("tables") /\ TablesNext
    \/ Only("cue") /\ CueNext
    \/ Only("files") /\ FilesNext
    \/ Only("queue") /\ QueueListNext
    \/ Only("export") /\ DatabaseExportNext

SiteSpec ==
    /\ SiteInit /\ [][SiteNext]_siteVars
    /\ \A t \in Tabs : WF_siteVars(Only("login") /\ TabStep(t))

-----------------------------------------------------------------------------
(* Login. *)

Visits == <<3, 2>>
Events == <<2, 1>>

-----------------------------------------------------------------------------
(* The disc list. *)

Caps == [cd    |-> [foreign |-> TRUE, serial |-> TRUE, errors |-> TRUE, edc |-> TRUE, protection |-> TRUE,
                    video |-> FALSE, offsetExtra |-> TRUE],
         movie |-> [foreign |-> FALSE, serial |-> FALSE, errors |-> FALSE, edc |-> FALSE, protection |-> TRUE,
                    video |-> TRUE, offsetExtra |-> FALSE]]

Disc == [status |-> "Verified", system |-> "cd", letter |-> "", title |-> {"A", "b"}, foreign |-> {"b"},
         serial |-> {{"A", " "}, {"b"}}, hashes |-> {{"a", "1"}}, tracks |-> 2, errors |-> none, edc |-> FALSE,
         protection |-> {"a", "p"}, comments |-> {}, rings |-> {}, regions |-> {"eu"}, languages |-> {},
         category |-> "games", dumpers |-> {1}, titleKey |-> 1, sorts |-> [added |-> none, version |-> 1]]

Full == [discs |-> <<Disc,
    [Disc EXCEPT !.title = {"a"}, !.errors = 0, !.edc = TRUE, !.languages = {"en"}, !.serial = {{"a"}}, !.hashes = {},
                 !.rings = {[mastering |-> {"A"}, offset |-> 2, extra |-> none]}, !.sorts.added = 1],
    [Disc EXCEPT !.system = "movie", !.status = "Disabled", !.title = {"b"}, !.dumpers = {}, !.hashes = {}],
    [Disc EXCEPT !.system = "movie", !.tracks = 12, !.titleKey = 2, !.regions = {"jp"}, !.comments = {"b"},
                 !.rings = {[mastering |-> {"b"}, offset |-> none, extra |-> 2]}, !.hashes = {}, !.sorts.added = 2],
    [Disc EXCEPT !.status = "Unverified", !.title = {"A"}, !.foreign = {}, !.errors = 5, !.category = "demos",
                 !.dumpers = {2}, !.serial = {}, !.hashes = {}, !.sorts.version = 2]>>, users |-> <<{"a"}, {"b"}>>]
\* Discs are removed, one gets another hash, the first user is removed and the second takes the name.
Fewer == [discs |-> [i \in {1, 3, 4} |-> [Full.discs[i] EXCEPT !.hashes = IF i = 4 THEN {{"a", "1"}} ELSE {}]],
          users |-> [u \in {2} |-> {"A"}]]
TwoCatalogues == {Full, Fewer}

Query == [viewer |-> "visitor", status |-> "", system |-> "", letter |-> "", region |-> "", language |-> "",
          category |-> "", dumper |-> {}, words |-> <<>>, glued |-> {}, title |-> {}, titleExact |-> FALSE, foreign |-> {},
          serial |-> {}, serialExact |-> FALSE, hash |-> {}, tracksMin |-> none, tracksMax |-> none,
          errorsMin |-> none, errorsMax |-> none, edc |-> "", protection |-> {}, comments |-> {},
          mastering |-> {}, offset |-> none, sort |-> "title", order |-> "asc", page |-> 1]

ManyQueries ==
    {[Query EXCEPT !.status = s, !.viewer = v] : s \in {"", "Disabled"}, v \in {"visitor", "moderator"}}
    \cup {[Query EXCEPT !.status = "All Statuses", !.viewer = "moderator"], [Query EXCEPT !.status = "Verified"]}
    \cup {[Query EXCEPT !.protection = {"A"}, !.viewer = v] : v \in {"visitor", "member"}}
    \cup {[Query EXCEPT !.title = {"a"}, !.titleExact = e] : e \in BOOLEAN}
    \cup {[Query EXCEPT !.serial = {"A", " "}, !.serialExact = e] : e \in BOOLEAN}
    \cup {[Query EXCEPT !.sort = so[1], !.order = so[2], !.page = so[3]] :
             so \in {<<"title", "desc", 3>>, <<"added", "desc", 1>>, <<"version", "asc", 1>>}}
    \cup {[Query EXCEPT !.tracksMin = n] : n \in {2, 12}} \cup {[Query EXCEPT !.tracksMax = 2]}
    \cup {[Query EXCEPT !.errorsMin = 0], [Query EXCEPT !.errorsMax = 0], [Query EXCEPT !.edc = "no"],
          [Query EXCEPT !.words = <<{"A", "1"}>>], [Query EXCEPT !.words = <<{"a"}, {"b"}>>],
          [Query EXCEPT !.words = <<{"A"}, {"b"}>>, !.glued = {1}], [Query EXCEPT !.hash = {"A", "1"}],
          [Query EXCEPT !.language = "none"], [Query EXCEPT !.region = "jp"], [Query EXCEPT !.category = "demos"],
          [Query EXCEPT !.letter = "A"], [Query EXCEPT !.letter = "#"], [Query EXCEPT !.system = "cd"],
          [Query EXCEPT !.foreign = {"B"}], [Query EXCEPT !.offset = 2], [Query EXCEPT !.mastering = {"a"}],
          [Query EXCEPT !.dumper = {"A"}], [Query EXCEPT !.dumper = {"b"}, !.page = 2],
          [Query EXCEPT !.comments = {"b"}]}
FewQueries == {Query, [Query EXCEPT !.dumper = {"a"}], [Query EXCEPT !.words = <<{"a", "1"}>>],
               [Query EXCEPT !.words = <<{"a"}, {"b"}>>], [Query EXCEPT !.title = {"A"}],
               [Query EXCEPT !.protection = {"A"}, !.viewer = "member"],
               [Query EXCEPT !.status = "Disabled", !.viewer = "moderator"]}
BothQueries == <<ManyQueries, FewQueries>>

-----------------------------------------------------------------------------
(* User accounts. *)

Row(type, who, target) == [type |-> type, submitter |-> who, target |-> target, status |-> "Pending", reviewer |-> none, version |-> 0]
Accounts(last, positions, submissions) ==
  [users |-> <<"mod", "ann", "bob", last, none>>,
   credits |-> <<positions, <<none, none, none, none, none>>>>,
   subs |-> submissions]
Starts == {Accounts(none, <<none, 0, 1, none, none>>, <<Row("Disc", 3, none), Row("Disc", 2, 1)>>),
           Accounts("Deleted", <<none, 0, 1, 2, none>>, <<Row("Disc", 1, 1), [Row("Edit", 2, 1) EXCEPT !.reviewer = 3]>>)}
Fold == [n \in {"mod", "ann", "Ann", "bob", "Deleted"} |-> IF n = "Ann" THEN "ann" ELSE n]
SomePosts == {[submitter |-> 3], [target |-> 1, status |-> "Draft"]}

-----------------------------------------------------------------------------
(* Lookup tables. *)

R(n, d) == [name |-> n, data |-> d]
P(c, n, d) == [code |-> c, name |-> n, data |-> d]
FirstTable == [c \in {1, 2} |-> R(<<"one", "two">>[c], 1)]
FirstDiscCodes == [d \in {1, 2} |-> IF d = 1 THEN {1, 2} ELSE {2}]
NoneAdded(f) == [changed |-> f, added |-> <<>>]
SomeEdits == {NoneAdded([c \in {1} |-> P(3, "uno", 1)]),
              NoneAdded([c \in {1} |-> P(4, "one", 1)]),
              NoneAdded([c \in {1} |-> P(2, "uno", 1)]),
              NoneAdded([c \in {1, 2} |-> IF c = 1 THEN P(1, "uno", 2) ELSE P(3, "two", 1)]),
              NoneAdded([c \in {2} |-> P(2, "dos", 0)]),
              [changed |-> <<>>, added |-> <<P(1, "new", 1)>>],
              [changed |-> <<>>, added |-> <<P(3, "two", 1), P(4, "new", 2)>>]}

-----------------------------------------------------------------------------
(* Cue sheets and files. *)

L(k, n, t) == [k |-> k, n |-> n, t |-> t]
SomeLines ==
    {L("FILE",0,""), L("TRACK",1,"AUDIO"), L("TRACK",2,"DATA"), L("TRACK",3,"DATA"), L("INDEX",0,"zero"), L("INDEX",1,"zero"),
     L("INDEX",1,"time"), L("INDEX",2,"time"), L("INDEX",3,"time"), L("SESSION",2,""), L("LEAD",0,""),
     L("CATALOG",0,""), L("DETAIL",0,""), L("OTHER",0,"")}
F == L("FILE",0,"")
T(n) == L("TRACK",n,IF n = 1 THEN "AUDIO" ELSE "DATA")
I(n, t) == L("INDEX",n,t)
Track(n) == <<F, T(n), I(1,"zero")>>
SomeSheets == {<<>>, Track(1), Track(1) \o <<L("LEAD",0,""), L("SESSION",2,"")>> \o <<F, T(2), I(0,"zero"), I(1,"time")>>,
   Track(1) \o Track(2) \o Track(3), <<F, T(1), I(1,"zero"), T(2), I(1,"zero")>>, Track(1) \o <<F>>, <<T(1)>>, <<L("LEAD",0,"")>>}
Rom(n, w, ext, c) == [name |-> Name(<<"dump">>, n, w, ext), content |-> c]
SomeDats == {<<Rom(none,FALSE,"bin","a")>>, <<Rom(1,FALSE,"bin","a")>>, <<Rom(none,FALSE,"iso","a")>>,
   <<Rom(1,TRUE,"bin","a"), Rom(2,TRUE,"bin","b")>>, <<Rom(2,FALSE,"bin","b"), Rom(1,FALSE,"bin","a")>>,
   <<Rom(1,FALSE,"bin","b"), Rom(2,FALSE,"bin","a")>>,
   <<Rom(1,FALSE,"bin","a"), Rom(2,FALSE,"bin","b"), Rom(3,FALSE,"bin","c")>>,
   <<Rom(1,TRUE,"bin","a"), Rom(2,TRUE,"bin","b"), Rom(3,TRUE,"bin","c")>>,
   <<Rom(1,FALSE,"bin","a"), Rom(1,FALSE,"bin","b")>>, <<Rom(none,FALSE,"bin","a"), Rom(2,FALSE,"bin","b")>>,
   <<Rom(1,FALSE,"iso","a"), Rom(2,FALSE,"iso","b")>>}
S(m, b) == [msf |-> m, bytes |-> b]
SomeSbis == {<<>>, <<S("digits",12)>>, <<S("digits",10)>>, <<S("digits", 12), S("bad", 12)>>}
Post1(base, ext, sheet, dat, sbi) == [base |-> base, ext |-> ext, sheet |-> sheet, dat |-> dat, sbi |-> sbi]
SomeFiles == {Post1(<<"Game">>, "bin", s, <<Rom(1,FALSE,"bin","a")>>, <<>>) : s \in SomeSheets}
   \cup {Post1(<<"Game">>, "bin", s, d, <<>>) : s \in {t \in SomeSheets : TrackCount(t) = 2}, d \in {e \in SomeDats : Len(e) = 2}}
   \cup {Post1(<<"Game">>, "bin", Track(1) \o Track(2) \o Track(3), d, <<>>) : d \in {e \in SomeDats : Len(e) = 3}}
   \cup {Post1(<<"Game">>, "bin", Track(1), d, <<>>) : d \in SomeDats}
   \cup {Post1(<<"Other">>, "iso", <<>>, d, <<>>) : d \in SomeDats}
   \cup {Post1(<<"Game", "Disc 2">>, "bin", Track(1), d, <<>>) : d \in {<<Rom(1,FALSE,"bin","a")>>, <<Rom(none,FALSE,"iso","a")>>}}
   \cup {Post1(<<"Game">>, "bin", Track(1), <<Rom(none,FALSE,"bin","a")>>, s) : s \in SomeSbis}
SomeChanges == {{}, {"base"}, {"dat"}, {"cue"}, {"cue", "dat"}, {"ext", "cue"}, {"sbi"}}

-----------------------------------------------------------------------------
(* Queue lists. *)

SomeRoles == ann :> "User" @@ bob :> "User+" @@ mia :> "Moderator"
Legacy == <<[type |-> "Disc", status |-> "Legacy", target |-> 1, submitter |-> bob, decided |-> 0]>>
OneDisc == <<"Active">>
List(d, st, k, so) == [disc |-> d, status |-> st, kind |-> k, sort |-> so]
SomeLists == {List(none, "Approved", "New Disc", "disc_id"), List(1, "", "", "date")}

=============================================================================
