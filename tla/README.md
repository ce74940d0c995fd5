# Verification of vgindex

vgindex is the catalogue of video-game discs behind redump: an axum web server
in Rust over one PostgreSQL database, with a background worker that makes the
downloadable archives. This directory holds TLA+ models of the parts whose
correctness depends on order (concurrent requests, transactions, failures,
restarts), TLC configurations that check them on small instances, and theorems
about them that TLAPS checks for every value of the constants.

`PROJECT.json` says, per definition, which lines of the source it stands for
("map"), which runs check which properties, which changed definition breaks each
property ("mutants"), where the code is exposed to what ("hazards"), and what is
proved ("theorems"). Paths below are relative to `src/`.

## 1. The system

| Component | State | Operations | What makes it hard |
|---|---|---|---|
| Review queue: `src/services/queue_service.rs` | `disc_submissions`, `discs`, `disc_dumpers`, `systems.archives_dirty`; one advisory lock | submit, resubmit a draft, submit and approve, comment, reject, draft, retarget, approve | handlers read through a pool of connections and act later; retries; only approvals take the lock |
| Review pages: `src/routes/queue.rs` | the form in the reviewer's browser, with a hash of the disc it was made from | show a submission, take the decision | minutes pass between the page and the POST |
| Add and Edit forms: `src/routes/disc_edit.rs` | a token per page | post a disc, a verification, an edit, a corrected draft | double clicks, retries, several tabs |
| Change sets: `queue_service.rs`, `disc_edit.rs` | none (pure) | diff, apply, automatic status | what a missing key means |
| Disc storage: `src/services/disc_service.rs` | `discs`, `files`, ring codes, regions, languages | `update_disc`, `create_disc_from_submission`, the cue entry | one disc is many rows in many tables |
| Cue rebuild: `disc_service.rs`, `src/routes/maintenance.rs` | cues and their file entries | rebuild all | reads everything, writes later in chunks, no lock |
| Archives: `src/services/archive_service.rs` | `archives_dirty`, a directory per system and kind, `ArchiveVersionsCache` | mark, claim, regenerate, download | marks are taken before the work is done; the data are read in many queries |
| Database export: `src/services/database_export_service.rs` | export files, `.force` marker | export when due, trigger | time of day, crash, a marker shared by two parties |
| Worker: `run_archive_worker` | none of its own | every ten minutes: archives, then export | runs beside all requests |
| Maintenance: `routes/maintenance.rs` | all tables | save lookup tables and systems, repair a submission, rename and delete users, post news, trigger | changes what other parts rely on, without the approval lock |
| Login: `src/auth/*` | `oidc_login_states`, `sessions`, cookies | login, callback, silent revalidation, logout, cleanup | single use, expiry, stale roles |
| Caches: `main_page.rs`, `discs.rs`, `middleware.rs`, `news_service.rs` | values with a time to live | get, refresh, invalidate, increment | a fill that races an invalidation or an update |
| Schema and migrations: `src/db/*`, `migrations/` | `_migrations` | run at start | crash between the SQL and its record |
| Pure text: `validation.rs`, `redumper_log.rs`, `hex_case.rs`, `transliteration/` | none | parse and format | unit-tested in the source |
| Outside the program: `docker/`, `scripts/`, `static/`, `templates/` | | the forum's OpenID Connect provider, wiki, backups, browser scripts | |

How they interact. A form or a review ends in `queue_service`, which in one
transaction changes the submission, the disc, its dumpers and the dirty marks of
the systems the disc was and is in. The worker polls the marks. Maintenance
writes the same tables on its own. Requests share the connection pool, the caches
(process memory) and the archive directories (files).

What makes each part correct, in a sentence: the queue, that every operation
happens at one instant and an approval was checked against the catalogue of that
instant; the archives, that a stale one is marked and a published one is never
lost; the export, that there is one a day; the cue entry, that its hash is the
hash of its cue; the caches, that a fill never outlives the change it missed; the
login, that a login state works once and a session that was ended stays ended.

## 2. Modules

| Module | Content |
|---|---|
| `QueueData` | Discs, change sets, rows, permissions and conflict checks as functions; no variables. |
| `ReviewQueue` | Abstract: the queue as the reader of the site believes it to be. Each operation is atomic, there are no processes and no locks. |
| `SubmissionQueue` | Detailed: one record and one program counter per request; a step is one database access or the wait for a lock. Implements `ReviewQueue` with the identity mapping on the four tables (`AtomicOperations`). |
| `SubmissionQueueInvariant` | The inductive invariant `QueueInv`. |
| `MCSubmissionQueue` | The constants of the queue's runs. |
| `SubmissionQueueProofs` | The proofs about the queue and its data: invariants, refinement, tokens and credits. |
| `SystemArchives` | The dirty marks, the regeneration of a system's archives, its failures, the version cache, a restart. |
| `ArchiveWorker` | Composes `SystemArchives` with the export, the trigger, time and crashes: the loop of the worker. |
| `ArchiveWorkerInvariant`, `MCArchiveWorker` | Its inductive invariant and constants. |
| `ChangeSets` | Change sets as functions: the diff of two forms, their application to a disc, the merge of a verification, the normal form of a disc, the validation of a form. |
| `EditReview`, `MCEditReview` | Pages, forms, submissions and one disc, over `ChangeSets`: from what is typed to what is stored. |
| `ChangeSetProofs` | The lemmas about change sets, from the sorting of ring code entries to what a change set gives back. |
| `EditReviewProofs` | The proofs about `EditReview`: what is written, where it comes from and what a review adds. |
| `SingleSignOn` | Abstract: a login attempt buys at most one session, an ended session stays ended. |
| `Login` | Detailed: tabs of a browser, its cookies, the handlers of `auth/`, the forum's answers. Implements `SingleSignOn` (`EachAttemptBuysOneSession`), which `SiteProofs` proves. |
| `Listings` | A finite set in the order of a number: ORDER BY, and the lines of a text; the elements of a list at some of its positions. `ListingProofs` has the lemmas. |
| `DiscList` | The disc list: query, order, pages, the cached counts and their key, the redirects. |
| `PageCaches` | A cache with a time to live, its refresh lock and its invalidations; the draft counts. |
| `DumperCredits`, `UserAccounts` | Credit lists; deletion and renaming of users, submission repair, beside logins and approvals. |
| `LookupTables` | The saves of systems, regions and languages, beside each other and approvals. |
| `CueSheet` | The scanner that accepts a cue sheet and the readers of it. |
| `DiscFiles` | The rows of a DAT, as posted, stored, shown, downloaded and recognised. |
| `QueueList` | Who finds which submission in which list, and New Disc against Verification. |
| `DatabaseExport` | The export read table by table, packed, published and downloaded; the zips of archives. |
| `SiteProofs` | The proofs about `PageCaches`, `DiscList`, `QueueList` and `Login`. |
| `MaintenanceProofs` | The proofs about `UserAccounts`, with the refinement of `DumperCredits`, `LookupTables` and `ArchiveWorker`. |
| `MCSite` | Nine components in one run, see 2.6. |
| `CueRebuild`, `MCCueRebuild` | The cues and their file entries: approvals against the rebuild of all cues; the constants. |
| `CueRebuildProofs` | Its proofs. |
| `DownloadProofs` | The proofs about `CueSheet`, `DiscFiles` and `DatabaseExport`. |

A definition headed "Mutant:" is no part of a model. It is what the definition
after it would be with a plausible mistake; `PROJECT.json` names the property
that finds it out.

### 2.1 The review queue

`discs`, `subs`, `dumpers` and `dirty` are the committed tables. `pc[c]` and
`req[c]` are the place and the locals of the handler that serves request `c`;
what its transaction has written and not committed is there too, and reaches the
tables in `Commit`. Of PostgreSQL the model keeps: READ COMMITTED reads; the
advisory lock `APPROVAL_CONFLICT_LOCK_KEY` (`lock`); the row lock from the
claim's UPDATE to the commit (`RowLocked`), for which every other UPDATE of that
row waits and then evaluates its WHERE again; the partial unique index on form
tokens, on whose uncommitted entries an INSERT waits (`TokenHeld`, `WithToken`).

| Code | Actions |
|---|---|
| `submission_detail` (GET) | `OpenReview` |
| `review_submit` (POST) | `LoadSubmission`, then `CommentSubmission`, `RejectSubmission`, `DraftSubmission`, `ManualRetarget`, or `CheckReview`, `RetargetToMatch`, `BuildReviewChanges` |
| `add_submit`, `edit_submit` | `AddSubmit`, `AddSubmitDraft`, `EditSubmit`, `Precheck` |
| `create_submission`, `submit_draft_submission` | `StoreSubmission`, `SubmitDraft` |
| `create_and_approve_submission` | `AcquireApprovalLock`, `InsertDirect`, then as below |
| `approve_submission`, `approve_submission_on` | `AcquireApprovalLock`, `Recheck`, `ResolveApproval`, `FindConflicts`, `ClaimSubmission`, `Commit` |
| closed connection, database error, crash | `Abandon` at every place: the transaction is rolled back |

Abstractions. A disc's content is the five fields the decisions read: system,
generated name, DAT, universal hash, status. The content hash of a review page is
the content. A posted form is any member of `Forms`. The two database reads
before a form is stored (the draft, the match) are one step, as are the reads of
one conflict check: nothing between them is written by the same request, and the
approval repeats them under the lock. `OpenReview` shows Pending submissions only,
because nothing can be done from the page of another. When no id is left in
`SubIds` a new submission is dropped; runs leave enough ids for the case they
are about.

### 2.2 Archives and export

`content[s]` is a number that every change of system `s` raises; an archive
records at which number its disc list and its file details were read, because
`generate_datfile_archive` reads them in separate queries. An archive is fresh
if both are the present number. `dirty` is `archives_dirty`; `claimed` is what
`claim_dirty_archive_systems` returned and the loop has not dealt with, which is
memory of the process. `served` is the newest zip in each directory (what
`newest_zip_path` serves); the removal of older ones after the rename cannot be
seen by a reader and is left out, as are temporary and partial files, which no
reader looks at. Time runs in half days, even ones from 07:00 UTC, odd ones the
morning before it, which is all `export_is_due` looks at. `forgotten`, `asked` and `askedSince` are history: they
record that the code left a system stale without a mark, or that a trigger is
unanswered, and no action reads them.

What the code does when something fails is modelled as it is written: a failed
regeneration sets the mark again and ignores whether that worked; a failed read
of media types, regions or languages is an empty answer (`unwrap_or_default`); a
crash loses the claims. Changes that never set a mark (a cue rebuild, a renamed
region or language) are `UnmarkedChange`. Which kinds of archive a system has
(`Supported`) does not change during a behaviour.

### 2.3 The cue rebuild

`disc[d].cue` is the text in `discs`, `entry[d]` the row of `files` that holds its
hash. A cue is a body and the base name that its FILE lines carry; `Finalize`
replaces the name as `finalize_cue` does, and the hash of a cue is the cue, so
equal hashes mean equal texts. An approval (`WriteDisc`, `RegenerateCueEntry`,
`CommitEdit`, or `AbortEdit`) keeps the disc's row locked from its UPDATE to its
commit, and the entry's from its upsert; there is one approval at a time, because
of the advisory lock. A rebuild reads all in one query (`LoadCues`), computes, and
writes three lists in chunks (`UpdateCues`, `UpsertCueFiles`, `DeleteCueFiles`), each
chunk a statement that commits by itself and waits for locked rows. It may fail
anywhere and keeps what it wrote (`RebuildFails`). Saving a region or a system
(`SaveLookups`) changes what a cue should say and rebuilds none.

Abstractions. An approval's reads of the disc and its UPDATE are one step: what a
rebuild could write in between, the approval writes over with the body it read. All
discs are of one system and one region. Rows are not added: a disc without a cue
stands for a new one. `approved`, `raced`, `stale` and `touched` are history.

### 2.4 Edit and review

`EditReview` follows one disc and its submissions with the whole form: identity,
nullable texts, counted numbers, sets, ring code entries with their layers, the
features a system has and a medium allows. A text is a small number or `Null`;
the text that contains the comment delimiter, the empty one, the BCA that is too
short, whole or neither, and the number beyond 32 bits are values of their own,
because the code branches on them. `pages[c]` is what a browser shows and what has
been typed into it; `seen` is the disc the page was made from. `ChangeSets` holds
the operators: `EditChanges`, `AddChanges`, `Resolve`, `UpdateDisc`, `CreateDisc`
and what they are made of, each named for the function it stands for. Here an
approval is one step: what happens inside it is the subject of `SubmissionQueue`.

### 2.5 Login

A `Tab` asks for pages, is redirected, comes back with the forum's answer and gets
its page; the steps of a tab are those of the server's handlers, with one action
per handler (`ServePage`, `ServeSilent`, `Callback`, `SilentReturn`, `ServeLogout` and
so on). `attempts` are the rows of `oidc_login_states`, `sessions` those of
`sessions`; `cookie` and `checked` are the browser's. A response that is on its way
holds the cookies it will set: two tabs' responses may arrive in either order.
A request is for a page that requires a login or for another (`private`), and the
flows carry that along with the page to return to. `ServePage` is the session middleware
and the extractor `RequireAuth`, which sends a navigation without a login to the login
page (`middleware.rs:368`). The forum, if the user is still logged in there, answers
without asking: a private page opened after a logout signs the user in. `metadata` says
whether the browser sends Sec-Fetch-Mode. Without it nothing looks for a login at the
forum, but a request that accepts HTML still counts as a navigation for the redirect to
the login page (the test
`authentication_required_keeps_html_accept_fallback_for_local_browsers`).
Events that nobody orders (an expiry, a cleanup, a logout at the forum, a closed
browser) are bounded by `MaxEvents`. The mapping to `SingleSignOn` forgets tabs and
cookies.

### 2.6 The site

`MCSite` puts nine components into one run. They share no variables; a run of each
would repeat the same machinery, and the product of their states would say
nothing more. `part` chooses one in the initial state and never changes: the steps
of the others are switched off, so the reachable states are the sum of those of
nine models, and each property speaks of the states and steps of its own.

| Component | What of the code is kept, what is not |
|---|---|
| `DiscList` | The filters of a query one by one; a text is the set of its characters. A request reads at different moments: the discs that have its terms for hashes (`ReadHashes`), the user its dumper names (`LookUpDumper`), the total or the count (`Count`); the lock of the key is held from the miss to the answer. `CountKey` is what the key is made of. The terms of a quick search are joined with U+001F, which a query may contain and is not cut at: `glued` says between which words it stands, and the key does not. Categories are cached and never written, so they do not change. Readers are redirected to the last page, or to the only disc of a quick search. |
| `PageCaches` | One cached value stands for the homepage, the news, the dumpers and the reference data: all have the read-test-lock-test-load shape. The draft count is get-or-fill without a lock, and adjusted by those who change a draft. |
| `UserAccounts` | The transaction of a deletion step by step with its table lock; a first login that creates a user; the repair page with the row's version. Names are few, `Fold` says which are the same to the unique index. |
| `LookupTables` | The transaction of a save row by row: insert, rename (insert, move the discs, delete), update; contended rows wait; a failed save leaves nothing. |
| `CueSheet` | A line is a keyword with a number and a time or mode. `ScanLine` is `validate_cuesheet`, the readers are those of pages and archives; `IsCueSheet` says without a scanner what is accepted. All lists of up to `MaxLines` lines are reached, one line a step. |
| `DiscFiles` | A row of a DAT has a name made of a title, a disc number, a track number with its width, and an extension. Width and prefix are kept because readers pad differently; `TwoDigits` stands for ten tracks. `numbered` says whether the system has disc numbers and disc titles, which a moderator may change (`UpdateSystem`): forms, approvals and the page drop the number on a system without (`Supported`), the downloads keep it. The page sorts by track and suffix, with the cue sheet as track 0. Discs are of one system, which has the media they are on; an approval reads the flag in one step with its write. |
| `QueueList` | The SQL of list and count as predicates on a row; the page of one submission; rows and number read one after the other. |
| `DatabaseExport` | A snapshot of REPEATABLE READ is taken by the first read. A file is complete or partial. Tables are four of the twelve: lookup rows, discs, and two kinds of children. |

## 3. Runs

| Run | Question | Instance |
|---|---|---|
| `review_race` | Can two reviews, interleaved at every access, break the catalogue? | two requests of a moderator, three submissions: a new disc, a verification and an edit that compete for one generated name; forms that disable the disc |
| `own_verification` | Who may approve, onto what; do waiting approvals end? | a moderator and a User+ whose verification may be retargeted, sent back or disabled meanwhile, or found again by the Add Disc form it came from |
| `retries` | Are double-clicks one submission; does a returned draft, resubmitted from two tabs, disturb what was decided; can the lock, the token and the row deadlock? | a moderator and two tabs of one User+ with an Add and an Edit page, three tokens, deadlock checked |
| `draft_revision` (violated) | Does an approval take effect on the revision that was reviewed? | two requests of moderators and one of the submitter, one submission |
| `archives` | Are stale archives marked, publications monotone, exports daily? | one system with dat and cue, one change, one error, one crash, one trigger, from one day's 07:00 to the next; deadlock checked |
| `archive_crash` (violated) | Is a marked system rebuilt whatever happens? | one crash |
| `archive_trigger` (violated) | Is a trigger always answered by an export? | one trigger, while the first export is being made |
| `cue_rebuild` | Does each entry hold the hash of its cue, and does an approved cue stand? | two discs in chunks of one, two rebuilds at once, two approvals, one renamed region or changed system |
| `cue_race` (violated) | Are cues and hashes up to date when a rebuild succeeds? | one disc, one rebuild, two approvals, one renamed region |

| `edit_review` | Is what is stored what the page showed, and nothing else? | an editor, a trusted dumper and a moderator; a CD of a system with features, a DVD of one without, a new disc; two submissions, one field typed per form |
| `stuck_review` (violated) | Can a stale review always be reviewed again? | the same |
| `site` | The nine components of 2.6 | two or three actors each, bounds of one to three on each kind of event (`Site.cfg`) |

Why the bounds are enough. In the queue a wrong outcome takes two parties: one
that read and one that wrote in between; a third, where needed, prepares the
state (a retarget, a return to draft). Requests start again when they end, so two
clients run any number of requests in sequence, and a behaviour is bounded by the
number of submissions, tokens and discs only. Two names, two DATs and one hash
make each kind of conflict possible and avoidable. In the archives one system
shows every interleaving of a change with a regeneration, since systems are
regenerated one after the other and share only the clock; kinds dat and cue are
the case of several archives with and without the one that carries the version;
one error and one crash together reach a failed re-mark after a partial
publication. In the cue rebuild two discs in chunks of one make every prefix of
the three lists a place to fail or to be overtaken, and a second rebuild both
overlaps the first and repairs after it. In `edit_review` one typed field is enough, since the fields are diffed one by
one, but for rings, whose typed variants include a changed layer, a removed entry
and two entries that match; two submissions overlap on the disc. In `site` each
race takes a reader and a writer, or two writers, and a second round shows what
the first left behind: two logins and a second visit, a list with three discs on
pages of two, two saves of one table with a rename each, an export that is
overtaken by two commits and followed by a second export. A browser without fetch
metadata, and one that is not logged in at the forum at first, has one tab only. The
disc lists start with all discs, of which changes take some away and give them back.
The run has 423 thousand states. The proofs have no such bounds.

The four queue runs fire every action of `SubmissionQueue`; `archives` fires
every action of `ArchiveWorker`, `cue_rebuild` every action of `CueRebuild`,
`edit_review` every action of `EditReview`, `site` every action of its nine. Deadlock
checking is off (`CHECK_DEADLOCK FALSE`) where all submissions can be decided and
nothing remains to be done (`review_race`, `own_verification`, `draft_revision`)
and where what may happen is used up (`cue_rebuild`, `cue_race`, `edit_review`,
`stuck_review`, `site`).

### Safety properties

* `ArchiveNamesUnique`: two discs in the archives of a system never share a
  generated name. The check reads committed state; only the lock makes it sound.
* `IntroducedHashIsUnique`: a disc that enters, or whose DAT or universal hash
  changes, shares it with no active disc. A reactivated disc is not checked for
  them, which the source tests intend.
* `StaleReviewNeverOverwrites`, `ApprovedOntoReviewedTarget`, `ApprovedByEntitled`:
  what was true when the reviewer looked is true when the approval commits. A
  User+ may also approve what a form of theirs is found to be stored as: a
  verification that a moderator has since retargeted to no disc, and whose form is
  posted again, is approved as a new disc.
* `OneSubmissionPerToken`, `CreditMatchesApprovals`: retries count once; the
  dumpers of a disc are exactly the submitters approved onto it.
* `AtomicOperations`: the refinement of `ReviewQueue`. It includes that a decided
  submission is frozen and that a Disabled disc is never verified; the theorems
  `Frozen` and `NeverVerified` state both on their own (`FinalIsFrozen`,
  `DisabledIsNeverVerified`).
* `StaleIsMarked`: an archive that is stale or torn is marked or in work, except
  where the code drops or never sets the mark.
* `VersionShownIsServed`: the version on the downloads page is that of the file.
* `PublishedNeverGoesBack`: neither failure nor crash replaces a published
  archive or export by nothing or by an older one.
* `HashIsOfCue`: at rest a cue names the files of its disc and its entry holds its
  hash. The windows the code leaves open are part of the statement: a lookup table
  saved since (nothing rebuilds), a rebuild that failed, two that overlapped, an
  approval that overtook one. It also says what closes them: the next approval of
  the disc or the next undisturbed rebuild.
* `ChangesHaveACause`: an edit names a field only if its author changed it or
  someone else did since the page was opened.
* `ChangesAreMarked`, `ApprovedIsReviewed`: what an approval changes was marked on
  the reviewer's page, and the disc is then what the form said. Removed ring
  entries are an exception that the code has: the page does not mark them.
* `DraftSurvives`: a returned draft that is posted as shown is the same change
  set, but for what a draft does not keep and what its disc has no place for.
* `VerificationKeepsTarget`: a verification only adds, and adds no entry twice.
  The other exceptions of these four (sector ranges, comments with the delimiter,
  a disc that changes its media meanwhile) are corners of the code listed below.
* `EachAttemptBuysOneSession`: the refinement of `SingleSignOn`.
* `LoggedOutStaysOut`: after a logout with no request on its way nobody is logged
  in again until the user follows the login link, repeats a callback, opens a page
  that requires a login or closes the browser, whatever else is opened meanwhile.
* `TotalIsOfTheQuery`: the number shown beside a list is that of its query, in what
  the request that counted it read at its several moments, although counts are shared
  between lists. A quick search with the character U+001F is the exception: it shares
  its key with one that was cut elsewhere, and may be given the other's number.
* `FreshAfterInvalidation`: who asks after an invalidation ended is not answered
  from before it. `DraftCountIsExact`: the badge is the number of drafts, as long
  as no fill or adjustment overlapped a change.
* `ApprovedIsCredited`, `CreditListsAreKept`: deletions, renames, first logins and
  approvals lose no credit and no order of credits. `RepairLosesNothing`: a repair
  overwrites only the version it showed.
* `DiscsKeepTheirRegions`: the codes of discs exist and mean what they meant.
* `AcceptedCueIsReadAlike`: all readers of an accepted cue sheet see the same tracks.
* `ReopeningIsNoChange`, `DownloadsAgree`, `DumpIsRecognised`: a disc's files, opened
  in the edit form and posted as they are, are no change (unless no line of its cue was
  kept, or the system has lost its disc numbers: the form then drops that of the disc,
  as the test `edit_and_approval_changes_remove_existing_unsupported_data` wants); page,
  cue and archives name the same files, but that the downloads keep a disc number which
  the system has lost since the disc was stored and the page does not; a dump of a stored disc matches it.
* `ListsShowWhatOpens`, `PageIsOfTheQueue`, `NewDiscMadeTheDisc`: lists show what may
  be opened, their pages fit their number, one submission is called New Disc.
* `ExportIsOneState`: the tables of an export are of one committed state, whose
  references hold. `DownloadsAreWhole`: who downloads gets a whole file, or is told
  that there is none.
* `ApprovedCueStands`: the body of a cue is the one last approved, unless an approval
  overtook a rebuild that had that disc still to write.

### Liveness and fairness

* `WaitingApprovalEnds` under strong fairness of each handler's steps and of the
  lock. A handler is a task the runtime polls while it can run; PostgreSQL queues
  those who wait for an advisory or a row lock, so one who waits is not passed by
  for ever. A reader's decision to open a page or post a form, and `Abandon`, have
  no fairness.
* `RequestsEnd`, under weak fairness of each tab's steps: the server answers, the
  network delivers, the user answers the forum or turns back. A tab gets its page
  once the other tabs are at rest. Without that condition it is false of the code:
  two tabs whose responses keep arriving in the worst order can replace each
  other's sessions for as long as they like.
* `MarkedIsRebuiltOrForgotten`, `DailyExport` under weak fairness of the worker: it
  is one task whose interval keeps ticking and whose errors are logged and do not
  end the loop. Changes, failures, crashes and time have no fairness. `DailyExport`
  asks for an export once the clock has passed 07:00 and the errors have run out.

### Where the code and its documentation differ

* `draft_revision`. The claim of an approval tests status and target. If another
  moderator returns the submission to Draft and its user resubmits it between the
  load and the claim, it is Pending again and the approval stores a change set its
  reviewer never saw replaced. The comment at the claim says another moderator's
  processing makes it update no row.
* `archive_crash`. The dirty marks are cleared in a transaction of their own
  before the archives are made. A stop of the server in between leaves claimed
  systems stale and unmarked; the maintenance page says the worker rebuilds
  pending archives on its next pass.
* `archive_trigger`. The export removes the force marker when it is done, also one
  left after its snapshot was taken; the moderator was told that the disc database
  is triggered.
* `cue_race`. An approval that commits between a rebuild's cue chunk and its entry
  chunk stores a new cue with its hash; the entry chunk then puts the hash of the
  old cue back, and the rebuild reports success to a page that says it updates CUE
  sheets and hashes. A rebuild that is run again repairs it, unless the approval
  removed the cue: the entry it gets back is of a disc that later rebuilds skip.

* `stuck_review`. The page of a stale review is to be refreshed, so that it can be
  reviewed again. If the pending edit names a ring code entry that an approval has
  removed since, resolving it is an error (`queue_service.rs:1135`), and from then
  on its page cannot be opened.

Smaller ones, met while modelling, that no run is about:

* Queue and forms. `sector_ranges` cannot be removed (`queue_service.rs:711`,
  `disc_service.rs:1059`). `error_count` and layer breaks are validated as 64 bits
  and parsed as 32. A BCA of 16 bytes or more that is not 192 is not kept in a
  draft, though its mastering record is. Removed ring entries, and changes of case
  in lists of words, are not marked on the review page. Sector ranges stay with a
  disc whose system changes to one without them: no form of it shows them, so that
  every later edit asks to empty them, which does nothing. A review that
  changes the system or the media drops fields that no mark speaks of. A
  comment that contains the delimiter can be stored by an edit that is approved at
  once; the next review takes the delimiter away. A draft whose disc has changed its
  media is shown, and posted again, without what the new media has no place for; a
  verification with more layers than the disc has by then puts its last layer in the
  place of the disc's label side when it is approved.
* Lists. The queue lists to its submitter a rejected submission whose disc was
  Disabled since (`queue_service.rs:2247`), and its page is not found
  (`queue.rs:740`). New Disc is the oldest public submission by id
  (`queue_service.rs:2097`), though a test is named
  `first_approved_disc_submission_displays_as_new_disc`: an older submission that is
  retargeted takes the label. Sorted by anything but the date a list has no
  tie-breaker, so its pages may repeat or omit rows. A quick search may go to the
  first of several discs while a cached number says there is one. A quick search with the
  character U+001F shares its cached number with another (`discs.rs:1945`).
* Caches. Approvals and renames do not invalidate the dumper directory (an hour). A
  decrement that overtakes its increment is lost (`middleware.rs:80`); a count that
  failed is cached as 0 for a day (`:155`); a repair changes drafts without telling
  the counts (`maintenance.rs:874`).
* Maintenance. A region whose code changes and whose name does not cannot be saved,
  since names are unique and the new row is inserted before the old is deleted. Two
  renames of one code leave two rows. A stale page puts another's row back. A rename
  leaves pending submissions with the old code; their approval fails. The user
  Deleted can be renamed.
* Files. A DAT that repeats a track number is accepted and loses rows when it is
  stored. Nothing compares the tracks of a cue with the rows of the DAT. A dump of
  one track whose name says another number, or with an extension that is not the
  medium's, does not match its own disc. The scanner of cue sheets accepts a
  repeated `INDEX 01 00:00:00` and a last track without one, and is the only one
  that minds case. From ten tracks on the page looks up "01" where the cue's key is
  "1" and falls back to the default extension. A cue sheet of which no line is kept
  (`models.rs:904`) is accepted and rebuilt as an empty text (`disc_service.rs:1857`):
  the edit form of the disc then says that a cue sheet is required
  (`disc_edit.rs:1585`). When a system loses its disc numbers the page names the files
  without (`disc_view.rs:642`), the downloads with (`disc_view.rs:2171`).
* Files on disk. A failed rename of an export leaves its partials until the next
  one; a stop while a zip is stored leaves a temporary file that nothing removes.

## 4. Proofs

All from `QueueAssumption`, `ClientAssumption`, `InitAssumption` (queue),
`ArchivesAssumption`, `WorkerAssumption` (archives), `CueAssumption` (cues),
`CueSheetAssumption`, `DiscFilesAssumption` (cue sheets and files), `LoginAssumption` (login), `ExportAssumption`
(export), `CachesAssumption`, `ListAssumption`, `QueueListAssumption` (pages),
`ReferenceAssumption`, `ValuesAssumption`, `UserAssumption`, `FormsAssumption` (edit and review),
`AccountsAssumption`, `PostsAssumption`, `StatesAssumption` (accounts),
`TablesAssumption`, `EditsAssumption` (lookup tables): the null
values are distinct from the data, ids are numbers, a chunk and a page are not empty,
the tables at the start are ones the program can have (foreign keys hold, positions
of dumpers differ, an approved dump has its credit), and what is posted has the
types that the handlers parse it into. Numbers of clients, users, discs,
submissions, systems, queries, lines, changes, errors and crashes are arbitrary.

Queue. `QueueInv` is the inductive invariant: who is in a transaction holds the
lock (`LockInv`), targets exist, and for each request what its place says it
holds (`Holds`), that the row it loaded is still that submission (`RowStands`),
that a row not yet inserted is nobody else's (`NewRowStands`), and that what the
approval transaction has read is still so (`ApprovalStands`). The last is the
point: none of the safety properties is inductive, because each speaks of the
step that commits, and that step is right only because no other client could
change the catalogue since the reads (the lock) or the row since the claim (the
row lock). `Invariance` proves it, one lemma per action. From it follow
`StaleNeverOverwrites`, `OntoReviewedTarget`, `TypeCorrect` and `Refinement`: initial states map to initial states,
every step to an operation of `ReviewQueue` or a stutter. `NamesUnique`, `Frozen`
and `NeverVerified` use the refinement's step lemmas; `NamesUnique` rests on the
lemma `NoConflictKeepsNamesUnique`: storing a content without
conflicts keeps names unique. `IntroducedAreUnique` has a lemma of the same kind.

Two more invariants stand on top of `QueueInv`. `LedgerInv`
carries `OneSubmission` and `CreditsMatch`: the token of an insert that is not
committed is in no row (`InsertsAreNew`), because whoever else would store it waits;
a pending edit has the disc it edits (`EditsHaveTargets`), so that an edit is never
stored as a new disc and credited; what was approved at the start stands
(`InitialStands`). `EntitledInv` carries `OnlyEntitledApprove`: from the place where
the handler decides to the commit, its user may approve the row it holds, and the
committed row still has that row's type, submitter and target. That a row must be
found by one's own form, and not only be inserted by the same transaction, is what
this proof required: the narrower statement is false once a moderator has retargeted
the row.

Archives. `WorkerInv` adds to the properties what is true in the middle of a
regeneration: the job's system is claimed (`ControlInv`), what was read is no
newer than the data and no older than what is served (`ReadInv`), as long as
nothing marks the system again what was read and published is current
(`FreshInv`), the datfile comes first and carries the version (`VersionInv`), and
the same for the export (`ExportInv`). `WorkerInvariance`, `StaleIsAlwaysMarked`,
`VersionIsServed`, `NeverGoesBack`, `WorkerTypes`.

Cue rebuild, from `CueAssumption`. Neither property is inductive: when a chunk is
written, that the entry then fits the cue depends on what the rebuild read long
before. `CueInv` adds that: `PlanInv` says that a rebuild brings a disc up to date
that nothing has touched since it read, and that no other rebuild has it to write
(`RowAfter`, `EntryAfter` are disc and entry with the rest of the plan applied);
`BodyInv`, that planned cues have the approved body; `OrphanInv`, that a disc without
a cue has no entry and is in no plan; `EditInv`, that an approval's cue and entry
belong together. `WriteFacts` is the lemma that carries the proof: a chunk written
leaves the plan's outcome unchanged. `CueInvariance`, `HashStaysOfCue`,
`ApprovedCueAlwaysStands`.

Login, from `LoginAssumption`: `NoSid`, `NoAttempt` and `Keep` are distinct from the
data. `EachAttemptBuysOneSession` maps an attempt that has expired to one that is
void and forgets tabs, cookies and the forum. The step that could break it is the
sign-in after the exchange with the forum, which trusts that the state it consumed
in an earlier request of its own is nobody else's. `LoginInv` says so: a tab whose
attempt is consumed is the only one to hold it and no session was bought with it
(`AttemptsAreSpent`), and whoever comes back from the forum carries an attempt
(`CarriesAttempt`). Most handlers consume nothing and sign nobody in
(`BuysNothing`); `Callback`, `Exchange` and `AttemptExpires` are the rest.
`LoginInvariance`, `LoginRefinesSingleSignOn`.

Export, from `ExportAssumption`: there is a region, and `NotRead` is no time, no
catalogue and no copy. A statement about the finished file says nothing of one half
made, so `ExportInv` says: whatever has been copied is of the snapshot, the snapshot
is a state since the export began, and the last table is copied last (`ReadInv`);
the newest file that was published is in its directory until a newer one is
(`FilesInv`); what a visitor was shown and chose was published (`VisitorInv`).
`ExportInvariance`, `ExportIsConsistent`, `DownloadsAreComplete`.

Logouts. That nobody is logged in is not inductive: the response to a page that was
asked for before the logout may still carry a session. `LoggedOutInv` says what a tab
is while the browser is logged out (`Quiet`): it holds no session, looks for none at
the forum since the check is closed, and no response on its way sets one; and that
only a logout's response leads home (`HomeLogsOut`). `LogoutsLast`.

Pages. `CacheInv` says of every request what it has taken from the cache and when it
asked, and that between the second look at a cache and the write its refresh lock is
held by that request: so an invalidation is not overwritten by what was read before
it (`ServedIsFresh`). The draft count has no lock; `DraftInv` adds that the cached
number and the adjustments still on their way add up to the number of drafts, and
that a fill which saw no change read it, for each user whose count has not drifted
(`DraftCountsMatch`). Totals rest on `SameKeySameDiscs`, proved filter by filter from
how the code makes the key: what the key leaves out is nothing to the filter. Then
`ListInv` says that what is cached, and what a reader has got, is the total of every
query with that key and the same cut of its words, by the reading it came from
(`TotalsAreShared`). For the lists of
submissions `EntriesInv` says that a row without a target makes a disc
and that the submission a disc was made from precedes the others
(`ListsAgreeWithPages`, `NewDiscIsOne`); `PageInv`, that what a reader holds is a
page of the list as it is, as long as nothing changed (`PagesAreOfTheQueue`, with
the arithmetic of pages in `PagesHoldRows`).

Accounts. The property speaks of approved rows; the step that could break it is a
deletion that moves credits and submissions in two steps beside an approval that
does the same in the other order. `AccountsInv` says what each has read and why it
still stands: the submitter an approval read is still the row's, or is a deleted
user whose id nobody gets (`SubmitterStands`, `Gone`); a deletion moves no row that
an approval has claimed (`ClaimStands`); the users an approval has referred to are
kept by its key locks (`KeysStand`); foreign keys hold; a row that has the version
which a repair showed is the row it showed (`RepairStands`). `AccountsInvariance`,
`ApprovalsAreCredited`, `RepairsLoseNothing`. That the rows with positions implement
the lists of `DumperCredits` (`CreditsAreLists`) needs three more facts
(`PositionsInv`): positions within a disc differ, a credit about to be given comes
after all others, and a new account Deleted is made only if there is none. Its
steps rest on the lemmas of `ListingProofs`: what is put after all others is
appended, and what takes over another's position takes its place.

Lookup tables. A save validates its page against rows it reads once and then writes
row by row. `TablesInv` says of a form that is being written that what it read still
stands or was renamed since (`ExistingStands`), that a written row stands for what it
did (`WrittenStands`), that discs are moved before their code is deleted
(`MovedStands`, `HeadStands`), and that no two transactions have written one row
(`LocksStand`). `TablesInvariance`, `DiscsKeepRegions`.

Cue sheets. What the validator accepts is stated without it: `IsCueSheet` says of
each line what must be among the lines before it. `SheetInv` says that the
validator's flags are what they stand for in the lines read (`ScanStands`), so that it
accepts the next line exactly if it fits (`ScanFits`). The rest is about the
rewriting, for sheets of any length: the kept lines are the lines that matter in their
order, so that what fitted still fits and the page reads the same tracks.
`SheetInvariance`, `CuesAreReadAlike`.

Files of a disc, for any files that dumpers post, any number of tracks, forms and
approvals. The properties compare readers of one disc and hold because the writers
agreed on a form: `FormsInv` says which. A cue sheet is one that rewriting leaves as it
is, and only CDs have one (`CueStands`); an SBI has complete lines (`SbiStands`); roms
have numbers of their own, an image none (`RomsStand`); a disc that was stored while its system had no disc
numbers has none (`DiscStands`); and if the names of the dump say
which track each rom is, each rom is stored under its number (`DumpStands`), which has
to be carried through forms that show the roms of a disc and post them again
(`DumpShown`). Then a form shows what it would store (`SnapshotDat`), the roms in the
order of the tracks have the numbers of the FILEs (`ListedByNumber`, `NamesAgree`), and
as many roms as tracks of different numbers are those tracks (`TracksOfRoms`).
`FormsInvariance`, `ReopeningChangesNothing`, `DownloadsOfADiscAgree`,
`DumpsAreRecognised`. The proof of the first refused an earlier form of the property: a
cue sheet of which rewriting drops every line is stored as an empty text, and then the
form of the disc lacks a cue sheet (section 3).

Edit and review, for any lists of ring code entries with any layers, any texts, forms,
clients and submissions. A form goes a long way to the disc: it is normalised and
compared with the disc, only the differences are stored, they are applied to the disc
of another moment to make the page of a review, the reviewed form goes the same way,
and its changes are applied to the disc once more and written. `ApprovedIsReviewed`
says that all this is a detour. The proof has a lemma for each part of the way back.
A sort puts entries in order and is the same on what is sorted (`SortsInOrder`,
`SortedAgain`), with entries that it does not tell apart kept in their order; the
change between two entries applied to the first is the second (`EntryChanged`);
changes are applied one after the other, each to the entry with its id, which no
earlier one can have taken or made, so that the entries of the disc that are kept, and those
that are new, come out as they were posted, however they are ordered (`AppliedAre`,
`KeptCount`, `RingsRoundTrip`); then a whole change set (`ContentRestored`), filtered and
stored with new ids (`WrittenIs`). `EditInv` is the inductive invariant: what
is on the disc is a content with entries whose ids have been given out (`OnDisc`),
what is in a submission is a change set, and a page shows a form made from a content.
`EditInvariance`, `Reviewed`. For `EditsHaveACause` and `ReviewsAreMarked` a field that
a form shows as before must not be named: `NotNamed`, for which a page that shows a
stored content must be normal already (`ShownAsBefore`, `RingsKept`). Drafts need one
more invariant, `DraftInv`: what Add Disc can say at all, from the definition of its
changes (`IsAddition`), and that a submission for a new disc fits the media it names
(`IsDump`). Additions applied to no entries and compared again are the same additions
(`AddedAgain`), also after what a disc has no place for was taken out (`DraftAgain`);
`DraftsSurvive`. `VerificationKeepsTarget` is about merging, and about any number of
entries and additions. An addition that is merged only makes its entry grow (`Grows`);
one that is not merged is apart from every entry it was compared with (`Apart`), and
stays apart from what that entry grows into (`StaysApart`), so that both hold after all
additions (`MergeRun`). The page then has each entry of the disc, grown, and entries
apart from them (`Verified`); if they have a place on the disc's media, no filter
touches them, and the way back keeps them under their ids and gives the others new
ones (`StoredComesOf`, `EntryKept`, `NoneAgain`). The other fields need that a page
takes nothing from the disc (`Upholds`, `ContentKept`). `VerificationsKeep`.

The proofs corrected four of these properties, each of which TLC had found to hold on
instances too small for the corner it missed: the exceptions for sector ranges, for
comments with the delimiter and for media that change (section 3) come from there.

Model-checked only. The liveness properties (`WaitingApprovalEnds`, `RequestsEnd`,
`MarkedIsRebuiltOrForgotten`, `DailyExport`), since fairness is outside the prover's
reach. Every other property of a passing run is stated by a theorem.

## 5. Not modelled

* Rendering, templates and browser scripts; the wording of errors; the parsing of
  redumper logs, hex and dates; transliteration; SQLite's and zip's formats. They
  are sequential and keep no shared state; the source has unit tests for them.
* The connection pool (an approval holds one connection, waits for the lock, and
  reads through others): its size and its timeout are sqlx's and PostgreSQL's, and
  running out of it is a failed request, which the models have.
* Deadlocks of row locks between a save of the systems and an approval: PostgreSQL
  aborts one of the two, which the models have as a failed transaction.
* Roles that change during a session, and CSRF tokens: the code promises nothing
  between two revalidations; a token is compared and nothing else.
* The migration runner, backups, containers. The forum's login provider appears
  through what `auth/` expects of it.
