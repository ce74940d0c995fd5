SPECIFICATION SiteSpec
CHECK_DEADLOCK FALSE
CONSTANTS
  a = a
  Tabs = {a, b}
  Attempts = {1,2}
  Sids = {1,2}
  NoSid = 0
  NoAttempt = 0
  Keep = Keep
  MaxVisits <- Visits
  MaxEvents <- Events
  none = none
  NoValue = none
  NoOne = none
  Missing = none
  Readers = {1,2}
  Systems <- Caps
  Catalogues <- TwoCatalogues
  Queries <- BothQueries
  PageSize = 2
  MaxAsked = 2
  MaxChanges = 1
  Requests = {r1, r2}
  Members = {1, 2}
  MaxGets = 2
  MaxUpdates = 3
  UserIds = {1,2,3,4,5}
  DiscIds = {1,2}
  SubIds = {1,2}
  Names = {"mod","ann","Ann","bob","Deleted"}
  Folded <- Fold
  InitStates <- Starts
  Posts <- SomePosts
  Reviewers = {1,3}
  MaxDeletions = 1
  MaxOthers = 1
  Absent = Absent
  Moderators = {m1, m2}
  Codes = {1,2,3,4}
  Discs = {1,2}
  FirstRows <- FirstTable
  FirstCodes <- FirstDiscCodes
  Edits <- SomeEdits
  ValidData = {1,2}
  MaxSaves = 2
  MaxApprovals = 1
  nodisc = nodisc
  NoNumber = none
  NoDisc = nodisc
  CueLines <- SomeLines
  MaxLines = 6
  Files <- SomeFiles
  Changes <- SomeChanges
  TwoDigits = 3
  MaxPosts = 2
  ann = ann
  bob = bob
  mia = mia
  NoTarget = none
  Dumpers = {ann}
  Viewers = {ann, bob}
  RoleOf <- SomeRoles
  InitEntries <- Legacy
  InitCatalog <- OneDisc
  Lists <- SomeLists
  PageLength = 1
  MaxEntries = 3
  NotRead = NotRead
  Catalogued = {d1}
  RegionCodes = {r1, r2}
  Downloaders = {v}
  MaxCommits = 2
  MaxExports = 2
  MaxFaults = 1
INVARIANTS LoggedOutStaysOut TotalIsOfTheQuery FreshAfterInvalidation DraftCountIsExact ApprovedIsCredited DiscsKeepTheirRegions ReopeningIsNoChange DownloadsAgree DumpIsRecognised AcceptedCueIsReadAlike ListsShowWhatOpens NewDiscMadeTheDisc PageIsOfTheQueue ExportIsOneState DownloadsAreWhole
PROPERTIES EachAttemptBuysOneSession RequestsEnd CreditListsAreKept RepairLosesNothing
