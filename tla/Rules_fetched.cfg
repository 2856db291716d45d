\* The rules' run, asked whether "fetched this run" means this run.
CONSTANTS
  Texts = {"first", "edited"}
  Names = {"ann", "bob"}
  Null = Null
  Unreadable = Unreadable
  MaxMisses = 3
  Ids = {"p", "q"}
  Looks <- ThreeLooks
  Identities = {"t5_a", "t5_b"}
  KnownValues = {"known"}
  MaxPages = 2
  MaxSweeps = 2
  Processes = {"p", "q"}
  MaxCommands = 3
  Sources = {"s1", "s2"}
  StaleAfter = 2
  PageSize = 2
  MaxRuns = 4
  MaxDays = 2
  Posts = {1, 3}
  Titles = {"old", "new"}
  AuthorReplies = {2, 4}
  Rungs = 2
  Comments = {1, 2, 3, 4, 5, 6}
  ReplyTo <- OneThread
  Deep = {2}
  Chunk = 2
  MoreLimits = {1, 3}
  MaxLost = 1
  MaxClock = 4
  Bodytexts = {"first"}
  MaxVanish = 1
  MaxOmitted = 2
  Times = {0, 1, 2, Null}
  CrashPoints = {0, 1}
  LastPage = 2
  MaxCalls = 2
  MaxPlanted = 2
  MinAuthors = 3
  TopPosts = 2
  WindowDays = 7
  BaselineDays = 28
  MostRequests = 50
  RealDir = "real"
  Launches <- ManyLaunches
  Budgets = {0, 2, 50}
  RuleLists <- ManyThemes
  Candidates <- ManyItems
  PostLists <- ManyPosts
  SettingsPairs <- ManySettings
  RunRows <- ManyRows
  Counts = {2}
SPECIFICATION RulesSpec
INVARIANTS
  FetchedMeansThisRun
CHECK_DEADLOCK FALSE
