SPECIFICATION ServiceSpec
CONSTANTS
  k1 = k1 f1 = f1 f2 = f2 f3 = f3 n1 = n1 n2 = n2
  Contracts = {k1}
  Files = {f1, f2, f3}
  Names = {n1, n2}
  Keys <- SomeKeys
  Requests = {c1, c2}
  IntakeMax = 3
  Quota = 1
  Failing = TRUE
  None = None
  Work = {c1, c2}
  Attempts = 1
  Cap = 2
  MaxTokens = 2
  Drafts = {d1}
  Manual = {m1}
  MaxAttempts = 2
  Threshold = 2
  Recovery = 1
  b1 = b1 b2 = b2 b3 = b3 o1 = o1 o2 = o2
  Clerks = {c1, c2}
  Filings = {b1, b2, b3}
  Duties = {o1, o2}
  Statuses = {todo, done}
  ContractsMax = 1
  ActMax = 5
  Nothing = Nothing
  Uploads <- SomeFiles
  MaxPages = 3
  MaxText = 7
  PageSize = 2
  Texts <- SomeTexts
  MaxChars = 6
  Overlap = 2
  MaxSections = 4
  Answers <- SomeAnswers
  Items <- SomeItems
  MaxDrafts = 3
  NotAList = NotAList
  Strings = {"obligations", "description", "due_date", "pay", "may"}
  Meanings <- SomeMeanings
  Longest = 26
  NoDate = NoDate
  Unknown = Unknown
SYMMETRY Symmetry
CHECK_DEADLOCK FALSE
INVARIANTS DocumentInv ReadingInv AnswersAreRecovered AnalysisInv FilingInv
PROPERTIES HumanWorkSurvives PaidMeansStored UsesAllowance
