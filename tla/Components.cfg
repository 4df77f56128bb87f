CONSTANTS
  MaxSsmlBytes = 14
  SoftMinSsmlBytes = 8
  FrameBytes = 2
  MarkFrameBytes = 1
  NumeralBase = 2
  FirstPartTargetChars = 4
  PartTargetChars = 8
  FrameMs = 4
  Missing = Missing
  NoValue = NoValue
  NoPrint = NoPrint
  Width = 9
  MaxCellLength = 4
  MinTableRows = 2
  MinTableColumns = 3
  MinAlignedColumns = 2
  AlignedRowsPercent = 60
  AlignTolerance = 0
  MinGutterWidth = 1
  GutterMaxPercent = 10
  MinCrossingLines = 2
  MinCrossingPercent = 30
  MinLinesForColumns = 3
  Height = 10
  Margin = 1
  MarginLines = 1
  MinLinesForMargin = 3
  RepeatMinPages = 2
  RepeatWindowPages = 3
  TitlePercent = 115
  FootnotePercent = 85
  MaxShortLineLength = 5
  MinAvgCharsPerPage = 5
  HeadingPercent = 108
  MaxHeadingLength = 8
  MaxKeywordLength = 3
  MaxOutlineLevel = 2
  SameSize = 1
  ExcerptWords = 2
  MaxExcerptLength = 3
  NoStem = NoStem
  Device = {phone, tablet}
  BookmarkId = {mark}
  Document = {novel, manual}
  MaxTime = 2
  ClockSkew = 0
  MaxWords = 2
  MaxBookmarks = 1
  MaxRequests = 2
  NoRow = NoRow
  NoNote = NoNote
  Player = {player}
  Conversion = {1, 2}
  Parts = 2
  WordsPerPart = 1
  AudioTime = {0, 3}
  AudioEndTolerance = 1
  FinishedPercent = 30
  ListedId = {1, 2, 3, 4}
  PageLimit = 2
  DateOfPage <- MCDateOfPage
  OtherDocument = OtherDocument
  Phone = {mobile}
  Mailbox = {mailbox}
  OtpHandler = {h1, h2}
  HourLength = 1
  DayLength = 3
  RetentionLength = 4
  TokenLength = 1
  MaxPerDestinationPerHour = 1
  SmsDailyLimit = 1
  RecentLoginAge = 1
  MaxHour = 5
  MaxCodes = 3
  MaxAccounts = 2
  PartSize = 2
  MaxFileSize = 6
  Confirmation = {c1, c2}
SPECIFICATION Spec
CHECK_DEADLOCK FALSE
INVARIANTS
  TextIsKept
  BoundariesHold
  LibraryIsTrue
  SignInIsGuarded
  UploadIsWhole
PROPERTY ImplementsStore
