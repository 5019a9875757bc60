CONSTANTS
  MaxInt = 3
  Bad = Bad
  Blank = Blank
  AsciiLower <- MCAsciiLower
  UnicodeLower <- MCAsciiLower
  Contained <- Alike
  Heads <- Alike
  Tails <- Alike
  RegexClass <- MCRegexClass
  RegexMatches <- MCRegexMatches
  BeyondAscii = {"x"}
  Numeral <- MCNumeral
  FloatNumeral <- MCFloatNumeral
  ListText = "[]"
  NumberOf <- MCNumberOf
  VersionOf <- MCVersionOf
  DateOf <- MCDateOf
  Now = 50
  Definitions <- MCDefinitions
  Flag = "f"
  Depth <- MCDepth
  MaxDepth = 4
  Matching <- MCMatching
  Inspecting <- MCInspecting
  Calls <- MCCalls
  PersonProperties <- MCPersonProperties
  GroupProperties <- MCGroupProperties
  Keys = {"f", "g", "h"}
  Snapshots <- MCSnapshots
  None = None
  NoReply = NoReply
  Replies <- MCReplies
  Requests <- MCRequests
  MaxAttempts = 2
SPECIFICATION FlagsSpec
INVARIANTS CompleteCallsGetTheMeaning BlamedDefinitionsWereWarnedAbout UnusableFiltersDecideNothing RangesAdmitWhatTheySay OneSource EveryFlagAccountedFor
PROPERTIES AnswersNeverContradict
CHECK_DEADLOCK FALSE
