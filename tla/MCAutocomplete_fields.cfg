SPECIFICATION Spec
CONSTANTS
  Field = {1, 2}
  Text <- MCText
  Trimmed <- MCTrimmed
  Matches <- MCMatches
  Separator = {"a,"}
  Blank = ""
  Undefined = "undefined"
  MaxKeys = 3
  None = None
  Empty = Empty
  Stale = Stale
INVARIANTS TypeOK ShownFitsText  ThrobberMeansWaiting
PROPERTIES SuggestionsCome SubmitComesThrough
CHECK_DEADLOCK FALSE
