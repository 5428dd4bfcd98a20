SPECIFICATION TurnsSpec
CONSTANTS
  Plain <- MCPlain
  Composite <- MCComposite
  Odd <- MCOdd
  Marked <- MCMarked
  Names = {"Bash", "Read"}
  DefaultName = "tool"
  AssistantContents <- MCContents
  UserResults <- MCStored
  MaxItems = 4
INVARIANTS ResultsFollowCalls MatchedAsIssued EverythingOnce
CHECK_DEADLOCK FALSE
