\* Three links, of which a cron run checks two, one user, one death.
SPECIFICATION FairSpec
CONSTANTS
  None = None
  MaxNodes = 3
  OldNodes = 2
  Url = {"a", "b"}
  OldUrl = "a"
  Editor = {"ann"}
  Interval = 0
  MaxSites = 2
  MaxTime = 2
  MaxEdits = 1
  MaxDeaths = 1
CHECK_DEADLOCK FALSE
INVARIANTS LinksAsJudged OrphansWereInHand
PROPERTY DueLinksChecked
