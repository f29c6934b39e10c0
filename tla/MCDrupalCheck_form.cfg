\* One link, one user with an edit form, and cron.
SPECIFICATION Spec
CONSTANTS
  None = None
  MaxNodes = 1
  OldNodes = 1
  Url = {"a", "b"}
  OldUrl = "a"
  Editor = {"ann"}
  Interval = 0
  MaxSites = 2
  MaxTime = 4
  MaxEdits = 3
  MaxDeaths = 0
CHECK_DEADLOCK FALSE
PROPERTY OutdatedFormRefused
