CONSTANTS
  Nodes = {"n1", "n2"}
  Accounts = {"a", "b"}
  Imap = {"a"}
  Scheduled = {"a"}
  Mail = {"m1", "m2"}
  SlotLimit = 1
  MaxChanges = 1
  MaxFaults = 1
SPECIFICATION Spec
CHECK_DEADLOCK FALSE
PROPERTIES MailFetched JobsEnd WatchFollows
