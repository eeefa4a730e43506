SPECIFICATION Spec
CONSTANTS
  None = None
  Asked = Asked
  Blank = blank
  Linked = linked
  Mine = {d1, d2}
  Typed = {100, 1000}
  Details = {1}
  Prints = {d1, d2}
  Filters = {f1, f2}
  Orders = {o1, o2}
  Ids = {p1, p2}
  Tokens = {t1, t2}
  MaxVersions = 2
  MaxStored = 3
  MaxRecords = 3
  MaxUploads = 1
  MaxUrls = 2
  MaxPolls = 1
  MaxSessions = 2
  MaxRevisions = 2
  MaxChanges = 3
  MaxCalls = 2
INVARIANTS
  TypeOK NewerEditKept OfferedStageOpens ReviewIsSaved SavedIsStored
   LinkIsWhatWasSent UrlsEndOnce
  QueueIsNewest ReportedIsShown 
  
CHECK_DEADLOCK FALSE
